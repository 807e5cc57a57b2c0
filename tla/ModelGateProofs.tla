--------------------------- MODULE ModelGateProofs ---------------------------
(***************************************************************************)
(* Theorems about the model registry and the provider on top of it, for    *)
(* any models, programs, files and runtimes.                               *)
(***************************************************************************)
EXTENDS ModelGate, TLAPS

\* The record as register_local_model made it.
Unapproved(r) == [r EXCEPT !.approved = FALSE]

\* A listing says of no model what was not registered or asked for.
Faithful(list, registered, requested) ==
    \A m \in Models : list[m] # Absent =>
        /\ list[m].approved => m \in requested
        /\ Unapproved(list[m]) = registered[m]

FileFaithful == Readable => Faithful(file.list, issued, asked)

FramesFaithful == \A c \in Callers : frame[c] # Idle => Faithful(frame[c].list, issued, asked)

\* What a runtime holds is as faithful, and after the check it names the bytes
\* of the file until somebody replaces it.
ProviderFaithful(p) ==
    /\ p.model \in asked
    /\ p.of.provider = "llama.cpp"
    /\ Unapproved(p.of) = issued[p.model]
    /\ p.at = "checked" /\ ~p.swapped => disk[p.of.path] = p.of.sha

ProvidersFaithful == \A r \in Runtimes : provider[r] # NoProvider => ProviderFaithful(provider[r])

\* The properties hold of every copy there is, which makes them inductive.
IInv == GateTypeOK /\ FileFaithful /\ FramesFaithful /\ ProvidersFaithful /\ StartedAsRegistered

-----------------------------------------------------------------------------
\* Records are told from Absent, and the flag is but one of their fields.
LEMMA RecordShape ==
    ASSUME NEW r \in Record
    PROVE  /\ r # Absent
           /\ Unapproved(r) \in Record /\ Unapproved(r) # Absent
           /\ Unapproved(r).sha = r.sha /\ Unapproved(r).provider = r.provider
  <1>1. Unapproved(r) \in Record
    BY DEF Record, Unapproved
  <1>2. \A q \in Record : q # Absent
    <2>1. \A q \in Record : q.provider \in Providers
      BY DEF Record
    <2>2. Absent.provider = "absent"
      BY DEF Absent
    <2> QED BY <2>1, <2>2 DEF Providers
  <1>3. Unapproved(r).sha = r.sha /\ Unapproved(r).provider = r.provider
    BY DEF Record, Unapproved
  <1> QED BY <1>1, <1>2, <1>3

\* What a call is about.
LEMMA About == ASSUME NEW m \in Models
               PROVE  \A b \in BOOLEAN : {<<m, b>>} \in SUBSET (Models \X BOOLEAN)
  OBVIOUS

\* What is registered stays so, and what is asked stays asked: the listings
\* made before remain faithful.
LEMMA FaithfulStays ==
    ASSUME NEW list \in Listing, NEW iss, NEW iss2, NEW a, NEW a2,
           Faithful(list, iss, a), a \subseteq a2,
           \A m \in Models : iss[m] # Absent => iss2[m] = iss[m]
    PROVE  Faithful(list, iss2, a2)
  <1> SUFFICES ASSUME NEW m \in Models, list[m] # Absent
               PROVE  /\ list[m].approved => m \in a2
                      /\ Unapproved(list[m]) = iss2[m]
    BY DEF Faithful
  <1>1. (list[m].approved => m \in a) /\ Unapproved(list[m]) = iss[m]
    BY DEF Faithful
  <1>2. list[m] \in Record
    BY DEF Listing
  <1>3. iss[m] # Absent
    BY <1>1, <1>2, RecordShape
  <1> QED BY <1>1, <1>3

\* The file holds a listing whenever it can be read.
LEMMA ReadableShape ==
    ASSUME TypeOK, Readable
    PROVE  file.list \in Listing
  BY DEF TypeOK, Readable, NoFile, Truncated, Garbled

LEMMA BusyShape ==
    ASSUME TypeOK, NEW c \in Callers, frame[c] # Idle
    PROVE  frame[c] \in Busy /\ frame[c].list \in Listing
  BY DEF TypeOK, Busy

\* A step of one program: what it leaves with the program, and the others as
\* they were.
LEMMA FrameStep ==
    ASSUME TypeOK, NEW c \in Callers, NEW f \in {Idle} \cup Busy, Step(c, f)
    PROVE  /\ frame' \in [Callers -> {Idle} \cup Busy]
           /\ \A d \in Callers : frame'[d] = IF d = c THEN f ELSE frame[d]
           /\ overlapped' \in BOOLEAN
  <1>1. frame' = [frame EXCEPT ![c] = f] /\ frame \in [Callers -> {Idle} \cup Busy]
    BY DEF Step, TypeOK
  <1>2. overlapped' \in BOOLEAN
    BY DEF Step, TypeOK
  <1> QED BY <1>1, <1>2

\* What holds of the listings when nothing else changes.
LEMMA WritingIInv ==
    ASSUME IInv, NEW c \in Callers, NEW list \in Listing, NEW about \in SUBSET (Models \X BOOLEAN),
           Step(c, Writing(list, about)),
           UNCHANGED <<disk, file, answered, cutShort, provider, runs>>,
           issued' \in Listing, asked' \in SUBSET Models, asked \subseteq asked',
           \A m \in Models : issued[m] # Absent => issued'[m] = issued[m],
           Faithful(list, issued', asked')
    PROVE  IInv'
  <1>1. Writing(list, about) \in Busy /\ Writing(list, about).list = list
    BY DEF Writing, Busy
  <1>2. /\ frame' \in [Callers -> {Idle} \cup Busy]
        /\ \A d \in Callers : frame'[d] = IF d = c THEN Writing(list, about) ELSE frame[d]
        /\ overlapped' \in BOOLEAN
    BY <1>1, FrameStep DEF IInv, GateTypeOK
  <1>3. GateTypeOK'
    BY <1>2 DEF IInv, GateTypeOK, TypeOK
  <1>4. FileFaithful'
    <2> SUFFICES ASSUME Readable PROVE Faithful(file.list, issued', asked')
      BY DEF FileFaithful, Readable
    <2> QED BY ReadableShape, FaithfulStays DEF IInv, GateTypeOK, FileFaithful
  <1>5. FramesFaithful'
    <2> SUFFICES ASSUME NEW d \in Callers, frame'[d] # Idle
                 PROVE  Faithful(frame'[d].list, issued', asked')
      BY DEF FramesFaithful
    <2>1. CASE d = c
      BY <1>1, <1>2, <2>1
    <2>2. CASE d # c
      <3>1. frame'[d] = frame[d] /\ frame[d].list \in Listing
        BY <1>2, <2>2, BusyShape DEF IInv, GateTypeOK
      <3>2. Faithful(frame[d].list, issued, asked)
        BY <3>1 DEF IInv, FramesFaithful
      <3> QED BY <3>1, <3>2, FaithfulStays
    <2> QED BY <2>1, <2>2
  <1>6. ProvidersFaithful'
    <2> SUFFICES ASSUME NEW r \in Runtimes, provider[r] # NoProvider
                 PROVE  (ProviderFaithful(provider[r]))'
      BY DEF ProvidersFaithful
    <2>1. ProviderFaithful(provider[r])
      BY DEF IInv, ProvidersFaithful
    <2>2. provider[r].model \in Models /\ provider[r].of \in Record
      BY DEF IInv, GateTypeOK, Provider
    <2>3. issued[provider[r].model] # Absent
      BY <2>1, <2>2, RecordShape DEF ProviderFaithful
    <2> QED BY <2>1, <2>2, <2>3 DEF ProviderFaithful
  <1>7. StartedAsRegistered'
    <2> SUFFICES ASSUME NEW s \in runs
                 PROVE  /\ s.model \in asked'
                        /\ issued'[s.model].provider = "llama.cpp"
                        /\ ~s.swapped => s.bytes = issued'[s.model].sha
      BY DEF StartedAsRegistered
    <2>1. s.model \in Models
      BY DEF IInv, GateTypeOK, Run
    <2>2. /\ s.model \in asked
          /\ issued[s.model].provider = "llama.cpp"
          /\ ~s.swapped => s.bytes = issued[s.model].sha
      BY DEF IInv, StartedAsRegistered
    <2>3. issued[s.model] # Absent
      BY <2>2 DEF Absent
    <2> QED BY <2>1, <2>2, <2>3
  <1> QED BY <1>3, <1>4, <1>5, <1>6, <1>7 DEF IInv

\* Before anything is registered.
LEMMA InitIInv == ASSUME GateInit PROVE IInv
  <1>1. TypeOK
    BY DEF GateInit, Init, TypeOK, Listing
  <1>2. GateTypeOK
    BY <1>1 DEF GateInit, GateTypeOK
  <1>3. FileFaithful
    BY DEF GateInit, Init, FileFaithful, Readable, NoFile
  <1>4. FramesFaithful /\ ProvidersFaithful /\ StartedAsRegistered
    BY DEF GateInit, Init, FramesFaithful, ProvidersFaithful, StartedAsRegistered
  <1> QED BY <1>2, <1>3, <1>4 DEF IInv

-----------------------------------------------------------------------------
(* The calls of the registry.                                              *)

LEMMA CreateIInv ==
    ASSUME IInv, NEW c \in Callers, Create(c), UNCHANGED <<provider, runs>> PROVE IInv'
  <1> DEFINE list == [m \in Models |-> Absent]
  <1>1. list \in Listing /\ Faithful(list, issued', asked')
    BY DEF Listing, Faithful
  <1>2. Step(c, Writing(list, {})) /\ UNCHANGED <<disk, file, answered, cutShort, issued, asked>>
    BY DEF Create
  <1>3. issued' \in Listing /\ asked' \in SUBSET Models
    BY <1>2 DEF IInv, GateTypeOK, TypeOK
  <1> HIDE DEF list
  <1> QED BY <1>1, <1>2, <1>3, WritingIInv

LEMMA RegisterIInv ==
    ASSUME IInv, NEW c \in Callers, NEW m \in Models, NEW p \in Paths,
           NEW v \in Providers, Register(c, m, v, p), UNCHANGED <<provider, runs>>
    PROVE  IInv'
  <1> DEFINE new == NewRecord(v, p)
             list == [file.list EXCEPT ![m] = new]
  <1>1. disk[p] \in Bytes \cup {Missing}
    BY DEF IInv, GateTypeOK, TypeOK
  <1>2. new \in Record /\ ~new.approved
    BY <1>1 DEF NewRecord, Record
  <1>3. Unapproved(new) = new
    <2> HIDE DEF new
    <2> QED BY <1>2 DEF Record, Unapproved
  <1>4. file.list \in Listing /\ Faithful(file.list, issued, asked)
    BY ReadableShape DEF Register, IInv, GateTypeOK, FileFaithful
  <1>5. /\ issued[m] = Absent /\ issued' = [issued EXCEPT ![m] = new]
        /\ Step(c, Writing(list, {<<m, FALSE>>}))
        /\ UNCHANGED <<disk, file, asked, answered, cutShort>>
    BY DEF Register
  <1> HIDE DEF new
  <1>6. issued \in Listing /\ asked \in SUBSET Models
    BY DEF IInv, GateTypeOK, TypeOK
  <1>7. /\ issued' \in Listing
        /\ \A n \in Models : issued'[n] = IF n = m THEN new ELSE issued[n]
    BY <1>2, <1>5, <1>6 DEF Listing
  <1>8. /\ list \in Listing
        /\ \A n \in Models : list[n] = IF n = m THEN new ELSE file.list[n]
    BY <1>2, <1>4 DEF Listing
  <1>9. Faithful(file.list, issued', asked')
    BY <1>4, <1>5, <1>7, FaithfulStays
  <1>10. Faithful(list, issued', asked')
    BY <1>2, <1>3, <1>7, <1>8, <1>9 DEF Faithful
  <1>11. {<<m, FALSE>>} \in SUBSET (Models \X BOOLEAN)
    BY About, Zenon
  <1>12. asked' = asked /\ \A n \in Models : issued[n] # Absent => issued'[n] = issued[n]
    BY <1>5, <1>7
  <1> HIDE DEF list
  <1> QED BY <1>5, <1>6, <1>7, <1>8, <1>10, <1>11, <1>12, WritingIInv

LEMMA ApproveIInv ==
    ASSUME IInv, NEW c \in Callers, NEW m \in Models, Approve(c, m), UNCHANGED <<provider, runs>>
    PROVE  IInv'
  <1> DEFINE list == Approved(file.list, m)
  <1>1. file.list \in Listing /\ Faithful(file.list, issued, asked) /\ file.list[m] # Absent
    BY ReadableShape DEF Approve, IInv, GateTypeOK, FileFaithful
  <1>2. file.list[m] \in Record
    BY <1>1 DEF Listing
  <1>3. /\ asked' = asked \cup {m} /\ Step(c, Writing(list, {<<m, TRUE>>}))
        /\ UNCHANGED <<disk, file, issued, answered, cutShort>>
    BY DEF Approve
  <1>4. issued \in Listing /\ asked \in SUBSET Models
    BY DEF IInv, GateTypeOK, TypeOK
  <1>5. [file.list[m] EXCEPT !.approved = TRUE] \in Record
    BY <1>2 DEF Record
  <1>6. Unapproved([file.list[m] EXCEPT !.approved = TRUE]) = Unapproved(file.list[m])
    BY <1>2 DEF Unapproved, Record
  <1>7. /\ list \in Listing
        /\ \A n \in Models : list[n] = IF n = m THEN [file.list[m] EXCEPT !.approved = TRUE]
                                       ELSE file.list[n]
    BY <1>1, <1>5 DEF Listing, Approved
  <1>8. Faithful(list, issued', asked')
    BY <1>1, <1>3, <1>6, <1>7 DEF Faithful
  <1>9. {<<m, TRUE>>} \in SUBSET (Models \X BOOLEAN)
    BY About, Zenon
  <1>10. asked' \in SUBSET Models /\ asked \subseteq asked' /\ issued' = issued
    BY <1>3, <1>4
  <1> HIDE DEF list
  <1> QED BY <1>3, <1>4, <1>7, <1>8, <1>9, <1>10, WritingIInv

\* The steps of a write, and its end.
LEMMA WriteIInv ==
    ASSUME IInv, NEW c \in Callers, OpenFile(c) \/ FillFile(c) \/ End(c),
           UNCHANGED <<provider, runs>>
    PROVE  IInv'
  <1>1. frame[c] # Idle
    BY DEF OpenFile, FillFile, End, Idle
  <1>2. frame[c] \in Busy /\ frame[c].list \in Listing /\ frame[c].about \in SUBSET (Models \X BOOLEAN)
    BY <1>1, BusyShape DEF IInv, GateTypeOK, Busy
  <1>3. PICK f \in {Idle, [frame[c] EXCEPT !.at = "fill"]} : Step(c, f)
    BY DEF OpenFile, FillFile, End
  <1>4. f \in {Idle} \cup Busy /\ (f # Idle => f.list = frame[c].list)
    BY <1>2, <1>3 DEF Busy
  <1>5. /\ frame' \in [Callers -> {Idle} \cup Busy]
        /\ \A d \in Callers : frame'[d] = IF d = c THEN f ELSE frame[d]
        /\ overlapped' \in BOOLEAN
    BY <1>3, <1>4, FrameStep DEF IInv, GateTypeOK
  <1>6. UNCHANGED <<disk, issued, asked>>
    BY DEF OpenFile, FillFile, End
  <1>7. /\ answered' \in SUBSET (Models \X BOOLEAN) /\ cutShort' \in BOOLEAN
        /\ file' \in {file, Truncated, Garbled, Text(frame[c].list)}
    BY <1>2 DEF OpenFile, FillFile, End, IInv, GateTypeOK, TypeOK
  <1>8. file' \in [state : {"list"}, list : Listing] \cup {NoFile, Truncated, Garbled}
    BY <1>2, <1>7 DEF IInv, GateTypeOK, TypeOK, Text
  <1>9. GateTypeOK'
    BY <1>5, <1>6, <1>7, <1>8 DEF IInv, GateTypeOK, TypeOK
  <1>10. Faithful(frame[c].list, issued, asked)
    BY <1>1 DEF IInv, FramesFaithful
  <1>11. FileFaithful'
    BY <1>6, <1>7, <1>10 DEF IInv, FileFaithful, Readable, Truncated, Garbled, Text
  <1>12. FramesFaithful'
    BY <1>4, <1>5, <1>6, <1>10 DEF IInv, FramesFaithful
  <1>13. ProvidersFaithful' /\ StartedAsRegistered'
    BY <1>6 DEF IInv, ProvidersFaithful, ProviderFaithful, StartedAsRegistered
  <1> QED BY <1>9, <1>11, <1>12, <1>13 DEF IInv

-----------------------------------------------------------------------------
(* The runtimes.                                                           *)

\* A step of one runtime leaves the registry alone.
LEMMA RuntimeIInv ==
    ASSUME IInv, NEW r \in Runtimes, NEW p \in {NoProvider} \cup Provider,
           Become(r, p), UNCHANGED vars,
           p # NoProvider => ProviderFaithful(p),
           runs' \subseteq Run, StartedAsRegistered'
    PROVE  IInv'
  <1>1. provider' = [provider EXCEPT ![r] = p]
        /\ provider \in [Runtimes -> {NoProvider} \cup Provider]
    BY DEF Become, IInv, GateTypeOK
  <1>2. /\ provider' \in [Runtimes -> {NoProvider} \cup Provider]
        /\ \A q \in Runtimes : provider'[q] = IF q = r THEN p ELSE provider[q]
    BY <1>1
  <1>3. GateTypeOK'
    BY <1>2 DEF IInv, GateTypeOK, TypeOK, vars
  <1>4. FileFaithful' /\ FramesFaithful'
    BY DEF IInv, FileFaithful, FramesFaithful, Readable, vars
  <1>5. ProvidersFaithful'
    BY <1>2 DEF IInv, ProvidersFaithful, ProviderFaithful, vars
  <1> QED BY <1>3, <1>4, <1>5 DEF IInv

LEMMA RunsStay == ASSUME IInv, UNCHANGED <<vars, runs>> PROVE runs' \subseteq Run /\ StartedAsRegistered'
  BY DEF IInv, GateTypeOK, StartedAsRegistered, vars

LEMMA LoadIInv ==
    ASSUME IInv, NEW r \in Runtimes, NEW m \in Models, Load(r, m) PROVE IInv'
  <1> DEFINE p == [at |-> "ready", model |-> m, of |-> file.list[m], swapped |-> FALSE]
  <1>1. file.list \in Listing /\ Faithful(file.list, issued, asked)
    BY ReadableShape DEF Load, IInv, GateTypeOK, FileFaithful
  <1>2. file.list[m] \in Record
    BY <1>1 DEF Load, Listing
  <1>3. p \in Provider
    BY <1>2 DEF Provider
  <1>4. ProviderFaithful(p)
    BY <1>1 DEF Load, Faithful, ProviderFaithful
  <1>5. Become(r, p) /\ UNCHANGED <<vars, runs>>
    BY DEF Load
  <1> HIDE DEF p
  <1>6. UNCHANGED vars
    BY <1>5
  <1> QED BY <1>3, <1>4, <1>5, <1>6, RunsStay, RuntimeIInv

LEMMA CheckIInv ==
    ASSUME IInv, NEW r \in Runtimes, Check(r) PROVE IInv'
  <1> DEFINE p == [provider[r] EXCEPT !.at = "checked", !.swapped = FALSE]
  <1>1. provider[r] # NoProvider
    BY DEF Check, NoProvider
  <1>2. provider[r] \in Provider /\ ProviderFaithful(provider[r])
    BY <1>1 DEF IInv, GateTypeOK, ProvidersFaithful
  <1>3. p \in Provider /\ p.model = provider[r].model /\ p.of = provider[r].of
    BY <1>2 DEF Provider
  <1>4. ProviderFaithful(p)
    BY <1>2, <1>3 DEF Check, ProviderFaithful
  <1>5. Become(r, p) /\ UNCHANGED <<vars, runs>>
    BY DEF Check
  <1> HIDE DEF p
  <1>6. UNCHANGED vars
    BY <1>5
  <1> QED BY <1>3, <1>4, <1>5, <1>6, RunsStay, RuntimeIInv

\* What is started is the file as it was checked, unless it was replaced.
LEMMA StartIInv ==
    ASSUME IInv, NEW r \in Runtimes, Start(r) PROVE IInv'
  <1> DEFINE old == provider[r]
             p == [old EXCEPT !.at = "ready", !.swapped = FALSE]
             s == [model |-> old.model, bytes |-> disk[old.of.path], swapped |-> old.swapped]
  <1>1. old # NoProvider /\ old.at = "checked"
    BY DEF Start, NoProvider
  <1>2. old \in Provider /\ ProviderFaithful(old)
    BY <1>1 DEF IInv, GateTypeOK, ProvidersFaithful
  <1>3. p \in Provider /\ p.at = "ready" /\ p.model = old.model /\ p.of = old.of
    BY <1>2 DEF Provider
  <1>4. ProviderFaithful(p)
    BY <1>2, <1>3 DEF ProviderFaithful
  <1>5. Become(r, p) /\ UNCHANGED vars
    BY DEF Start
  <1>6. runs' = runs \/ (disk[old.of.path] # Missing /\ runs' = runs \cup {s})
    BY DEF Start
  <1>7. old.model \in Models /\ old.of \in Record /\ old.swapped \in BOOLEAN
    BY <1>2 DEF Provider
  <1>8. disk[old.of.path] \in Bytes \cup {Missing}
    BY <1>7 DEF IInv, GateTypeOK, TypeOK, Record
  <1>9. disk[old.of.path] # Missing => s \in Run
    BY <1>7, <1>8 DEF Run
  <1>10. /\ s.model \in asked
         /\ issued[s.model].provider = "llama.cpp"
         /\ ~s.swapped => s.bytes = issued[s.model].sha
    <2>1. Unapproved(old.of).sha = old.of.sha /\ Unapproved(old.of).provider = old.of.provider
      BY <1>7, RecordShape
    <2> QED BY <1>1, <1>2, <2>1 DEF ProviderFaithful
  <1>11. issued' = issued /\ asked' = asked
    BY <1>5 DEF vars
  <1> HIDE DEF old, p, s
  <1>12. runs' \subseteq Run
    BY <1>6, <1>9 DEF IInv, GateTypeOK
  <1>13. StartedAsRegistered'
    BY <1>6, <1>10, <1>11 DEF IInv, StartedAsRegistered
  <1> QED BY <1>3, <1>4, <1>5, <1>12, <1>13, RuntimeIInv

LEMMA DropIInv ==
    ASSUME IInv, NEW r \in Runtimes, Drop(r) PROVE IInv'
  <1>1. Become(r, NoProvider) /\ UNCHANGED <<vars, runs>> /\ UNCHANGED vars
    BY DEF Drop
  <1> QED BY <1>1, RunsStay, RuntimeIInv

\* A replaced file takes the promise away from the checks that read it.
LEMMA SwapIInv ==
    ASSUME IInv, NEW p \in Paths, NEW b \in Bytes \cup {Missing}, Swap(p, b) PROVE IInv'
  <1>1. /\ disk' = [disk EXCEPT ![p] = b]
        /\ UNCHANGED <<file, frame, issued, asked, answered, overlapped, cutShort, runs>>
    BY DEF Swap, Replace
  <1>2. /\ disk' \in [Paths -> Bytes \cup {Missing}]
        /\ \A q \in Paths : disk'[q] = IF q = p THEN b ELSE disk[q]
    BY <1>1 DEF IInv, GateTypeOK, TypeOK
  <1>3. \A r \in Runtimes : provider'[r] =
            IF provider[r].at = "checked" /\ provider[r].of.path = p
            THEN [provider[r] EXCEPT !.swapped = TRUE] ELSE provider[r]
    BY DEF Swap
  <1>4. ASSUME NEW r \in Runtimes
        PROVE  /\ provider'[r] \in {NoProvider} \cup Provider
               /\ provider'[r] # NoProvider => (ProviderFaithful(provider[r]))'
    <2>1. CASE provider[r] = NoProvider
      BY <1>3, <2>1 DEF NoProvider
    <2>2. CASE provider[r] # NoProvider
      <3>1. provider[r] \in Provider /\ ProviderFaithful(provider[r])
        BY <2>2 DEF IInv, GateTypeOK, ProvidersFaithful
      <3>2. provider[r].of.path \in Paths
        BY <3>1 DEF Provider, Record
      <3>3. /\ provider'[r] \in Provider
            /\ provider'[r].at = provider[r].at /\ provider'[r].of = provider[r].of
            /\ provider'[r].model = provider[r].model
            /\ provider'[r].swapped = (provider[r].swapped
                  \/ (provider[r].at = "checked" /\ provider[r].of.path = p))
        BY <1>3, <3>1 DEF Provider
      <3> QED BY <1>1, <1>2, <3>1, <3>2, <3>3 DEF ProviderFaithful
    <2> QED BY <2>1, <2>2
  <1>5. provider' = [r \in Runtimes |-> provider'[r]]
    BY DEF Swap
  <1>6. provider' \in [Runtimes -> {NoProvider} \cup Provider]
    BY <1>4, <1>5
  <1>7. GateTypeOK'
    BY <1>1, <1>2, <1>6 DEF IInv, GateTypeOK, TypeOK
  <1>8. ProvidersFaithful'
    BY <1>4 DEF ProvidersFaithful
  <1>9. FileFaithful' /\ FramesFaithful' /\ StartedAsRegistered'
    BY <1>1 DEF IInv, FileFaithful, FramesFaithful, Readable, StartedAsRegistered
  <1> QED BY <1>7, <1>8, <1>9 DEF IInv

\* Every step keeps the invariant.
LEMMA StepIInv == ASSUME IInv, [GateNext]_gateVars PROVE IInv'
  <1>1. CASE Calls /\ UNCHANGED <<provider, runs>>
    BY <1>1, CreateIInv, RegisterIInv, ApproveIInv, WriteIInv DEF Calls
  <1>2. ASSUME NEW r \in Runtimes, (\E m \in Models : Load(r, m)) \/ Check(r) \/ Start(r) \/ Drop(r)
        PROVE  IInv'
    BY <1>2, LoadIInv, CheckIInv, StartIInv, DropIInv
  <1>3. ASSUME NEW p \in Paths, NEW b \in Bytes \cup {Missing}, Swap(p, b) PROVE IInv'
    BY <1>3, SwapIInv
  <1>4. CASE UNCHANGED gateVars
    BY <1>4 DEF gateVars, vars, IInv, GateTypeOK, TypeOK, FileFaithful, FramesFaithful, Readable,
                ProvidersFaithful, ProviderFaithful, StartedAsRegistered
  <1> QED BY <1>1, <1>2, <1>3, <1>4 DEF GateNext

LEMMA SpecIInv == GateSpec => []IInv
  BY InitIInv, StepIInv, PTL DEF GateSpec

-----------------------------------------------------------------------------
\* Every reachable state of registry and runtimes is well typed.
THEOREM TypeCorrect == GateSpec => []GateTypeOK
  <1>1. IInv => GateTypeOK
    BY DEF IInv
  <1> QED BY <1>1, SpecIInv, PTL

\* The records that are anywhere come from faithful listings.
LEMMA RecordsFaithful ==
    ASSUME IInv, NEW m \in Models, NEW r \in Records(m)
    PROVE  (r.approved => m \in asked) /\ Unapproved(r) = issued[m]
  <1>1. PICK list \in Listings : r = list[m] /\ r # Absent
    BY DEF Records
  <1>2. Faithful(list, issued, asked)
    BY <1>1 DEF Listings, IInv, FileFaithful, FramesFaithful
  <1> QED BY <1>1, <1>2 DEF Faithful

\* However many programs overlap on the file, and wherever they end: a record
\* keeps the digest, the path and the provider of its registration, lost
\* updates lose whole records and never mix two, and no listing holds an
\* approval that approve_license was not called for.
THEOREM RecordsAreOfRegistrations == GateSpec => []RecordIsOfRegistration
  <1>1. IInv => RecordIsOfRegistration
    BY RecordsFaithful DEF RecordIsOfRegistration, Unapproved
  <1> QED BY <1>1, SpecIInv, PTL

\* What generate() starts is an approved model with the bytes that were
\* registered, unless its file is replaced between the check and the start.
THEOREM StartsAreOfRegistrations == GateSpec => []StartedAsRegistered
  <1>1. IInv => StartedAsRegistered
    BY DEF IInv
  <1> QED BY <1>1, SpecIInv, PTL

-----------------------------------------------------------------------------
(* What holds until calls overlap or a program ends while writing.         *)

\* A listing has what a returned call has done.
Shows(list, a) == list[a[1]] # Absent /\ (a[2] => list[a[1]].approved)

\* A listing that nobody misses anything in: neither who has been answered nor
\* who runs a model.
Current(list) ==
    /\ \A a \in answered : Shows(list, a)
    /\ \A r \in Runtimes : provider[r] # NoProvider =>
          list[provider[r].model] = provider[r].of /\ provider[r].of.approved

\* A listing that keeps the approvals of the file it will replace, from which
\* providers are built in the meantime.
Keeps(list) ==
    \A m \in Models : file.list[m] # Absent /\ file.list[m].approved => list[m] = file.list[m]

\* The one program that is in a call, and what it is about to write.
Sole(c) ==
    /\ \A d \in Callers : d # c => frame[d] = Idle
    /\ Current(frame[c].list)
    /\ \A a \in frame[c].about : Shows(frame[c].list, a)
    /\ frame[c].at = "open" /\ Readable => Keeps(frame[c].list)
    /\ frame[c].at = "fill" => file = Truncated

\* The file is whole except while it is being filled.
FileCurrent ==
    /\ (\A c \in Callers : frame[c].at # "fill") =>
          file = NoFile \/ (Readable /\ Current(file.list))
    /\ file = NoFile => answered = {} /\ \A r \in Runtimes : provider[r] = NoProvider

Serial ==
    ~overlapped /\ ~cutShort =>
        FileCurrent /\ \A c \in Callers : frame[c] # Idle => Sole(c)

SerialInv == IInv /\ Serial

LEMMA InitSerial == ASSUME GateInit PROVE SerialInv
  <1>1. Serial
    BY DEF GateInit, Init, Serial, FileCurrent, Idle
  <1> QED BY <1>1, InitIInv DEF SerialInv

\* A step of c without overlap: everybody else is between calls.
LEMMA StepAlone ==
    ASSUME IInv, NEW c \in Callers, NEW f \in {Idle} \cup Busy, Step(c, f), ~overlapped'
    PROVE  /\ ~overlapped
           /\ \A d \in Callers : d # c => frame[d] = Idle /\ frame'[d] = Idle
           /\ frame'[c] = f
  <1>1. ~overlapped /\ \A d \in Callers : d # c => frame[d] = Idle
    BY DEF Step
  <1>2. \A d \in Callers : frame'[d] = IF d = c THEN f ELSE frame[d]
    BY FrameStep DEF IInv, GateTypeOK
  <1> QED BY <1>1, <1>2

LEMMA Stages == Idle.at = "idle" /\ \A b \in Busy : b # Idle /\ b.at \in {"open", "fill"}
  BY DEF Idle, Busy

\* A call has read the file and made the listing it will write.
LEMMA WritingSerial ==
    ASSUME SerialInv, NEW c \in Callers, NEW list \in Listing,
           NEW about \in SUBSET (Models \X BOOLEAN),
           frame[c] = Idle, Step(c, Writing(list, about)),
           UNCHANGED <<file, answered, cutShort, provider>>,
           \A a \in about : Shows(list, a),
           FileCurrent /\ (Readable => Current(file.list)) =>
               Current(list) /\ (Readable => Keeps(list))
    PROVE  Serial'
  <1> SUFFICES ASSUME ~overlapped', ~cutShort'
               PROVE  FileCurrent' /\ \A d \in Callers : frame'[d] # Idle => Sole(d)'
    BY DEF Serial
  <1> DEFINE f == Writing(list, about)
  <1>1. f \in Busy /\ f.list = list /\ f.about = about /\ f.at = "open"
    BY DEF Writing, Busy
  <1> HIDE DEF f
  <1>2. /\ ~overlapped
        /\ \A d \in Callers : d # c => frame[d] = Idle /\ frame'[d] = Idle
        /\ frame'[c] = f
    BY <1>1, StepAlone DEF SerialInv, f
  <1>3. FileCurrent /\ \A d \in Callers : frame[d].at # "fill"
    BY <1>2, Stages DEF SerialInv, Serial
  <1>4. Readable => Current(file.list)
    BY <1>3 DEF FileCurrent, Readable, NoFile
  <1>5. Current(list) /\ (Readable => Keeps(list))
    BY <1>3, <1>4
  <1>6. Current(list)' /\ (Readable' => Keeps(list)')
    BY <1>5 DEF Current, Keeps, Readable
  <1>7. Sole(c)'
    BY <1>1, <1>2, <1>6 DEF Sole
  <1>8. FileCurrent'
    BY <1>3 DEF FileCurrent, Current, Readable
  <1> QED BY <1>2, <1>7, <1>8

LEMMA BeginSerial ==
    ASSUME SerialInv, NEW c \in Callers, UNCHANGED <<provider, runs>>,
           \/ Create(c)
           \/ \E m \in Models, p \in Paths, v \in Providers : Register(c, m, v, p)
           \/ \E m \in Models : Approve(c, m)
    PROVE  Serial'
  <1>1. CASE Create(c)
    <2> DEFINE list == [m \in Models |-> Absent]
    <2>1. list \in Listing
      BY DEF Listing
    <2>2. /\ frame[c] = Idle /\ file = NoFile /\ ~Readable
          /\ Step(c, Writing(list, {})) /\ UNCHANGED <<file, answered, cutShort>>
      BY <1>1 DEF Create, NoFile, Readable
    <2>3. FileCurrent => Current(list)
      BY <2>2 DEF FileCurrent, Current
    <2> HIDE DEF list
    <2> QED BY <2>1, <2>2, <2>3, WritingSerial
  <1>2. ASSUME NEW m \in Models, NEW p \in Paths, NEW v \in Providers,
               Register(c, m, v, p)
        PROVE  Serial'
    <2> DEFINE new == NewRecord(v, p)
               list == [file.list EXCEPT ![m] = new]
    <2>1. disk[p] \in Bytes \cup {Missing}
      BY DEF SerialInv, IInv, GateTypeOK, TypeOK
    <2>2. new \in Record /\ new # Absent
      <3>1. new \in Record
        BY <2>1 DEF NewRecord, Record
      <3> QED BY <3>1, RecordShape
    <2>3. /\ frame[c] = Idle /\ issued[m] = Absent
          /\ Step(c, Writing(list, {<<m, FALSE>>})) /\ UNCHANGED <<file, answered, cutShort>>
      BY <1>2 DEF Register
    <2>4. file.list \in Listing /\ Faithful(file.list, issued, asked)
      BY <1>2, ReadableShape DEF Register, SerialInv, IInv, GateTypeOK, FileFaithful
    <2>5. file.list[m] = Absent
      BY <2>3, <2>4, RecordShape DEF Faithful, Listing
    <2> HIDE DEF new
    <2>6. /\ list \in Listing
          /\ \A n \in Models : list[n] = IF n = m THEN new ELSE file.list[n]
      BY <2>2, <2>4 DEF Listing
    <2> HIDE DEF list
    <2>7. \A a \in {<<m, FALSE>>} : Shows(list, a)
      <3>1. <<m, FALSE>>[1] = m /\ ~ <<m, FALSE>>[2]
        OBVIOUS
      <3>2. Shows(list, <<m, FALSE>>)
        BY <2>2, <2>6, <3>1 DEF Shows
      <3> QED BY <3>2
    <2>8. Keeps(list)
      BY <2>5, <2>6 DEF Keeps
    <2>9. Current(file.list) => Current(list)
      <3> SUFFICES ASSUME Current(file.list) PROVE Current(list)
        OBVIOUS
      <3>1. ASSUME NEW a \in answered PROVE Shows(list, a)
        <4>1. a[1] \in Models /\ Shows(file.list, a)
          BY DEF SerialInv, IInv, GateTypeOK, TypeOK, Current
        <4> QED BY <2>5, <2>6, <4>1 DEF Shows
      <3>2. ASSUME NEW r \in Runtimes, provider[r] # NoProvider
            PROVE  list[provider[r].model] = provider[r].of /\ provider[r].of.approved
        <4>1. provider[r].model \in Models /\ provider[r].of \in Record
          BY <3>2 DEF SerialInv, IInv, GateTypeOK, Provider
        <4>2. file.list[provider[r].model] = provider[r].of /\ provider[r].of.approved
          BY <3>2 DEF Current
        <4> QED BY <2>5, <2>6, <4>1, <4>2, RecordShape
      <3> QED BY <3>1, <3>2 DEF Current
    <2>10. {<<m, FALSE>>} \in SUBSET (Models \X BOOLEAN)
      BY About, Zenon
    <2>11. Readable
      BY <1>2 DEF Register
    <2> QED BY <2>3, <2>6, <2>7, <2>8, <2>9, <2>10, <2>11, WritingSerial
  <1>3. ASSUME NEW m \in Models, Approve(c, m) PROVE Serial'
    <2> DEFINE new == [file.list[m] EXCEPT !.approved = TRUE]
               list == Approved(file.list, m)
    <2>1. file.list \in Listing /\ file.list[m] # Absent
      BY <1>3, ReadableShape DEF Approve, SerialInv, IInv, GateTypeOK
    <2>2. file.list[m] \in Record
      BY <2>1 DEF Listing
    <2>3. /\ new \in Record /\ new.approved
          /\ file.list[m].approved => new = file.list[m]
      BY <2>2 DEF Record
    <2>4. /\ list \in Listing
          /\ \A n \in Models : list[n] = IF n = m THEN new ELSE file.list[n]
      BY <2>1, <2>3 DEF Listing, Approved
    <2>5. /\ frame[c] = Idle /\ Readable
          /\ Step(c, Writing(list, {<<m, TRUE>>})) /\ UNCHANGED <<file, answered, cutShort>>
      BY <1>3 DEF Approve
    <2>6. new # Absent
      BY <2>3, RecordShape
    <2> HIDE DEF list, new
    <2>7. \A a \in {<<m, TRUE>>} : Shows(list, a)
      BY <2>3, <2>4, <2>6 DEF Shows
    <2>8. Keeps(list)
      BY <2>3, <2>4 DEF Keeps
    <2>9. Current(file.list) => Current(list)
      <3> SUFFICES ASSUME Current(file.list) PROVE Current(list)
        OBVIOUS
      <3>1. ASSUME NEW a \in answered PROVE Shows(list, a)
        <4>1. a[1] \in Models /\ Shows(file.list, a)
          BY DEF SerialInv, IInv, GateTypeOK, TypeOK, Current
        <4> QED BY <2>3, <2>4, <2>6, <4>1 DEF Shows
      <3>2. ASSUME NEW r \in Runtimes, provider[r] # NoProvider
            PROVE  list[provider[r].model] = provider[r].of /\ provider[r].of.approved
        <4>1. provider[r].model \in Models
          BY <3>2 DEF SerialInv, IInv, GateTypeOK, Provider
        <4>2. file.list[provider[r].model] = provider[r].of /\ provider[r].of.approved
          BY <3>2 DEF Current
        <4> QED BY <2>3, <2>4, <4>1, <4>2
      <3> QED BY <3>1, <3>2 DEF Current
    <2>10. {<<m, TRUE>>} \in SUBSET (Models \X BOOLEAN)
      BY About, Zenon
    <2> QED BY <2>4, <2>5, <2>7, <2>8, <2>9, <2>10, WritingSerial
  <1> QED BY <1>1, <1>2, <1>3

\* Without overlap nobody else fills the file, so that it is whole afterwards;
\* a program that ends before has left it as it was.
LEMMA WriteSerial ==
    ASSUME SerialInv, NEW c \in Callers, OpenFile(c) \/ FillFile(c) \/ End(c),
           UNCHANGED <<provider, runs>>
    PROVE  Serial'
  <1> SUFFICES ASSUME ~overlapped', ~cutShort'
               PROVE  FileCurrent' /\ \A d \in Callers : frame'[d] # Idle => Sole(d)'
    BY DEF Serial
  <1>1. frame[c] \in Busy /\ frame[c] # Idle
    BY BusyShape DEF OpenFile, FillFile, End, Idle, SerialInv, IInv, GateTypeOK
  <1>2. ~cutShort
    BY DEF OpenFile, FillFile, End
  <1> DEFINE next == [frame[c] EXCEPT !.at = "fill"]
  <1>3. next \in Busy /\ next.at = "fill" /\ next.list = frame[c].list /\ next.about = frame[c].about
    BY <1>1 DEF Busy
  <1> HIDE DEF next
  <1>4. CASE OpenFile(c)
    <2>1. Step(c, next) /\ file' = Truncated /\ answered' = answered /\ frame[c].at = "open"
      BY <1>4 DEF OpenFile, next
    <2>2. /\ ~overlapped
          /\ \A d \in Callers : d # c => frame[d] = Idle /\ frame'[d] = Idle
          /\ frame'[c] = next
      BY <1>3, <2>1, StepAlone DEF SerialInv
    <2>3. Sole(c)
      BY <1>1, <1>2, <2>2 DEF SerialInv, Serial
    <2>4. Sole(c)'
      BY <1>3, <2>1, <2>2, <2>3 DEF Sole, Current
    <2>5. FileCurrent'
      BY <1>3, <2>1, <2>2 DEF FileCurrent, Truncated, NoFile
    <2> QED BY <2>2, <2>4, <2>5
  <1>5. CASE FillFile(c)
    <2>1. /\ Step(c, Idle) /\ frame[c].at = "fill" /\ answered' = answered \cup frame[c].about
          /\ file' = Text(frame[c].list) \/ file # Truncated
      BY <1>5 DEF FillFile
    <2>2. /\ ~overlapped
          /\ \A d \in Callers : d # c => frame[d] = Idle /\ frame'[d] = Idle
          /\ frame'[c] = Idle
      BY <2>1, StepAlone DEF SerialInv
    <2>3. Sole(c)
      BY <1>1, <1>2, <2>2 DEF SerialInv, Serial
    <2>4. file' = Text(frame[c].list)
      BY <2>1, <2>3 DEF Sole
    <2>5. Readable' /\ file'.list = frame[c].list /\ file' # NoFile
      BY <2>4 DEF Text, Readable, NoFile
    <2>6. Current(frame[c].list) /\ \A a \in frame[c].about : Shows(frame[c].list, a)
      BY <2>3 DEF Sole
    <2>7. \A a \in answered' : Shows(frame[c].list, a)
      BY <2>1, <2>6 DEF Current
    <2>8. Current(file.list)'
      BY <2>5, <2>6, <2>7 DEF Current, Shows
    <2>9. FileCurrent'
      BY <2>5, <2>8 DEF FileCurrent
    <2> QED BY <2>2, <2>9
  <1>6. CASE End(c)
    <2>1. Step(c, Idle) /\ UNCHANGED <<file, answered>> /\ frame[c].at # "fill"
      BY <1>6 DEF End
    <2>2. /\ ~overlapped
          /\ \A d \in Callers : d # c => frame[d] = Idle /\ frame'[d] = Idle
          /\ frame'[c] = Idle
      BY <2>1, StepAlone DEF SerialInv
    <2>3. FileCurrent /\ \A d \in Callers : frame[d].at # "fill"
      BY <1>2, <2>1, <2>2, Stages DEF SerialInv, Serial
    <2>4. FileCurrent'
      BY <2>1, <2>3 DEF FileCurrent, Current, Readable
    <2> QED BY <2>2, <2>4
  <1> QED BY <1>4, <1>5, <1>6

\* A runtime builds its provider from the file, and what is about to replace
\* the file has the same record.
LEMMA LoadSerial ==
    ASSUME SerialInv, NEW r \in Runtimes, NEW m \in Models, Load(r, m) PROVE Serial'
  <1> SUFFICES ASSUME ~overlapped, ~cutShort
               PROVE  FileCurrent' /\ \A c \in Callers : frame[c] # Idle => Sole(c)'
    BY DEF Serial, Load, vars
  <1>1. /\ Readable /\ file.list[m] # Absent /\ file.list[m].approved
        /\ UNCHANGED <<file, frame, answered>> /\ file # NoFile
    BY DEF Load, vars, Readable, NoFile
  <1> DEFINE p == [at |-> "ready", model |-> m, of |-> file.list[m], swapped |-> FALSE]
  <1>2. p.model = m /\ p.of = file.list[m]
    OBVIOUS
  <1>3. provider' = [provider EXCEPT ![r] = p] /\ provider \in [Runtimes -> {NoProvider} \cup Provider]
    BY DEF Load, Become, SerialInv, IInv, GateTypeOK
  <1> HIDE DEF p
  <1>4. \A q \in Runtimes : provider'[q] = IF q = r THEN p ELSE provider[q]
    BY <1>3
  <1>5. ASSUME NEW list, list[m] = file.list[m], Current(list) PROVE Current(list)'
    BY <1>1, <1>2, <1>4, <1>5 DEF Current
  <1>6. FileCurrent /\ \A c \in Callers : frame[c] # Idle => Sole(c)
    BY DEF SerialInv, Serial
  <1>7. FileCurrent'
    <2>1. Current(file.list) => Current(file.list)'
      BY <1>1, <1>5
    <2> QED BY <1>1, <1>6, <2>1 DEF FileCurrent, Readable
  <1>8. ASSUME NEW c \in Callers, frame[c] # Idle PROVE Sole(c)'
    <2>1. Sole(c) /\ frame[c] \in Busy
      BY <1>6, <1>8, BusyShape DEF SerialInv, IInv, GateTypeOK
    <2>2. frame[c].at = "open"
      BY <1>1, <2>1, Stages DEF Sole, Readable, Truncated
    <2>3. frame[c].list[m] = file.list[m]
      BY <1>1, <2>1, <2>2 DEF Sole, Keeps
    <2>4. Current(frame[c].list)'
      BY <1>1, <1>5, <2>1, <2>3 DEF Sole
    <2> QED BY <1>1, <2>1, <2>4 DEF Sole, Keeps, Readable
  <1> QED BY <1>7, <1>8

\* Every other step of the runtimes, and of the model files, leaves each
\* provider with its record or takes it away.
LEMMA KeepSerial ==
    ASSUME SerialInv, UNCHANGED <<file, frame, answered, overlapped, cutShort>>,
           \A r \in Runtimes : provider'[r] # NoProvider =>
               /\ provider[r] # NoProvider
               /\ provider'[r].model = provider[r].model /\ provider'[r].of = provider[r].of
    PROVE  Serial'
  <1>1. \A list : Current(list) => Current(list)'
    BY DEF Current
  <1> QED BY <1>1 DEF SerialInv, Serial, FileCurrent, Sole, Keeps, Readable

LEMMA RuntimeSerial ==
    ASSUME SerialInv, NEW r \in Runtimes, Check(r) \/ Start(r) \/ Drop(r) PROVE Serial'
  <1>1. provider \in [Runtimes -> {NoProvider} \cup Provider]
    BY DEF SerialInv, IInv, GateTypeOK
  <1>2. UNCHANGED <<file, frame, answered, overlapped, cutShort>>
    BY DEF Check, Start, Drop, vars
  <1>3. PICK p : /\ provider' = [provider EXCEPT ![r] = p]
                 /\ p # NoProvider => /\ provider[r] # NoProvider
                                      /\ p.model = provider[r].model /\ p.of = provider[r].of
    <2>1. CASE Check(r)
      <3>1. provider[r] \in Provider
        BY <1>1, <2>1 DEF Check, NoProvider
      <3> DEFINE p == [provider[r] EXCEPT !.at = "checked", !.swapped = FALSE]
      <3>2. p.model = provider[r].model /\ p.of = provider[r].of
        BY <3>1 DEF Provider
      <3>3. provider' = [provider EXCEPT ![r] = p] /\ provider[r] # NoProvider
        BY <2>1 DEF Check, Become, NoProvider
      <3> HIDE DEF p
      <3> QED BY <3>2, <3>3
    <2>2. CASE Start(r)
      <3>1. provider[r] \in Provider
        BY <1>1, <2>2 DEF Start, NoProvider
      <3> DEFINE p == [provider[r] EXCEPT !.at = "ready", !.swapped = FALSE]
      <3>2. p.model = provider[r].model /\ p.of = provider[r].of
        BY <3>1 DEF Provider
      <3>3. provider' = [provider EXCEPT ![r] = p] /\ provider[r] # NoProvider
        BY <2>2 DEF Start, Become, NoProvider
      <3> HIDE DEF p
      <3> QED BY <3>2, <3>3
    <2>3. CASE Drop(r)
      BY <2>3 DEF Drop, Become
    <2> QED BY <2>1, <2>2, <2>3
  <1>4. \A q \in Runtimes : provider'[q] = IF q = r THEN p ELSE provider[q]
    BY <1>1, <1>3
  <1> QED BY <1>2, <1>3, <1>4, KeepSerial

LEMMA SwapSerial ==
    ASSUME SerialInv, NEW p \in Paths, NEW b \in Bytes \cup {Missing}, Swap(p, b) PROVE Serial'
  <1>1. UNCHANGED <<file, frame, answered, overlapped, cutShort>>
    BY DEF Swap, Replace
  <1>2. ASSUME NEW r \in Runtimes, provider'[r] # NoProvider
        PROVE  /\ provider[r] # NoProvider
               /\ provider'[r].model = provider[r].model /\ provider'[r].of = provider[r].of
    <2>1. provider'[r] = IF provider[r].at = "checked" /\ provider[r].of.path = p
                         THEN [provider[r] EXCEPT !.swapped = TRUE] ELSE provider[r]
      BY DEF Swap
    <2>2. provider[r] \in {NoProvider} \cup Provider
      BY DEF SerialInv, IInv, GateTypeOK
    <2>3. provider[r] # NoProvider
      BY <1>2, <2>1 DEF NoProvider
    <2> QED BY <2>1, <2>2, <2>3 DEF Provider
  <1> QED BY <1>1, <1>2, KeepSerial

LEMMA StepSerial == ASSUME SerialInv, [GateNext]_gateVars PROVE SerialInv'
  <1>1. IInv'
    BY StepIInv DEF SerialInv
  <1>2. CASE Calls /\ UNCHANGED <<provider, runs>>
    <2>1. Serial'
      BY <1>2, BeginSerial, WriteSerial DEF Calls
    <2> QED BY <1>1, <2>1 DEF SerialInv
  <1>3. ASSUME NEW r \in Runtimes, (\E m \in Models : Load(r, m)) \/ Check(r) \/ Start(r) \/ Drop(r)
        PROVE  SerialInv'
    BY <1>1, <1>3, LoadSerial, RuntimeSerial DEF SerialInv
  <1>4. ASSUME NEW p \in Paths, NEW b \in Bytes \cup {Missing}, Swap(p, b) PROVE SerialInv'
    BY <1>1, <1>4, SwapSerial DEF SerialInv
  <1>5. CASE UNCHANGED gateVars
    <2>1. Serial'
      BY <1>5, KeepSerial DEF gateVars, vars
    <2> QED BY <1>1, <2>1 DEF SerialInv
  <1> QED BY <1>2, <1>3, <1>4, <1>5 DEF GateNext

LEMMA SpecSerial == GateSpec => []SerialInv
  BY InitSerial, StepSerial, PTL DEF GateSpec

\* As long as no two calls overlap and no program ends while it writes, the
\* registry file is whole between calls, and every registration and approval
\* that was answered is in it.
THEOREM AnswersAreInFile == GateSpec => []AnsweredIsStored
  <1>1. SerialInv => AnsweredIsStored
    BY DEF SerialInv, Serial, FileCurrent, Current, Shows, AnsweredIsStored, Idle
  <1> QED BY <1>1, SpecSerial, PTL

\* Until then, too, every provider that was built is of a model that the
\* registry still has as approved, though calls went on after it was built.
THEOREM LoadedStaysApproved == GateSpec => []LoadedIsApproved
  <1>1. SerialInv => LoadedIsApproved
    <2> SUFFICES ASSUME SerialInv, ~overlapped, ~cutShort, Readable PROVE Current(file.list)
      BY DEF LoadedIsApproved, Current
    <2>1. ASSUME NEW c \in Callers PROVE frame[c].at # "fill"
      <3>1. frame[c] = Idle \/ Sole(c)
        BY DEF SerialInv, Serial
      <3> QED BY <3>1, Stages DEF Sole, Readable, Truncated
    <2>2. file # NoFile
      BY DEF Readable, NoFile
    <2> QED BY <2>1, <2>2 DEF SerialInv, Serial, FileCurrent
  <1> QED BY <1>1, SpecSerial, PTL
=============================================================================
