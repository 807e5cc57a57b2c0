-------------------------- MODULE ReviewQueueProofs --------------------------
(***************************************************************************)
(* Proofs about ReviewQueue, for any reviews and any number of threads.    *)
(*                                                                         *)
(* decide() looks only at the last line about a review.  That this shows   *)
(* whether any line decides it rests on the order of the lines: the one    *)
(* that opens a review comes before all others about it.                   *)
(***************************************************************************)
EXTENDS ReviewQueue, FiniteSetTheorems, TLAPS

Pending(h) == frame[h].at = "append"

\* A line or a request is about a review that has been issued.
OnlyIssued ==
    /\ \A i \in 1 .. Len(file) : file[i].id \in created
    /\ \A h \in Threads : frame[h] # Idle => frame[h].item.id \in created

\* While the creation of a review is not written, nothing else is about it.
FreshAlone ==
    \A h \in Threads : Pending(h) /\ frame[h].item.status = "open" =>
        /\ \A i \in 1 .. Len(file) : file[i].id # frame[h].item.id
        /\ \A g \in Threads \ {h} : frame[g] # Idle => frame[g].item.id # frame[h].item.id

\* The line that opens a review is the first about it.
OpenFirst ==
    \A i, j \in 1 .. Len(file) : i < j /\ file[i].id = file[j].id => Decided(j)

\* A thread that is about to decide a review has not decided it before.
NotYetByMe ==
    \A h \in Threads :
        /\ frame[h] # Idle => frame[h].item.by = h
        /\ Pending(h) /\ frame[h].item.status # "open" =>
              \A i \in 1 .. Len(file) :
                  file[i].id = frame[h].item.id /\ Decided(i) => file[i].by # h

\* A request about to be answered has its line in the file.
WrittenBeforeAnswer ==
    ~torn => \A h \in Threads : frame[h].at = "audit" =>
                \E i \in 1 .. Len(file) : file[i] = frame[h].item

\* Without overlap: a review is decided once ("Review is already decided",
\* the 409 of decide).
DecidedOnce ==
    ~overlapped => \A i, j \in 1 .. Len(file) :
        i # j /\ file[i].id = file[j].id => ~(Decided(i) /\ Decided(j))

IInv == /\ TypeOK /\ OnlyIssued /\ FreshAlone /\ OpenFirst /\ NotYetByMe
        /\ WrittenBeforeAnswer /\ OneDecisionPerThread /\ AnsweredIsStored

-----------------------------------------------------------------------------
(* Helpers.                                                                *)

LEMMA IdleIsNotBusy == Idle.at = "idle" /\ Idle \notin Busy
BY DEF Idle, Busy

\* What append adds to a file, and what it leaves alone.
LEMMA AppendLines ==
    ASSUME NEW f \in Seq(Item), NEW e \in Item
    PROVE  /\ Append(f, e) \in Seq(Item)
           /\ Len(f) \in Nat
           /\ Len(Append(f, e)) = Len(f) + 1
           /\ Append(f, e)[Len(f) + 1] = e
           /\ \A i \in 1 .. Len(f) : Append(f, e)[i] = f[i] /\ f[i] \in Item
OBVIOUS

\* decide() refuses a review about which any line is a decision.
LEMMA OpenMeansUndecided ==
    ASSUME TypeOK, OpenFirst, NEW r \in Reviews, IsOpen(r)
    PROVE  /\ \E i \in 1 .. Len(file) : file[i].id = r
           /\ \A i \in 1 .. Len(file) : file[i].id = r => ~Decided(i)
<1>1. PICK k \in LinesOf(r) : file[k].status = "open" /\ \A j \in LinesOf(r) : j <= k
  BY DEF IsOpen
<1>2. k \in 1 .. Len(file) /\ file[k].id = r
  BY <1>1 DEF LinesOf
<1>3. ASSUME NEW i \in 1 .. Len(file), file[i].id = r PROVE ~Decided(i)
  <2>1. i <= k
    BY <1>1, <1>3 DEF LinesOf
  <2>2. Len(file) \in Nat
    BY DEF TypeOK
  <2>3. CASE i < k
    BY <1>1, <1>2, <1>3, <2>3 DEF OpenFirst, Decided
  <2>4. CASE i = k
    BY <1>1, <2>4 DEF Decided
  <2>5. QED
    BY <2>1, <2>2, <2>3, <2>4, <1>2
<1>4. QED
  BY <1>2, <1>3

\* A request in progress, and where it may be.
LEMMA InProgress ==
    ASSUME TypeOK, NEW h \in Threads, frame[h] # Idle
    PROVE  /\ frame[h] \in Busy /\ frame[h].item \in Item
           /\ frame[h].item.id \in Reviews
BY DEF TypeOK, Busy, Item

LEMMA FrameStep ==
    ASSUME TypeOK, NEW h \in Threads, NEW f \in {Idle} \cup Busy, Step(h, f)
    PROVE  /\ frame' \in [Threads -> {Idle} \cup Busy]
           /\ overlapped' \in BOOLEAN
           /\ frame'[h] = f
           /\ \A g \in Threads \ {h} : frame'[g] = frame[g]
BY DEF TypeOK, Step

\* Dropping requests keeps the invariant: a failed write, a restart.
LEMMA DropIInv ==
    ASSUME IInv,
           frame' \in [Threads -> {Idle} \cup Busy], overlapped' \in BOOLEAN,
           \A g \in Threads : frame'[g] = frame[g] \/ frame'[g] = Idle,
           torn' \in BOOLEAN, torn => torn',
           UNCHANGED <<file, created>>,
           answered' \subseteq Reviews \X Status,
           ~torn => \A a \in answered' : \E i \in 1 .. Len(file) :
                       file[i].id = a[1] /\ file[i].status = a[2]
    PROVE  IInv'
<1>1. TypeOK' /\ AnsweredIsStored' /\ OpenFirst' /\ OneDecisionPerThread'
  BY DEF IInv, TypeOK, AnsweredIsStored, OpenFirst, OneDecisionPerThread, Decided
<1>2. OnlyIssued'
  BY DEF IInv, OnlyIssued
<1>3. FreshAlone'
  BY IdleIsNotBusy DEF IInv, FreshAlone, Pending
<1>4. NotYetByMe'
  BY IdleIsNotBusy DEF IInv, NotYetByMe, Pending, Decided
<1>5. WrittenBeforeAnswer'
  BY IdleIsNotBusy DEF IInv, WrittenBeforeAnswer
<1>6. QED
  BY <1>1, <1>2, <1>3, <1>4, <1>5 DEF IInv

LEMMA InitIInv == ASSUME Init PROVE IInv
<1>1. 1 .. Len(file) = {} /\ file \in Seq(Item)
  BY DEF Init
<1>2. \A h \in Threads : frame[h] = Idle /\ frame[h].at = "idle"
  BY IdleIsNotBusy DEF Init
<1>3. TypeOK
  BY <1>1 DEF Init, TypeOK
<1>4. OnlyIssued /\ OpenFirst /\ OneDecisionPerThread /\ AnsweredIsStored
  BY <1>1, <1>2 DEF Init, OnlyIssued, OpenFirst, OneDecisionPerThread, AnsweredIsStored
<1>5. FreshAlone /\ NotYetByMe /\ WrittenBeforeAnswer
  BY <1>2 DEF FreshAlone, NotYetByMe, WrittenBeforeAnswer, Pending
<1>6. QED
  BY <1>3, <1>4, <1>5 DEF IInv

\* The creation of a review, under an id that nothing carries yet.
LEMMA CreateIInv ==
    ASSUME IInv, NEW h \in Threads, NEW r \in Reviews, Create(h, r)
    PROVE  IInv'
<1> DEFINE f == [at |-> "append", item |-> NewItem(h, r, "open")]
<1>1. f \in Busy /\ f # Idle /\ f.at = "append" /\ f.item.id = r /\ f.item.status = "open"
      /\ f.item.by = h
  BY DEF Busy, Item, NewItem, Status, Idle
<1>2. /\ frame' \in [Threads -> {Idle} \cup Busy] /\ overlapped' \in BOOLEAN
      /\ frame'[h] = f
      /\ \A g \in Threads \ {h} : frame'[g] = frame[g]
  BY <1>1, FrameStep DEF Create, IInv
<1>3. /\ \A i \in 1 .. Len(file) : file[i].id # r
      /\ \A g \in Threads : frame[g] # Idle => frame[g].item.id # r
  BY DEF Create, IInv, OnlyIssued
<1>4. TypeOK' /\ AnsweredIsStored' /\ OpenFirst' /\ OneDecisionPerThread'
  BY <1>2 DEF Create, IInv, TypeOK, AnsweredIsStored, OpenFirst, OneDecisionPerThread, Decided
<1>5. OnlyIssued'
  BY <1>1, <1>2 DEF Create, IInv, OnlyIssued
<1>6. FreshAlone'
  <2>1. UNCHANGED file
    BY DEF Create
  <2> HIDE DEF f
  <2>2. ASSUME NEW g \in Threads \ {h}, frame'[g].at = "append", frame'[g].item.status = "open"
        PROVE  /\ \A i \in 1 .. Len(file) : file[i].id # frame'[g].item.id
               /\ \A k \in Threads \ {g} :
                     frame'[k] # Idle => frame'[k].item.id # frame'[g].item.id
    <3>1. frame'[g] = frame[g] /\ frame[g] # Idle
      BY <1>2, <2>2, IdleIsNotBusy
    <3>2. QED
      BY <1>1, <1>2, <1>3, <2>2, <3>1 DEF IInv, FreshAlone, Pending
  <2>3. QED
    BY <1>1, <1>2, <1>3, <2>1, <2>2 DEF FreshAlone, Pending
<1>7. NotYetByMe'
  BY <1>1, <1>2 DEF Create, IInv, NotYetByMe, Pending, Decided
<1>8. WrittenBeforeAnswer'
  BY <1>1, <1>2 DEF Create, IInv, WrittenBeforeAnswer
<1>9. QED
  BY <1>4, <1>5, <1>6, <1>7, <1>8 DEF IInv

\* A decision, on a review that no line decides.
LEMMA DecideIInv ==
    ASSUME IInv, NEW h \in Threads, NEW r \in Reviews, NEW d \in Decisions, Decide(h, r, d)
    PROVE  IInv'
<1> DEFINE f == [at |-> "append", item |-> NewItem(h, r, d)]
<1>1. f \in Busy /\ f # Idle /\ f.at = "append" /\ f.item.id = r /\ f.item.status # "open"
      /\ f.item.by = h
  BY DEF Busy, Item, NewItem, Status, Decisions, Idle
<1>2. /\ frame' \in [Threads -> {Idle} \cup Busy] /\ overlapped' \in BOOLEAN
      /\ frame'[h] = f
      /\ \A g \in Threads \ {h} : frame'[g] = frame[g]
  BY <1>1, FrameStep DEF Decide, IInv
<1>3. /\ \E i \in 1 .. Len(file) : file[i].id = r
      /\ \A i \in 1 .. Len(file) : file[i].id = r => ~Decided(i)
  BY OpenMeansUndecided DEF Decide, IInv
<1>4. TypeOK' /\ AnsweredIsStored' /\ OpenFirst' /\ OneDecisionPerThread'
  BY <1>2 DEF Decide, IInv, TypeOK, AnsweredIsStored, OpenFirst, OneDecisionPerThread, Decided
<1>5. OnlyIssued'
  BY <1>1, <1>2, <1>3 DEF Decide, IInv, OnlyIssued
<1>6. FreshAlone'
  BY <1>1, <1>2, <1>3 DEF Decide, IInv, FreshAlone, Pending
<1>7. NotYetByMe'
  BY <1>1, <1>2, <1>3 DEF Decide, IInv, NotYetByMe, Pending, Decided
<1>8. WrittenBeforeAnswer'
  BY <1>1, <1>2 DEF Decide, IInv, WrittenBeforeAnswer
<1>9. QED
  BY <1>4, <1>5, <1>6, <1>7, <1>8 DEF IInv

\* The line is written: for a creation the first about its review, for a
\* decision the first decision by its thread.
LEMMA AppendIInv ==
    ASSUME IInv, NEW h \in Threads, AppendLine(h)
    PROVE  IInv'
<1> DEFINE e == frame[h].item
           f == [frame[h] EXCEPT !.at = "audit"]
           n == Len(file) + 1
<1>1. frame[h] # Idle /\ Pending(h)
  BY DEF AppendLine, Idle, Pending
<1>2. frame[h] \in Busy /\ e \in Item /\ e.id \in Reviews
  BY <1>1, InProgress DEF IInv
<1>3. f \in Busy /\ f # Idle /\ f.at = "audit" /\ f.item = e
  BY <1>2 DEF Busy, Idle
<1>4. /\ frame' \in [Threads -> {Idle} \cup Busy] /\ overlapped' \in BOOLEAN
      /\ frame'[h] = f
      /\ \A g \in Threads \ {h} : frame'[g] = frame[g]
  BY <1>3, FrameStep DEF AppendLine, IInv
<1>5. file \in Seq(Item) /\ Len(file) \in Nat
  BY DEF IInv, TypeOK
<1>6. CASE torn
  <2>1. UNCHANGED <<file, torn, created, answered>>
    BY <1>6 DEF AppendLine
  <2> HIDE DEF n, e, f
  <2>2. TypeOK' /\ AnsweredIsStored' /\ OpenFirst' /\ OneDecisionPerThread'
    BY <1>4, <2>1 DEF IInv, TypeOK, AnsweredIsStored, OpenFirst, OneDecisionPerThread, Decided
  <2>3. OnlyIssued'
    BY <1>1, <1>3, <1>4, <2>1 DEF IInv, OnlyIssued, e
  <2>4. FreshAlone'
    BY <1>1, <1>3, <1>4, <2>1 DEF IInv, FreshAlone, Pending, e
  <2>5. NotYetByMe'
    BY <1>1, <1>3, <1>4, <2>1 DEF IInv, NotYetByMe, Pending, Decided, e
  <2>6. WrittenBeforeAnswer'
    BY <1>6, <2>1 DEF WrittenBeforeAnswer
  <2>7. QED
    BY <2>2, <2>3, <2>4, <2>5, <2>6 DEF IInv
<1>7. CASE ~torn
  <2>1. file' = Append(file, e) /\ UNCHANGED <<torn, created, answered>>
    BY <1>7 DEF AppendLine
  <2>2. /\ file' \in Seq(Item) /\ Len(file') = n /\ n \in Nat
        /\ file'[n] = e
        /\ \A i \in 1 .. Len(file) : file'[i] = file[i]
        /\ \A i \in 1 .. n : i = n \/ i \in 1 .. Len(file)
    BY <1>2, <1>5, <2>1, AppendLines
  <2>3. \A i \in 1 .. Len(file) : i < n /\ i \in 1 .. n
    BY <1>5
  <2>4. n \in 1 .. n
    BY <1>5
  <2> HIDE DEF n, e, f
  <2>5. TypeOK'
    BY <1>4, <2>1, <2>2 DEF IInv, TypeOK
  <2>6. AnsweredIsStored'
    BY <2>1, <2>2, <2>3, <1>7 DEF IInv, AnsweredIsStored
  <2>7. OpenFirst'
    <3> SUFFICES ASSUME NEW i \in 1 .. n, NEW j \in 1 .. n, i < j,
                        file'[i].id = file'[j].id
                 PROVE  file'[j].status # "open"
      BY <2>2 DEF OpenFirst, Decided
    <3>1. i \in 1 .. Len(file)
      BY <1>5, <2>2
    <3>2. CASE j \in 1 .. Len(file)
      BY <3>1, <3>2, <2>2 DEF IInv, OpenFirst, Decided
    <3>3. CASE j = n
      BY <3>1, <3>3, <2>2, <1>1 DEF IInv, FreshAlone, e
    <3>4. QED
      BY <2>2, <3>2, <3>3
  <2>8. OneDecisionPerThread'
    <3>1. ASSUME NEW i \in 1 .. Len(file), file[i].id = e.id, Decided(i), e.status # "open"
          PROVE  file[i].by # e.by
      BY <3>1, <1>1 DEF IInv, NotYetByMe, e
    <3> SUFFICES ASSUME NEW i \in 1 .. n, NEW j \in 1 .. n, i # j,
                        file'[i].id = file'[j].id,
                        file'[i].status # "open", file'[j].status # "open"
                 PROVE  file'[i].by # file'[j].by
      BY <2>2 DEF OneDecisionPerThread, Decided
    <3>2. CASE i \in 1 .. Len(file) /\ j \in 1 .. Len(file)
      BY <3>2, <2>2 DEF IInv, OneDecisionPerThread, Decided
    <3>3. CASE i = n /\ j \in 1 .. Len(file)
      BY <3>1, <3>3, <2>2 DEF Decided
    <3>4. CASE i \in 1 .. Len(file) /\ j = n
      BY <3>1, <3>4, <2>2 DEF Decided
    <3>5. QED
      BY <2>2, <3>2, <3>3, <3>4
  <2>9. OnlyIssued'
    <3>1. e.id \in created
      BY <1>1 DEF IInv, OnlyIssued, e
    <3>2. \A i \in 1 .. n : file'[i].id \in created
      BY <3>1, <2>2 DEF IInv, OnlyIssued
    <3>3. \A g \in Threads : frame'[g] # Idle => frame'[g].item.id \in created
      BY <3>1, <1>3, <1>4 DEF IInv, OnlyIssued
    <3>4. QED
      BY <3>2, <3>3, <2>1, <2>2 DEF OnlyIssued
  <2>10. FreshAlone'
    <3> SUFFICES ASSUME NEW g \in Threads, frame'[g].at = "append",
                        frame'[g].item.status = "open"
                 PROVE  /\ \A i \in 1 .. n : file'[i].id # frame'[g].item.id
                        /\ \A k \in Threads \ {g} :
                              frame'[k] # Idle => frame'[k].item.id # frame'[g].item.id
      BY <2>2 DEF FreshAlone, Pending
    <3>1. g # h /\ frame'[g] = frame[g]
      BY <1>3, <1>4
    <3>2. /\ \A i \in 1 .. Len(file) : file[i].id # frame[g].item.id
          /\ \A k \in Threads \ {g} : frame[k] # Idle => frame[k].item.id # frame[g].item.id
      BY <3>1 DEF IInv, FreshAlone, Pending
    <3>3. e.id # frame[g].item.id
      BY <3>1, <3>2, <1>1 DEF e
    <3>4. QED
      BY <3>1, <3>2, <3>3, <2>2, <1>3, <1>4
  <2>11. NotYetByMe'
    <3>1. e.by = h
      BY <1>1 DEF IInv, NotYetByMe, e
    <3>2. \A g \in Threads : frame'[g] # Idle => frame'[g].item.by = g
      BY <3>1, <1>3, <1>4 DEF IInv, NotYetByMe
    <3>3. ASSUME NEW g \in Threads, frame'[g].at = "append", frame'[g].item.status # "open",
                 NEW i \in 1 .. n, file'[i].id = frame'[g].item.id, file'[i].status # "open"
          PROVE  file'[i].by # g
      <4>1. g # h /\ frame'[g] = frame[g]
        BY <1>3, <1>4, <3>3
      <4>2. CASE i = n
        BY <4>1, <4>2, <3>1, <2>2
      <4>3. CASE i \in 1 .. Len(file)
        BY <4>1, <4>3, <3>3, <2>2 DEF IInv, NotYetByMe, Pending, Decided
      <4>4. QED
        BY <4>2, <4>3, <2>2
    <3>4. QED
      BY <3>2, <3>3, <2>2 DEF NotYetByMe, Pending, Decided
  <2>12. WrittenBeforeAnswer'
    BY <1>3, <1>4, <1>7, <2>1, <2>2, <2>3, <2>4 DEF IInv, WrittenBeforeAnswer
  <2>13. QED
    BY <2>5, <2>6, <2>7, <2>8, <2>9, <2>10, <2>11, <2>12 DEF IInv
<1>8. QED
  BY <1>6, <1>7

\* Every step keeps the invariant.
LEMMA StepIInv == ASSUME IInv, [Next]_vars PROVE IInv'
<1>1. ASSUME NEW h \in Threads, FailAppend(h) \/ TearAppend(h) \/ FailAudit(h) PROVE IInv'
  <2>1. Step(h, Idle) /\ UNCHANGED <<file, created, answered>> /\ torn' \in BOOLEAN
        /\ (torn => torn')
    BY <1>1 DEF FailAppend, TearAppend, FailAudit, IInv, TypeOK
  <2>2. /\ frame' \in [Threads -> {Idle} \cup Busy] /\ overlapped' \in BOOLEAN
        /\ \A g \in Threads : frame'[g] = frame[g] \/ frame'[g] = Idle
    BY <2>1, FrameStep DEF IInv
  <2>3. QED
    BY <2>1, <2>2, DropIInv DEF IInv, TypeOK, AnsweredIsStored
<1>2. ASSUME NEW h \in Threads, Answer(h) PROVE IInv'
  <2> DEFINE e == frame[h].item
  <2>1. frame[h] # Idle
    BY <1>2 DEF Answer, Idle
  <2>2. e \in Item /\ e.id \in Reviews /\ e.status \in Status
    BY <2>1, InProgress DEF IInv, Item
  <2>3. Step(h, Idle) /\ UNCHANGED <<file, created, torn>>
        /\ answered' = answered \cup {<<e.id, e.status>>}
    BY <1>2 DEF Answer
  <2>4. /\ frame' \in [Threads -> {Idle} \cup Busy] /\ overlapped' \in BOOLEAN
        /\ \A g \in Threads : frame'[g] = frame[g] \/ frame'[g] = Idle
    BY <2>3, FrameStep DEF IInv
  <2>5. ~torn => \E i \in 1 .. Len(file) : file[i] = e
    BY <1>2 DEF Answer, IInv, WrittenBeforeAnswer
  <2>6. ~torn => \A a \in answered' : \E i \in 1 .. Len(file) :
                    file[i].id = a[1] /\ file[i].status = a[2]
    BY <2>3, <2>5 DEF IInv, AnsweredIsStored
  <2>7. answered' \subseteq Reviews \X Status
    BY <2>2, <2>3 DEF IInv, TypeOK
  <2>8. torn' \in BOOLEAN /\ (torn => torn')
    BY <2>3 DEF IInv, TypeOK
  <2> HIDE DEF e
  <2>9. QED
    BY <2>3, <2>4, <2>6, <2>7, <2>8, DropIInv
<1>3. CASE Restart
  <2>1. /\ frame' \in [Threads -> {Idle} \cup Busy]
        /\ \A g \in Threads : frame'[g] = frame[g] \/ frame'[g] = Idle
    BY <1>3 DEF Restart
  <2>2. QED
    BY <1>3, <2>1, DropIInv DEF Restart, IInv, TypeOK, AnsweredIsStored
<1>4. CASE UNCHANGED vars
  BY <1>4, DropIInv DEF vars, IInv, TypeOK, AnsweredIsStored
<1>5. QED
  BY <1>1, <1>2, <1>3, <1>4, CreateIInv, DecideIInv, AppendIInv DEF Next

LEMMA SpecIInv == Spec => []IInv
BY InitIInv, StepIInv, PTL DEF Spec

\* Every reachable state of the queue is well typed.
THEOREM TypeCorrect == Spec => []TypeOK
<1>1. IInv => TypeOK
  BY DEF IInv
<1>2. QED
  BY <1>1, SpecIInv, PTL

\* However requests overlap, a thread appends at most one decision about a
\* review: decide() never finds a decided one open.
THEOREM ThreadsDecideOnce == Spec => []OneDecisionPerThread
<1>1. IInv => OneDecisionPerThread
  BY DEF IInv
<1>2. QED
  BY <1>1, SpecIInv, PTL

\* What was answered with success can be read back, unless a torn line
\* damages the file.
THEOREM AnswersAreStored == Spec => []AnsweredIsStored
<1>1. IInv => AnsweredIsStored
  BY DEF IInv
<1>2. QED
  BY <1>1, SpecIInv, PTL

-----------------------------------------------------------------------------
(* Without overlap: one request at a time, and nobody decides meanwhile.   *)

\* No line decides the review that the request of h is about to decide.
StillUndecided(h) ==
    Pending(h) /\ frame[h].item.status # "open" =>
        \A i \in 1 .. Len(file) : file[i].id = frame[h].item.id => ~Decided(i)

Serial ==
    ~overlapped =>
        /\ \A g, h \in Threads : frame[g] # Idle /\ frame[h] # Idle => g = h
        /\ \A h \in Threads : StillUndecided(h)

SerialInv == IInv /\ Serial /\ DecidedOnce

\* A request's step, if it is the only request.
LEMMA AloneStep ==
    ASSUME TypeOK, NEW h \in Threads, NEW f \in {Idle} \cup Busy, Step(h, f), ~overlapped'
    PROVE  /\ ~overlapped
           /\ frame'[h] = f
           /\ \A g \in Threads \ {h} : frame'[g] = Idle
BY DEF TypeOK, Step

\* A step that leaves the file alone keeps both, if the request it leaves
\* does not decide what is decided.
LEMMA ReadingSerial ==
    ASSUME SerialInv, NEW h \in Threads, NEW f \in {Idle} \cup Busy, Step(h, f),
           UNCHANGED file,
           f.at = "append" /\ f.item.status # "open" =>
               \A i \in 1 .. Len(file) : file[i].id = f.item.id => ~Decided(i)
    PROVE  Serial' /\ DecidedOnce'
<1>1. ASSUME ~overlapped' PROVE Serial' /\ DecidedOnce'
  <2>1. /\ ~overlapped /\ frame'[h] = f
        /\ \A g \in Threads \ {h} : frame'[g] = Idle
    BY <1>1, AloneStep DEF SerialInv, IInv
  <2>2. DecidedOnce'
    BY <2>1 DEF SerialInv, DecidedOnce, Decided
  <2>3. ASSUME NEW g \in Threads PROVE StillUndecided(g)'
    BY <2>1, IdleIsNotBusy DEF StillUndecided, Pending, Decided
  <2>4. QED
    BY <2>1, <2>2, <2>3 DEF Serial
<1>2. QED
  BY <1>1 DEF Serial, DecidedOnce

LEMMA StepSerial == ASSUME SerialInv, [Next]_vars PROVE Serial' /\ DecidedOnce'
<1>1. ASSUME NEW h \in Threads, NEW r \in Reviews, Create(h, r)
      PROVE  Serial' /\ DecidedOnce'
  <2> DEFINE f == [at |-> "append", item |-> NewItem(h, r, "open")]
  <2>1. f \in Busy /\ f.item.status = "open"
    BY DEF Busy, Item, NewItem, Status
  <2>2. Step(h, f) /\ UNCHANGED file
    BY <1>1 DEF Create
  <2> HIDE DEF f
  <2>3. QED
    BY <2>1, <2>2, ReadingSerial
<1>2. ASSUME NEW h \in Threads, NEW r \in Reviews, NEW d \in Decisions, Decide(h, r, d)
      PROVE  Serial' /\ DecidedOnce'
  <2> DEFINE f == [at |-> "append", item |-> NewItem(h, r, d)]
  <2>1. f \in Busy /\ f.item.id = r
    BY DEF Busy, Item, NewItem, Status, Decisions
  <2>2. Step(h, f) /\ UNCHANGED file
    BY <1>2 DEF Decide
  <2>3. \A i \in 1 .. Len(file) : file[i].id = r => ~Decided(i)
    BY <1>2, OpenMeansUndecided DEF Decide, SerialInv, IInv
  <2> HIDE DEF f
  <2>4. QED
    BY <2>1, <2>2, <2>3, ReadingSerial
<1>3. ASSUME NEW h \in Threads, AppendLine(h) PROVE Serial' /\ DecidedOnce'
  <2> DEFINE e == frame[h].item
             f == [frame[h] EXCEPT !.at = "audit"]
             n == Len(file) + 1
  <2>1. frame[h] # Idle /\ Pending(h)
    BY <1>3 DEF AppendLine, Idle, Pending
  <2>2. frame[h] \in Busy /\ e \in Item
    BY <2>1, InProgress DEF SerialInv, IInv
  <2>3. f \in Busy /\ f.at = "audit"
    BY <2>2 DEF Busy
  <2>4. Step(h, f) /\ file' \in {file, Append(file, e)}
    BY <1>3 DEF AppendLine
  <2>5. file \in Seq(Item) /\ Len(file) \in Nat
    BY DEF SerialInv, IInv, TypeOK
  <2>6. CASE file' = file
    <3> HIDE DEF f
    <3>1. QED
      BY <2>3, <2>4, <2>6, ReadingSerial
  <2>7. CASE file' = Append(file, e)
    <3>1. /\ Len(file') = n /\ file'[n] = e
          /\ \A i \in 1 .. Len(file) : file'[i] = file[i]
          /\ \A i \in 1 .. n : i = n \/ i \in 1 .. Len(file)
      BY <2>2, <2>5, <2>7, AppendLines
    <3> HIDE DEF n, e, f
    <3>2. ASSUME ~overlapped' PROVE Serial' /\ DecidedOnce'
      <4>1. /\ ~overlapped /\ frame'[h] = f
            /\ \A g \in Threads \ {h} : frame'[g] = Idle
        BY <2>3, <2>4, <3>2, AloneStep DEF SerialInv, IInv
      <4>2. Serial'
        BY <2>3, <4>1, IdleIsNotBusy DEF Serial, StillUndecided, Pending
      <4>3. ASSUME NEW i \in 1 .. Len(file), file[i].id = e.id, e.status # "open"
            PROVE  ~Decided(i)
        BY <2>1, <4>1, <4>3 DEF SerialInv, Serial, StillUndecided, e
      <4> SUFFICES ASSUME NEW i \in 1 .. n, NEW j \in 1 .. n, i # j,
                          file'[i].id = file'[j].id,
                          file'[i].status # "open", file'[j].status # "open"
                   PROVE  FALSE
        BY <3>1, <4>2 DEF DecidedOnce, Decided
      <4>4. CASE i \in 1 .. Len(file) /\ j \in 1 .. Len(file)
        BY <3>1, <4>1, <4>4 DEF SerialInv, DecidedOnce, Decided
      <4>5. CASE i = n /\ j \in 1 .. Len(file)
        BY <3>1, <4>3, <4>5 DEF Decided
      <4>6. CASE i \in 1 .. Len(file) /\ j = n
        BY <3>1, <4>3, <4>6 DEF Decided
      <4>7. QED
        BY <3>1, <4>4, <4>5, <4>6
    <3>3. QED
      BY <3>2 DEF Serial, DecidedOnce
  <2>8. QED
    BY <2>4, <2>6, <2>7
<1>4. ASSUME NEW h \in Threads, FailAppend(h) \/ TearAppend(h) \/ Answer(h) \/ FailAudit(h)
      PROVE  Serial' /\ DecidedOnce'
  <2>1. Step(h, Idle) /\ UNCHANGED file
    BY <1>4 DEF FailAppend, TearAppend, Answer, FailAudit
  <2>2. QED
    BY <2>1, IdleIsNotBusy, ReadingSerial
<1>5. CASE Restart
  BY <1>5, IdleIsNotBusy
  DEF Restart, SerialInv, Serial, StillUndecided, Pending, DecidedOnce, Decided
<1>6. CASE UNCHANGED vars
  BY <1>6 DEF vars, SerialInv, Serial, StillUndecided, Pending, DecidedOnce, Decided
<1>7. QED
  BY <1>1, <1>2, <1>3, <1>4, <1>5, <1>6 DEF Next

\* While requests do not overlap a review is decided at most once, the 409
\* of decide().
THEOREM SerialDecidesOnce == Spec => []DecidedOnce
<1>1. ASSUME Init PROVE SerialInv
  <2>1. 1 .. Len(file) = {} /\ \A h \in Threads : frame[h] = Idle
    BY <1>1 DEF Init
  <2>2. Serial /\ DecidedOnce
    BY <2>1, IdleIsNotBusy DEF Serial, StillUndecided, Pending, DecidedOnce
  <2>3. QED
    BY <1>1, <2>2, InitIInv DEF SerialInv
<1>2. ASSUME SerialInv, [Next]_vars PROVE SerialInv'
  BY <1>2, StepIInv, StepSerial DEF SerialInv
<1>3. SerialInv => DecidedOnce
  BY DEF SerialInv
<1>4. QED
  BY <1>1, <1>2, <1>3, PTL DEF Spec

-----------------------------------------------------------------------------
(* The queue implements the register.                                      *)

\* A review with lines has a last one.  Lines are only ever added, so this
\* is an invariant of the queue and needs no induction over the file.
HasLast ==
    \A r \in Reviews : LinesOf(r) # {} => \E i \in LinesOf(r) : \A j \in LinesOf(r) : j <= i

\* A review that is about to be decided has been opened.
OpenedBefore ==
    \A h \in Threads : Pending(h) /\ frame[h].item.status # "open" =>
        LinesOf(frame[h].item.id) # {}

RegisterInv == SerialInv /\ HasLast /\ OpenedBefore

LEMMA LastInIs ==
    ASSUME NEW S \in SUBSET Nat, NEW i \in S, \A j \in S : j <= i
    PROVE  LastIn(S) = i
<1>1. \A k \in S : (\A j \in S : j <= k) => k = i
  OBVIOUS
<1>2. QED
  BY <1>1 DEF LastIn

LEMMA LinesAreNumbers ==
    ASSUME TypeOK, NEW r \in Reviews
    PROVE  /\ LinesOf(r) \in SUBSET Nat
           /\ LinesOf(r) \subseteq 1 .. Len(file)
           /\ IsFiniteSet(LinesOf(r))
<1>1. Len(file) \in Nat
  BY DEF TypeOK
<1>2. LinesOf(r) \subseteq 1 .. Len(file)
  BY DEF LinesOf
<1>3. IsFiniteSet(1 .. Len(file))
  BY <1>1, FS_Interval
<1>4. IsFiniteSet(LinesOf(r))
  BY <1>2, <1>3, FS_Subset
<1>5. QED
  BY <1>1, <1>2, <1>4

\* What one more line is to the review it is about, and to the others.
LEMMA AppendedLine ==
    ASSUME RegisterInv, NEW h \in Threads, AppendLine(h), ~torn
    PROVE  LET e == frame[h].item
               n == Len(file) + 1
           IN  /\ e \in Item /\ e.id \in Reviews
               /\ n \in Nat
               /\ Len(file') = n
               /\ file'[n] = e
               /\ \A i \in 1 .. Len(file) : file'[i] = file[i]
               /\ n \notin LinesOf(e.id)
               /\ \A i \in LinesOf(e.id) : i <= n
               /\ \A r \in Reviews : LinesOf(r)' = IF r = e.id THEN LinesOf(r) \cup {n}
                                                   ELSE LinesOf(r)
<1> DEFINE e == frame[h].item
           n == Len(file) + 1
<1>1. frame[h] # Idle
  BY DEF AppendLine, Idle
<1>2. e \in Item /\ e.id \in Reviews
  BY <1>1, InProgress DEF RegisterInv, SerialInv, IInv
<1>3. file \in Seq(Item) /\ Len(file) \in Nat
  BY DEF RegisterInv, SerialInv, IInv, TypeOK
<1>4. file' = Append(file, e)
  BY DEF AppendLine
<1>5. /\ Len(file') = n /\ n \in Nat /\ file'[n] = e
      /\ \A i \in 1 .. Len(file) : file'[i] = file[i]
      /\ 1 .. n = 1 .. Len(file) \cup {n}
      /\ n \notin 1 .. Len(file)
      /\ \A i \in 1 .. Len(file) : i <= n
  BY <1>2, <1>3, <1>4, AppendLines
<1> HIDE DEF e, n
<1>6. \A r \in Reviews : LinesOf(r) \subseteq 1 .. Len(file)
  BY DEF LinesOf
<1>7. \A r \in Reviews : r = e.id => LinesOf(r)' = LinesOf(r) \cup {n}
  BY <1>5 DEF LinesOf
<1>8. \A r \in Reviews : r # e.id => LinesOf(r)' = LinesOf(r)
  BY <1>5 DEF LinesOf
<1>9. n \notin LinesOf(e.id) /\ \A i \in LinesOf(e.id) : i <= n
  BY <1>2, <1>5, <1>6
<1>10. QED
  BY <1>2, <1>5, <1>7, <1>8, <1>9 DEF e, n

\* A step that leaves the file alone.
LEMMA ReadingRegister ==
    ASSUME RegisterInv, UNCHANGED file, OpenedBefore',
           overlapped' \in {overlapped, TRUE}
    PROVE  HasLast' /\ (Register!Contend \/ UNCHANGED Register!vars)
<1>1. \A r \in Reviews : LinesOf(r)' = LinesOf(r)
  BY DEF LinesOf
<1>2. HasLast'
  BY <1>1 DEF RegisterInv, HasLast
<1>3. UNCHANGED <<Latest, Writes>>
  BY <1>1 DEF Latest, Writes
<1>4. QED
  BY <1>2, <1>3 DEF Register!Contend, Register!vars

\* A line that opens a review opens its register, one that decides it settles
\* the register.
LEMMA WritingRegister ==
    ASSUME RegisterInv, NEW h \in Threads, AppendLine(h), ~torn
    PROVE  HasLast' /\ OpenedBefore' /\ Register!Next
<1> DEFINE e == frame[h].item
           f == [frame[h] EXCEPT !.at = "audit"]
           n == Len(file) + 1
<1>1. frame[h] # Idle /\ Pending(h)
  BY DEF AppendLine, Idle, Pending
<1>2. frame[h] \in Busy
  BY <1>1, InProgress DEF RegisterInv, SerialInv, IInv
<1>3. f \in Busy /\ f.at = "audit"
  BY <1>2 DEF Busy
<1>4. /\ frame'[h] = f
      /\ \A g \in Threads \ {h} : frame'[g] = frame[g]
  BY <1>3, FrameStep DEF AppendLine, RegisterInv, SerialInv, IInv
<1>5. /\ e \in Item /\ e.id \in Reviews
      /\ n \in Nat /\ Len(file') = n
      /\ file'[n] = e
      /\ \A i \in 1 .. Len(file) : file'[i] = file[i]
      /\ n \notin LinesOf(e.id)
      /\ \A i \in LinesOf(e.id) : i <= n
      /\ \A r \in Reviews : LinesOf(r)' = IF r = e.id THEN LinesOf(r) \cup {n}
                                          ELSE LinesOf(r)
  BY AppendedLine
<1>6. UNCHANGED overlapped
  <2>1. ~overlapped => \A g \in Threads \ {h} : frame[g] = Idle
    BY <1>1 DEF RegisterInv, SerialInv, Serial
  <2>2. overlapped \in BOOLEAN
    BY DEF RegisterInv, SerialInv, IInv, TypeOK
  <2>3. QED
    BY <2>1, <2>2 DEF AppendLine, Step
<1> HIDE DEF e, f, n
<1>7. \A r \in Reviews : /\ LinesOf(r) \in SUBSET Nat
                         /\ LinesOf(r) \subseteq 1 .. Len(file)
                         /\ IsFiniteSet(LinesOf(r))
  BY LinesAreNumbers DEF RegisterInv, SerialInv, IInv
<1>8. ASSUME NEW r \in Reviews, r = e.id
      PROVE  n \in LinesOf(r)' /\ \A i \in LinesOf(r)' : i <= n
  BY <1>5, <1>8
<1>9. HasLast'
  <2> SUFFICES ASSUME NEW r \in Reviews, LinesOf(r)' # {}
               PROVE  \E i \in LinesOf(r)' : \A j \in LinesOf(r)' : j <= i
    BY DEF HasLast
  <2>1. CASE r = e.id
    BY <1>5, <1>8, <2>1
  <2>2. CASE r # e.id
    BY <1>5, <2>2 DEF RegisterInv, HasLast
  <2>3. QED
    BY <2>1, <2>2
<1>10. OpenedBefore'
  <2> SUFFICES ASSUME NEW g \in Threads, frame'[g].at = "append",
                      frame'[g].item.status # "open"
               PROVE  \E i \in 1 .. Len(file') : file'[i].id = frame'[g].item.id
    BY DEF OpenedBefore, Pending, LinesOf
  <2>1. g # h /\ frame'[g] = frame[g]
    BY <1>3, <1>4
  <2>2. PICK i \in 1 .. Len(file) : file[i].id = frame[g].item.id
    BY <2>1 DEF RegisterInv, OpenedBefore, Pending, LinesOf
  <2>3. i \in 1 .. n
    BY <2>2 DEF n, RegisterInv, SerialInv, IInv, TypeOK
  <2>4. QED
    BY <1>5, <2>1, <2>2, <2>3
<1>11. Latest' = [Latest EXCEPT ![e.id] = e.status]
  <2>1. Latest'[e.id] = e.status
    <3> SUFFICES ASSUME NEW r \in Reviews, r = e.id PROVE Latest'[r] = e.status
      BY <1>5
    <3>1. LinesOf(r)' = LinesOf(r) \cup {n}
      BY <1>5
    <3>2. LastIn(LinesOf(r) \cup {n}) = n
      <4>1. LinesOf(r) \cup {n} \in SUBSET Nat /\ n \in LinesOf(r) \cup {n}
        BY <1>5, <1>7
      <4>2. \A i \in LinesOf(r) \cup {n} : i <= n
        BY <1>5
      <4>3. QED
        BY ONLY <4>1, <4>2, LastInIs
    <3>3. Latest'[r] = IF LinesOf(r)' = {} THEN "none" ELSE file'[LastIn(LinesOf(r)')].status
      BY DEF Latest, LastIn
    <3>4. QED
      BY <1>5, <3>1, <3>2, <3>3
  <2>2. ASSUME NEW r \in Reviews, r # e.id PROVE Latest'[r] = Latest[r]
    <3>1. CASE LinesOf(r) = {}
      BY <1>5, <2>2, <3>1 DEF Latest
    <3>2. CASE LinesOf(r) # {}
      <4>1. PICK i \in LinesOf(r) : \A j \in LinesOf(r) : j <= i
        BY <3>2 DEF RegisterInv, HasLast
      <4>2. LastIn(LinesOf(r)) = i /\ i \in 1 .. Len(file)
        BY <1>7, <4>1, LastInIs
      <4>3. QED
        BY <1>5, <2>2, <3>2, <4>2 DEF Latest
    <3>3. QED
      BY <3>1, <3>2
  <2>3. QED
    BY <1>5, <2>1, <2>2 DEF Latest
<1>12. Writes' = [Writes EXCEPT ![e.id] = @ + 1]
  <2>1. Cardinality(LinesOf(e.id) \cup {n}) = Cardinality(LinesOf(e.id)) + 1
    BY <1>5, <1>7, FS_AddElement
  <2>2. QED
    BY <1>5, <2>1 DEF Writes
<1>13. Register!Write(e.id, e.status)
  BY <1>6, <1>11, <1>12 DEF Register!Write
<1>14. CASE e.status = "open"
  <2>1. LinesOf(e.id) = {}
    BY <1>1, <1>14 DEF RegisterInv, SerialInv, IInv, FreshAlone, LinesOf, e
  <2>2. Latest[e.id] = "none"
    BY <1>5, <2>1 DEF Latest
  <2>3. QED
    BY <1>5, <1>9, <1>10, <1>13, <1>14, <2>2 DEF Register!Open, Register!Next
<1>15. CASE e.status # "open"
  <2>1. PICK i \in LinesOf(e.id) : \A j \in LinesOf(e.id) : j <= i
    BY <1>1, <1>5, <1>15 DEF RegisterInv, OpenedBefore, HasLast, e
  <2>2. LastIn(LinesOf(e.id)) = i /\ i \in 1 .. Len(file) /\ file[i].id = e.id
    BY <1>5, <1>7, <2>1, LastInIs DEF LinesOf
  <2>3. Latest[e.id] = file[i].status
    BY <1>5, <2>1, <2>2 DEF Latest
  <2>4. file[i] \in Item /\ e.status \in Decisions
    <3>1. file[i] \in Item
      BY <2>2 DEF RegisterInv, SerialInv, IInv, TypeOK
    <3>2. e.status \in Decisions
      BY <1>5, <1>15 DEF Item, Status
    <3>3. QED
      BY <3>1, <3>2
  <2>5. file[i].status \in {"open"} \cup Decisions
    BY <2>4 DEF Item, Status
  <2>6. ~overlapped => file[i].status = "open"
    BY <1>1, <1>15, <2>2 DEF RegisterInv, SerialInv, Serial, StillUndecided, Decided, e
  <2>7. Latest[e.id] = "open" \/ (overlapped /\ Latest[e.id] \in Decisions)
    BY <2>3, <2>5, <2>6
  <2>8. QED
    BY <1>5, <1>9, <1>10, <1>13, <2>4, <2>7 DEF Register!Settle, Register!Next
<1>16. QED
  BY <1>14, <1>15

\* Every step keeps the invariant and is a step of the register, or none.
LEMMA StepRegister ==
    ASSUME RegisterInv, [Next]_vars
    PROVE  HasLast' /\ OpenedBefore' /\ [Register!Next]_(Register!vars)
<1> DEFINE Kept == HasLast' /\ OpenedBefore' /\ [Register!Next]_(Register!vars)
<1>1. ASSUME NEW h \in Threads, NEW f \in {Idle} \cup Busy, Step(h, f), UNCHANGED file,
             f.at = "append" /\ f.item.status # "open" => LinesOf(f.item.id) # {}
      PROVE  Kept
  <2>1. /\ frame'[h] = f /\ overlapped' \in BOOLEAN
        /\ \A g \in Threads \ {h} : frame'[g] = frame[g]
    BY <1>1, FrameStep DEF RegisterInv, SerialInv, IInv
  <2>2. OpenedBefore'
    BY <1>1, <2>1 DEF RegisterInv, OpenedBefore, Pending, LinesOf
  <2>3. overlapped' \in {overlapped, TRUE}
    BY <1>1 DEF Step, RegisterInv, SerialInv, IInv, TypeOK
  <2>4. QED
    BY <1>1, <2>2, <2>3, ReadingRegister DEF Register!Next
<1> HIDE DEF Kept
<1>2. ASSUME NEW h \in Threads, NEW r \in Reviews, Create(h, r) PROVE Kept
  <2> DEFINE f == [at |-> "append", item |-> NewItem(h, r, "open")]
  <2>1. f \in Busy /\ f.item.status = "open"
    BY DEF Busy, Item, NewItem, Status
  <2>2. Step(h, f) /\ UNCHANGED file
    BY <1>2 DEF Create
  <2> HIDE DEF f
  <2>3. QED
    BY <1>1, <2>1, <2>2
<1>3. ASSUME NEW h \in Threads, NEW r \in Reviews, NEW d \in Decisions, Decide(h, r, d)
      PROVE  Kept
  <2> DEFINE f == [at |-> "append", item |-> NewItem(h, r, d)]
  <2>1. f \in Busy /\ f.item.id = r
    BY DEF Busy, Item, NewItem, Status, Decisions
  <2>2. Step(h, f) /\ UNCHANGED file
    BY <1>3 DEF Decide
  <2>3. LinesOf(r) # {}
    BY <1>3 DEF Decide, IsOpen
  <2> HIDE DEF f
  <2>4. QED
    BY <1>1, <2>1, <2>2, <2>3
<1>4. ASSUME NEW h \in Threads, AppendLine(h), torn PROVE Kept
  <2> DEFINE f == [frame[h] EXCEPT !.at = "audit"]
  <2>1. frame[h] # Idle
    BY <1>4 DEF AppendLine, Idle
  <2>2. frame[h] \in Busy
    BY <2>1, InProgress DEF RegisterInv, SerialInv, IInv
  <2>3. f \in Busy /\ f.at = "audit"
    BY <2>2 DEF Busy
  <2>4. Step(h, f) /\ UNCHANGED file
    BY <1>4 DEF AppendLine
  <2> HIDE DEF f
  <2>5. QED
    BY <1>1, <2>3, <2>4
<1>5. ASSUME NEW h \in Threads, AppendLine(h), ~torn PROVE Kept
  BY <1>5, WritingRegister DEF Kept
<1>6. ASSUME NEW h \in Threads, FailAppend(h) \/ TearAppend(h) \/ Answer(h) \/ FailAudit(h)
      PROVE  Kept
  <2>1. Step(h, Idle) /\ UNCHANGED file
    BY <1>6 DEF FailAppend, TearAppend, Answer, FailAudit
  <2>2. QED
    BY <1>1, <2>1, IdleIsNotBusy
<1>7. CASE Restart
  <2>1. OpenedBefore'
    BY <1>7, IdleIsNotBusy DEF Restart, OpenedBefore, Pending
  <2>2. QED
    BY <1>7, <2>1, ReadingRegister DEF Restart, Kept, Register!Next
<1>8. CASE UNCHANGED vars
  <2>1. OpenedBefore'
    BY <1>8 DEF vars, RegisterInv, OpenedBefore, Pending, LinesOf
  <2>2. QED
    BY <1>8, <2>1, ReadingRegister DEF vars, Kept, Register!Next
<1>9. QED
  BY <1>2, <1>3, <1>4, <1>5, <1>6, <1>7, <1>8 DEF Next, Kept

\* The file of lines implements the register: a request that reads, fails or
\* is dropped is a stutter, one that meets another a contention, and every
\* line opens the register of its review or settles it.
THEOREM QueueImplementsRegister == Spec => ImplementsRegister
<1>1. ASSUME Init PROVE RegisterInv /\ Register!Init
  <2>1. 1 .. Len(file) = {} /\ \A h \in Threads : frame[h] = Idle
    BY <1>1 DEF Init
  <2>2. Serial /\ DecidedOnce
    BY <2>1, IdleIsNotBusy DEF Serial, StillUndecided, Pending, DecidedOnce
  <2>3. \A r \in Reviews : LinesOf(r) = {}
    BY <2>1 DEF LinesOf
  <2>4. HasLast /\ OpenedBefore
    BY <2>1, <2>3, IdleIsNotBusy DEF HasLast, OpenedBefore, Pending
  <2>5. Register!Init
    BY <1>1, <2>3, FS_EmptySet DEF Init, Register!Init, Latest, Writes
  <2>6. QED
    BY <1>1, <2>2, <2>4, <2>5, InitIInv DEF RegisterInv, SerialInv
<1>2. ASSUME RegisterInv, [Next]_vars PROVE RegisterInv' /\ [Register!Next]_(Register!vars)
  BY <1>2, StepIInv, StepSerial, StepRegister DEF RegisterInv, SerialInv
<1>3. QED
  BY <1>1, <1>2, PTL DEF Spec, ImplementsRegister, Register!Spec

=============================================================================
