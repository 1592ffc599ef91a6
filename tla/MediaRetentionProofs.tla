----------------------- MODULE MediaRetentionProofs -----------------------
(***************************************************************************)
(* For any number of jobs and any batch size: what the retention worker    *)
(* and the handlers promise of marks, answers and deletions while both     *)
(* write the same row, storage and database fail and the process restarts. *)
(***************************************************************************)
EXTENDS MediaRetention, SequenceTheorems, FiniteSetTheorems, WellFoundedInduction, TLAPS

-----------------------------------------------------------------------------
(* The invariant. *)

\* A copy of the jobs: as many as there are, each with an object.
Copies == {c \in [1..MaxJobs -> Job] : \A i \in 1 .. MaxJobs : c[i].object}

\* The shape of the state; a copy exists while a write does.
Shape ==
    /\ jobs \in Copies /\ row \in Copies
    /\ queue \in Seq(Copies)
    /\ idem = [s \in Kinds \X Keys |-> 0] /\ asked = [s \in Kinds \X Keys |-> NoBody]
    /\ results = {}
    /\ write \in [Sides -> [stage : {"none", "sent", "done", "conflict", "error"},
                            current : BOOLEAN, jobs : Seq(Job)]]
    /\ \A side \in Sides : ~Free(side) => write[side].jobs \in Copies
    /\ known \in BOOLEAN
    /\ poisoned \subseteq 1 .. MaxJobs /\ unsure \subseteq 1 .. MaxJobs
    /\ answered \subseteq 1 .. MaxJobs
    /\ batch \subseteq 1 .. MaxJobs
    /\ pc \in {"idle", "deleting", "saving"}
    /\ pc = "idle" <=> batch = {}
    /\ pc = "saving" <=> ~Free("worker")
    /\ Free("handlers") => queue = << >>
    /\ deletions \in [1 .. MaxJobs -> 0 .. MaxDeletions]

\* A mark, wherever a copy has it, is of a deletion.
MarksTrue(copy) == \A i \in 1 .. MaxJobs : copy[i].deleted => deletions[i] > 0

Marks ==
    /\ MarksTrue(jobs) /\ MarksTrue(row)
    /\ \A i \in DOMAIN queue : MarksTrue(queue[i])
    /\ \A side \in Sides : ~Free(side) => MarksTrue(write[side].jobs)

\* What the worker still has to delete it has not deleted.
Pending == IF pc = "saving" THEN batch \ {Current} ELSE batch

Deletions ==
    /\ \A i \in Pending : Expired(i)
    /\ \A i \in 1 .. MaxJobs \ unsure :
            deletions[i] <= 1 /\ (deletions[i] > 0 => jobs[i].deleted)

\* A write whose success is not known yet is the row's, and nobody else's
\* write can take effect before it is.
Landed(side) ==
    write[side].stage = "done" =>
        /\ row = write[side].jobs
        /\ write[side].current /\ ~known /\ ~write[Other(side)].current

\* What copy c says has ended, copy d does.
Within(c, d) == \A i \in 1 .. MaxJobs : c[i].status \in Terminal => d[i].status \in Terminal

\* The handlers' copies, in the order they are written, know more and more.
HandlersGrow ==
    /\ \A m \in DOMAIN queue : Within(queue[m], jobs)
    /\ \A m, n \in DOMAIN queue : m < n => Within(queue[m], queue[n])
    /\ ~Free("handlers") =>
        /\ Within(write["handlers"].jobs, jobs)
        /\ \A m \in DOMAIN queue : Within(write["handlers"].jobs, queue[m])

HasAnswered(copy) == \A i \in answered : copy[i].status \in Terminal

\* Whatever can still reach the row has every answered end.
Ends ==
    /\ HasAnswered(jobs) /\ HasAnswered(row)
    /\ \A m \in DOMAIN queue : HasAnswered(queue[m])
    /\ ~Free("handlers") => HasAnswered(write["handlers"].jobs)
    /\ write["worker"].stage = "sent" /\ write["worker"].current
            => HasAnswered(write["worker"].jobs)

RetentionInv ==
    /\ Shape /\ Marks /\ Deletions
    /\ \A side \in Sides : Landed(side)
    /\ HandlersGrow /\ Ends

-----------------------------------------------------------------------------
(* Jobs. *)

\* A set of numbers that is not empty has a least element.
LEMMA MinProperties ==
    ASSUME NEW S \in SUBSET Nat, S # {}
    PROVE  Min(S) \in S /\ \A y \in S : Min(S) <= y
<1> DEFINE R == {ss \in Nat \X Nat : ss[1] < ss[2]}
<1>1. IsWellFoundedOn(R, Nat)
  BY NatLessThanWellFounded DEF OpToRel
<1>2. PICK x \in S : \A y \in S : ~ (<<y, x>> \in R)
  <2> HIDE DEF R
  <2> QED
    BY <1>1, WFMin
<1>3. \A y \in S : x <= y
  <2> SUFFICES ASSUME NEW y \in S PROVE x <= y
    OBVIOUS
  <2>1. <<y, x>> \in Nat \X Nat /\ <<y, x>>[1] = y /\ <<y, x>>[2] = x
    OBVIOUS
  <2>2. <<y, x>> \notin R
    BY <1>2
  <2> QED
    BY <2>1, <2>2
<1> QED
  BY <1>3 DEF Min

\* A callback ends a job or leaves it, and never un-ends or marks one.
LEMMA CallbackMoves ==
    ASSUME Shape, NEW r \in JobIds, NEW status \in {"draining", "completed"},
           ApplyProviderStatus(r, status, FALSE, FALSE)
    PROVE  /\ jobs' \in Copies /\ Within(jobs, jobs')
           /\ \A i \in 1 .. MaxJobs : jobs'[i].deleted = jobs[i].deleted
           /\ UNCHANGED <<idem, asked, results>>
<1>1. jobs \in [1 .. MaxJobs -> Job] /\ \A i \in 1 .. MaxJobs : jobs[i].object
  BY DEF Shape, Copies
<1>2. r \in 1 .. MaxJobs
  BY <1>1 DEF JobIds
<1>3. jobs[r] \in Job /\ jobs[r].status \in Status /\ status \in Status
  BY <1>1, <1>2 DEF Job, Status, Terminal
<1>4. \A s \in Terminal : STATUS_TRANSITIONS[s] = {}
  BY DEF STATUS_TRANSITIONS, Terminal, Status, Counted
<1>5. jobs[r].status \in Terminal => status = jobs[r].status
  BY <1>4 DEF ApplyProviderStatus, CanMove
<1>6. jobs' = [jobs EXCEPT ![r] = [jobs[r] EXCEPT !.status = status,
                   !.provider = jobs[r].provider \/ FALSE,
                   !.object = jobs[r].object \/ (FALSE /\ jobs[r].kind = "egress")]]
  BY <1>1, <1>2 DEF ApplyProviderStatus
<1>7. [jobs[r] EXCEPT !.status = status, !.provider = jobs[r].provider \/ FALSE,
                      !.object = jobs[r].object \/ (FALSE /\ jobs[r].kind = "egress")] \in Job
  <2>1. (jobs[r].provider \/ FALSE) \in BOOLEAN
        /\ (jobs[r].object \/ (FALSE /\ jobs[r].kind = "egress")) \in BOOLEAN
    OBVIOUS
  <2> QED
    BY <1>3, <2>1 DEF Job
<1>8. jobs' \in [1 .. MaxJobs -> Job]
  BY <1>1, <1>2, <1>6, <1>7
<1>9. \A i \in 1 .. MaxJobs : /\ jobs'[i].deleted = jobs[i].deleted /\ jobs'[i].object
                              /\ i # r => jobs'[i] = jobs[i]
                              /\ i = r => jobs'[i].status = status
  BY <1>1, <1>2, <1>3, <1>6 DEF Job
<1> QED
  BY <1>5, <1>8, <1>9 DEF Within, Copies, ApplyProviderStatus

\* A mark changes nothing else.
LEMMA MarkMoves ==
    ASSUME Shape, NEW r \in 1 .. MaxJobs, MarkDeleted(r)
    PROVE  /\ jobs' \in Copies /\ Within(jobs, jobs') /\ jobs'[r].deleted
           /\ \A i \in 1 .. MaxJobs \ {r} : jobs'[i] = jobs[i]
           /\ UNCHANGED <<idem, asked, results>>
<1>1. jobs \in [1 .. MaxJobs -> Job] /\ \A i \in 1 .. MaxJobs : jobs[i].object
  BY DEF Shape, Copies
<1>2. jobs' = [jobs EXCEPT ![r] = [jobs[r] EXCEPT !.deleted = TRUE]]
  BY <1>1 DEF MarkDeleted
<1>3. jobs[r] \in Job
  BY <1>1
<1>4. [jobs[r] EXCEPT !.deleted = TRUE] \in Job
  BY <1>3 DEF Job
<1>5. /\ jobs' \in [1 .. MaxJobs -> Job] /\ jobs'[r].deleted
      /\ \A i \in 1 .. MaxJobs : jobs'[i].object /\ jobs'[i].status = jobs[i].status
      /\ \A i \in 1 .. MaxJobs \ {r} : jobs'[i] = jobs[i]
  BY <1>1, <1>2, <1>3, <1>4 DEF Job
<1> QED
  BY <1>5 DEF Within, Copies, MarkDeleted

LEMMA WithinIsOrder ==
    /\ \A c : Within(c, c)
    /\ \A c, d, e : Within(c, d) /\ Within(d, e) => Within(c, e)
    /\ \A c, d : HasAnswered(c) /\ Within(c, d) /\ answered \subseteq 1 .. MaxJobs => HasAnswered(d)
BY DEF Within, HasAnswered

\* The first and the other copies of a queue.
LEMMA QueueFacts ==
    ASSUME NEW q \in Seq(Copies)
    PROVE  /\ \A c \in Copies :
                /\ Append(q, c) \in Seq(Copies)
                /\ DOMAIN Append(q, c) = DOMAIN q \cup {Len(q) + 1}
                /\ \A m \in DOMAIN q : Append(q, c)[m] = q[m] /\ m < Len(q) + 1
                /\ Append(q, c)[Len(q) + 1] = c
           /\ q # << >> =>
                /\ q[1] \in Copies /\ 1 \in DOMAIN q /\ Tail(q) \in Seq(Copies)
                /\ \A m \in DOMAIN Tail(q) : /\ m + 1 \in DOMAIN q /\ 1 < m + 1
                                             /\ Tail(q)[m] = q[m + 1]
                /\ \A m, n \in DOMAIN Tail(q) : m < n => m + 1 < n + 1
<1>1. DOMAIN q = 1 .. Len(q) /\ Len(q) \in Nat
  BY LenProperties
<1>2. ASSUME NEW c \in Copies
      PROVE  /\ Append(q, c) \in Seq(Copies)
             /\ DOMAIN Append(q, c) = DOMAIN q \cup {Len(q) + 1}
             /\ \A m \in DOMAIN q : Append(q, c)[m] = q[m] /\ m < Len(q) + 1
             /\ Append(q, c)[Len(q) + 1] = c
  <2> HIDE DEF Copies
  <2>1. Append(q, c) \in Seq(Copies) /\ Len(Append(q, c)) = Len(q) + 1
    BY AppendProperties
  <2>2. \A i \in 1 .. Len(q) : Append(q, c)[i] = q[i]
    BY AppendProperties
  <2>3. Append(q, c)[Len(q) + 1] = c
    BY AppendProperties
  <2>4. DOMAIN Append(q, c) = 1 .. Len(q) + 1
    BY <2>1, LenProperties
  <2> QED
    BY <1>1, <2>1, <2>2, <2>3, <2>4
<1>3. ASSUME q # << >>
      PROVE  /\ q[1] \in Copies /\ 1 \in DOMAIN q /\ Tail(q) \in Seq(Copies)
             /\ \A m \in DOMAIN Tail(q) : /\ m + 1 \in DOMAIN q /\ 1 < m + 1
                                          /\ Tail(q)[m] = q[m + 1]
             /\ \A m, n \in DOMAIN Tail(q) : m < n => m + 1 < n + 1
  <2>1. Len(q) > 0
    BY <1>1, <1>3, EmptySeq
  <2>2. Tail(q) \in Seq(Copies) /\ Len(Tail(q)) = Len(q) - 1
        /\ \A i \in 1 .. Len(Tail(q)) : Tail(q)[i] = q[i + 1]
    BY <1>3, HeadTailProperties
  <2>3. DOMAIN Tail(q) = 1 .. Len(q) - 1
    BY <2>2, LenProperties
  <2> QED
    BY <1>1, <2>1, <2>2, <2>3, ElementOfSeq
<1> QED
  BY <1>2, <1>3

-----------------------------------------------------------------------------
(* Writes. *)

\* A side's write goes from one stage to another.
LEMMA StageMoves ==
    ASSUME Shape, NEW side \in Sides, NEW stage \in {"done", "conflict", "error"},
           ~Free(side),
           write' = IF stage = "done"
                    THEN [write EXCEPT ![side].stage = stage, ![Other(side)].current = FALSE]
                    ELSE [write EXCEPT ![side].stage = stage]
    PROVE  /\ write' \in [Sides -> [stage : {"none", "sent", "done", "conflict", "error"},
                                    current : BOOLEAN, jobs : Seq(Job)]]
           /\ \A s \in Sides : write'[s].jobs = write[s].jobs
           /\ write'[side].stage = stage /\ write'[side].current = write[side].current
           /\ write'[Other(side)].stage = write[Other(side)].stage
           /\ write'[Other(side)].current = (write[Other(side)].current /\ stage # "done")
           /\ \A s \in Sides : Free(s)' <=> Free(s)
<1>1. /\ side # Other(side) /\ Other(side) \in Sides /\ Sides = {side, Other(side)}
  BY DEF Sides, Other
<1>2. write[side] \in [stage : {"none", "sent", "done", "conflict", "error"},
                       current : BOOLEAN, jobs : Seq(Job)]
      /\ write[Other(side)] \in [stage : {"none", "sent", "done", "conflict", "error"},
                                 current : BOOLEAN, jobs : Seq(Job)]
      /\ DOMAIN write = Sides
  BY <1>1 DEF Shape
<1>3. /\ DOMAIN write' = Sides
      /\ write'[side] = [write[side] EXCEPT !.stage = stage]
      /\ write'[Other(side)] = IF stage = "done" THEN [write[Other(side)] EXCEPT !.current = FALSE]
                               ELSE write[Other(side)]
      /\ write' = [s \in Sides |-> write'[s]]
  <2> HIDE DEF Sides, Other
  <2>1. CASE stage = "done"
    BY <1>1, <1>2, <2>1
  <2>2. CASE stage # "done"
    BY <1>1, <1>2, <2>2
  <2> QED
    BY <2>1, <2>2
<1>4. /\ write'[side] \in [stage : {"none", "sent", "done", "conflict", "error"},
                           current : BOOLEAN, jobs : Seq(Job)]
      /\ write'[side].stage = stage /\ write'[side].current = write[side].current
      /\ write'[side].jobs = write[side].jobs
  BY <1>2, <1>3
<1>5. /\ write'[Other(side)] \in [stage : {"none", "sent", "done", "conflict", "error"},
                                  current : BOOLEAN, jobs : Seq(Job)]
      /\ write'[Other(side)].stage = write[Other(side)].stage
      /\ write'[Other(side)].jobs = write[Other(side)].jobs
      /\ write'[Other(side)].current = (write[Other(side)].current /\ stage # "done")
  <2>1. CASE stage = "done"
    <3>1. write'[Other(side)] = [write[Other(side)] EXCEPT !.current = FALSE]
      BY <1>3, <2>1
    <3>2. write'[Other(side)].current = FALSE
      BY <1>2, <3>1
    <3>3. (write[Other(side)].current /\ stage # "done") = FALSE
      BY <2>1
    <3>4. ASSUME NEW w \in [stage : {"none", "sent", "done", "conflict", "error"},
                             current : BOOLEAN, jobs : Seq(Job)]
          PROVE  /\ [w EXCEPT !.current = FALSE]
                       \in [stage : {"none", "sent", "done", "conflict", "error"},
                           current : BOOLEAN, jobs : Seq(Job)]
                 /\ [w EXCEPT !.current = FALSE].stage = w.stage
                 /\ [w EXCEPT !.current = FALSE].jobs = w.jobs
      OBVIOUS
    <3>5. /\ write'[Other(side)] \in [stage : {"none", "sent", "done", "conflict", "error"},
                                      current : BOOLEAN, jobs : Seq(Job)]
          /\ write'[Other(side)].stage = write[Other(side)].stage
          /\ write'[Other(side)].jobs = write[Other(side)].jobs
      <4>1. PICK w \in [stage : {"none", "sent", "done", "conflict", "error"},
                        current : BOOLEAN, jobs : Seq(Job)] : w = write[Other(side)]
        BY <1>2
      <4>2. write'[Other(side)] = [w EXCEPT !.current = FALSE]
        BY <3>1, <4>1
      <4> QED
        BY <3>4, <4>1, <4>2
    <3> QED
      BY <3>2, <3>3, <3>5, Zenon
  <2>2. CASE stage # "done"
    <3>1. write'[Other(side)] = write[Other(side)]
      BY <1>3, <2>2
    <3>2. write[Other(side)].current \in BOOLEAN
      BY <1>2
    <3> QED
      BY <1>2, <2>2, <3>1, <3>2
  <2> QED
    BY <2>1, <2>2
<1>6. write' \in [Sides -> [stage : {"none", "sent", "done", "conflict", "error"},
                            current : BOOLEAN, jobs : Seq(Job)]]
  BY <1>1, <1>3, <1>4, <1>5
<1>7. \A s \in Sides : write'[s].jobs = write[s].jobs
  BY <1>1, <1>4, <1>5
<1>8. \A s \in Sides : Free(s)' <=> Free(s)
  BY <1>1, <1>4, <1>5 DEF Free
<1> QED
  BY <1>4, <1>5, <1>6, <1>7, <1>8

LEMMA RowAnswersKeeps ==
    ASSUME RetentionInv, NEW side \in Sides, RowAnswers(side) \/ RowUnreachable(side)
    PROVE  RetentionInv'
<1>1. /\ UNCHANGED <<mediaVars, workerVars, queue, answered, restarts>>
      /\ write[side].stage = "sent" /\ ~Free(side)
  BY DEF RowAnswers, RowUnreachable, Free
<1>2. /\ side # Other(side) /\ Other(side) \in Sides /\ Sides = {side, Other(side)}
      /\ "worker" \in Sides /\ "handlers" \in Sides
  BY DEF Sides, Other
<1>3. Shape /\ write[side].current \in BOOLEAN
  BY DEF RetentionInv, Shape
<1>4. PICK stage \in {"done", "conflict", "error"} :
          /\ write' = IF stage = "done"
                      THEN [write EXCEPT ![side].stage = stage, ![Other(side)].current = FALSE]
                      ELSE [write EXCEPT ![side].stage = stage]
          /\ stage = "done" <=> write[side].current /\ RowAnswers(side)
  BY <1>3 DEF RowAnswers, RowUnreachable
<1>5. IF stage = "done" THEN row' = write[side].jobs /\ known' = FALSE ELSE UNCHANGED <<row, known>>
  BY <1>3, <1>4 DEF RowAnswers, RowUnreachable
<1>6. /\ write' \in [Sides -> [stage : {"none", "sent", "done", "conflict", "error"},
                               current : BOOLEAN, jobs : Seq(Job)]]
      /\ \A s \in Sides : write'[s].jobs = write[s].jobs
      /\ write'[side].stage = stage /\ write'[side].current = write[side].current
      /\ write'[Other(side)].stage = write[Other(side)].stage
      /\ write'[Other(side)].current = (write[Other(side)].current /\ stage # "done")
      /\ \A s \in Sides : Free(s)' <=> Free(s)
  BY <1>1, <1>3, <1>4, StageMoves
<1>7. UNCHANGED <<jobs, idem, asked, results, poisoned, batch, pc, deletions, unsure,
                  queue, answered, restarts>>
  BY <1>1 DEF mediaVars, workerVars
<1>8. stage = "done" => write[side].current
  BY <1>4
<1>9. Shape'
  BY <1>1, <1>2, <1>3, <1>5, <1>6, <1>7 DEF Shape, Copies
<1>10. Marks'
  <2>1. /\ MarksTrue(jobs) /\ MarksTrue(row) /\ \A i \in DOMAIN queue : MarksTrue(queue[i])
        /\ \A s \in Sides : ~Free(s) => MarksTrue(write[s].jobs)
    BY DEF RetentionInv, Marks
  <2>2. \A c : MarksTrue(c) => \A i \in 1 .. MaxJobs : c[i].deleted => deletions'[i] > 0
    BY <1>7 DEF MarksTrue
  <2>3. row' \in {row, write[side].jobs}
    BY <1>5
  <2> QED
    BY <1>1, <1>2, <1>6, <1>7, <2>1, <2>2, <2>3 DEF Marks, MarksTrue
<1>11. Deletions'
  BY <1>7 DEF RetentionInv, Deletions, Pending, Current, Expired
<1>12. \A s \in Sides : Landed(s)'
  <2>1. Other(Other(side)) = side
    BY DEF Sides, Other
  <2>2. Landed(Other(side))
    BY <1>2 DEF RetentionInv
  <2>3. Landed(side)'
    BY <1>4, <1>5, <1>6, <1>8 DEF Landed
  <2>4. Landed(Other(side))'
    BY <1>2, <1>5, <1>6, <1>8, <2>1, <2>2 DEF Landed
  <2> QED
    BY <1>2, <2>3, <2>4
<1>13. HandlersGrow'
  BY <1>2, <1>6, <1>7 DEF RetentionInv, HandlersGrow, Within
<1>14. Ends'
  <2>1. stage = "done" => HasAnswered(write[side].jobs)
    <3>1. CASE side = "handlers"
      BY <1>1, <3>1 DEF RetentionInv, Ends
    <3>2. CASE side = "worker"
      BY <1>1, <1>8, <3>2 DEF RetentionInv, Ends
    <3> QED
      BY <3>1, <3>2 DEF Sides
  <2>2. HasAnswered(row')
    BY <1>5, <2>1 DEF RetentionInv, Ends
  <2>3. write'["worker"].stage = "sent" /\ write'["worker"].current
            => write["worker"].stage = "sent" /\ write["worker"].current
    BY <1>2, <1>4, <1>6
  <2>4. \A c : HasAnswered(c) => \A i \in answered' : c[i].status \in Terminal
    BY <1>7 DEF HasAnswered
  <2> QED
    BY <1>2, <1>6, <1>7, <2>2, <2>3, <2>4 DEF RetentionInv, Ends, HasAnswered
<1> QED
  BY <1>9, <1>10, <1>11, <1>12, <1>13, <1>14 DEF RetentionInv

-----------------------------------------------------------------------------
(* The handlers. *)

\* A side starts a write of copy c, or is free.
LEMMA WriteStarts ==
    ASSUME Shape, NEW side \in Sides, NEW c \in Copies, NEW current \in BOOLEAN,
           write' \in {[write EXCEPT ![side] = Sent(c, current)],
                       [write EXCEPT ![side] = NoWrite]}
    PROVE  /\ write' \in [Sides -> [stage : {"none", "sent", "done", "conflict", "error"},
                                    current : BOOLEAN, jobs : Seq(Job)]]
           /\ write'[Other(side)] = write[Other(side)]
           /\ Free(Other(side))' <=> Free(Other(side))
           /\ \/ write'[side] = Sent(c, current) /\ ~Free(side)'
              \/ write'[side] = NoWrite /\ Free(side)'
<1>1. /\ side # Other(side) /\ Other(side) \in Sides
      /\ write \in [Sides -> [stage : {"none", "sent", "done", "conflict", "error"},
                              current : BOOLEAN, jobs : Seq(Job)]]
  BY DEF Sides, Other, Shape
<1>2. c \in Seq(Job) /\ << >> \in Seq(Job)
  BY MediaAssumption DEF Copies
<1>3. Sent(c, current) \in [stage : {"none", "sent", "done", "conflict", "error"},
                            current : BOOLEAN, jobs : Seq(Job)]
      /\ NoWrite \in [stage : {"none", "sent", "done", "conflict", "error"},
                      current : BOOLEAN, jobs : Seq(Job)]
      /\ Sent(c, current).stage = "sent" /\ NoWrite.stage = "none"
  BY <1>2 DEF Sent, NoWrite
<1> HIDE DEF Sent, NoWrite
<1>4. write'[Other(side)] = write[Other(side)]
  BY <1>1
<1>5. write'[side] \in {Sent(c, current), NoWrite}
  BY <1>1
<1>6. write' \in [Sides -> [stage : {"none", "sent", "done", "conflict", "error"},
                            current : BOOLEAN, jobs : Seq(Job)]]
  BY <1>1, <1>3
<1> QED
  BY <1>3, <1>4, <1>5, <1>6 DEF Free

LEMMA CallbackKeeps ==
    ASSUME RetentionInv, NEW r \in JobIds, NEW status \in {"draining", "completed"},
           Callback(r, status)
    PROVE  RetentionInv'
<1>1. /\ UNCHANGED <<poisoned, batch, pc, deletions, unsure, known, row, answered, restarts>>
      /\ ApplyProviderStatus(r, status, FALSE, FALSE)
  BY DEF Callback, workerVars
<1>2. Shape
  BY DEF RetentionInv
<1>3. /\ jobs' \in Copies /\ Within(jobs, jobs')
      /\ \A i \in 1 .. MaxJobs : jobs'[i].deleted = jobs[i].deleted
      /\ UNCHANGED <<idem, asked, results>>
  BY <1>1, <1>2, CallbackMoves
<1>4. "worker" \in Sides /\ "handlers" \in Sides /\ Other("handlers") = "worker"
      /\ Sides = {"worker", "handlers"}
  BY DEF Sides, Other
<1>5. PICK c \in Copies : c = jobs'
  BY <1>3
<1>6. PICK current \in BOOLEAN : current = known
  BY <1>2 DEF Shape
<1>7. MarksTrue(jobs) /\ \A d : MarksTrue(d) => \A i \in 1 .. MaxJobs : d[i].deleted => deletions'[i] > 0
  BY <1>1 DEF RetentionInv, Marks, MarksTrue
<1>8. \A i \in 1 .. MaxJobs : c[i].deleted => deletions'[i] > 0
  BY <1>3, <1>5, <1>7 DEF MarksTrue
<1>9. HasAnswered(c) /\ answered' = answered
  BY <1>1, <1>2, <1>3, <1>5, WithinIsOrder DEF RetentionInv, Ends, Shape
<1>10. /\ \A m \in DOMAIN queue : Within(queue[m], c)
       /\ ~Free("handlers") => Within(write["handlers"].jobs, c)
       /\ Within(c, c)
  BY <1>3, <1>5, WithinIsOrder DEF RetentionInv, HandlersGrow
<1>11. Deletions'
  <2>1. \A i \in Pending : jobs'[i].object /\ ~jobs'[i].deleted /\ jobs'[i].status \in Terminal
    <3> SUFFICES ASSUME NEW i \in Pending
                 PROVE  jobs'[i].object /\ ~jobs'[i].deleted /\ jobs'[i].status \in Terminal
      OBVIOUS
    <3>1. i \in 1 .. MaxJobs /\ Expired(i)
      BY <1>2 DEF RetentionInv, Deletions, Pending, Shape
    <3> QED
      BY <1>3, <3>1 DEF Expired, Copies, Within
  <2> QED
    BY <1>1, <1>3, <2>1 DEF RetentionInv, Deletions, Pending, Current, Expired
<1>12. CASE Free("handlers")
  <2>1. write' = [write EXCEPT !["handlers"] = Sent(c, current)] /\ UNCHANGED queue
    BY <1>5, <1>6, <1>12 DEF Callback
  <2>2. /\ write' \in [Sides -> [stage : {"none", "sent", "done", "conflict", "error"},
                                 current : BOOLEAN, jobs : Seq(Job)]]
        /\ write'["worker"] = write["worker"] /\ (Free("worker")' <=> Free("worker"))
        /\ \/ write'["handlers"] = Sent(c, current) /\ ~Free("handlers")'
           \/ write'["handlers"] = NoWrite /\ Free("handlers")'
    BY <1>2, <1>4, <2>1, WriteStarts
  <2>3. /\ write'["handlers"] = Sent(c, current) /\ ~Free("handlers")'
        /\ write'["handlers"].jobs = c /\ write'["handlers"].stage = "sent"
        /\ write'["handlers"].current = known
    BY <1>2, <1>4, <1>6, <2>1 DEF Sent, Free, Shape
  <2>4. queue = << >> /\ queue' = << >> /\ DOMAIN queue = {}
    BY <1>2, <1>12, <2>1 DEF Shape
  <2>5. Shape'
    BY <1>1, <1>2, <1>3, <1>4, <1>5, <2>2, <2>3, <2>4 DEF Shape, Copies
  <2>6. Marks'
    BY <1>1, <1>4, <1>5, <1>7, <1>8, <2>2, <2>3, <2>4 DEF Marks, MarksTrue, RetentionInv
  <2>7. \A s \in Sides : Landed(s)'
    <3>1. Landed("worker") /\ (Landed("handlers")')
      BY <1>4, <2>3 DEF RetentionInv, Landed
    <3>2. Landed("worker")'
      BY <1>1, <1>4, <2>2, <2>3, <3>1 DEF Landed, Other
    <3> QED
      BY <1>4, <3>1, <3>2
  <2>8. HandlersGrow'
    BY <1>5, <1>10, <2>3, <2>4 DEF HandlersGrow, Within
  <2>9. Ends'
    BY <1>1, <1>5, <1>9, <2>2, <2>3, <2>4 DEF RetentionInv, Ends, HasAnswered
  <2> QED
    BY <1>11, <2>5, <2>6, <2>7, <2>8, <2>9 DEF RetentionInv
<1>13. CASE ~Free("handlers")
  <2>1. queue' = Append(queue, c) /\ UNCHANGED write /\ queue \in Seq(Copies)
    BY <1>2, <1>5, <1>13 DEF Callback, Shape
  <2>2. /\ queue' \in Seq(Copies) /\ DOMAIN queue' = DOMAIN queue \cup {Len(queue) + 1}
        /\ \A m \in DOMAIN queue : queue'[m] = queue[m] /\ m < Len(queue) + 1
        /\ queue'[Len(queue) + 1] = c
    BY <2>1, QueueFacts
  <2>3. \A s \in Sides : Free(s)' <=> Free(s)
    BY <2>1 DEF Free
  <2>4. Shape'
    BY <1>1, <1>2, <1>3, <1>4, <1>13, <2>1, <2>2, <2>3 DEF Shape
  <2>5. Marks'
    <3>1. /\ \A m \in DOMAIN queue : MarksTrue(queue[m])
          /\ MarksTrue(row) /\ \A s \in Sides : ~Free(s) => MarksTrue(write[s].jobs)
      BY DEF RetentionInv, Marks
    <3>2. \A m \in DOMAIN queue' : \A i \in 1 .. MaxJobs : queue'[m][i].deleted => deletions'[i] > 0
      BY <1>7, <1>8, <2>2, <3>1
    <3> QED
      BY <1>1, <1>5, <1>7, <1>8, <2>1, <2>3, <3>1, <3>2 DEF Marks, MarksTrue
  <2>6. \A s \in Sides : Landed(s)'
    BY <1>1, <2>1 DEF RetentionInv, Landed
  <2>7. HandlersGrow'
    <3>1. /\ \A m, n \in DOMAIN queue : m < n => Within(queue[m], queue[n])
          /\ \A m \in DOMAIN queue : Within(write["handlers"].jobs, queue[m])
      BY <1>13 DEF RetentionInv, HandlersGrow
    <3>2. DOMAIN queue = 1 .. Len(queue) /\ Len(queue) \in Nat
      BY <2>1, LenProperties
    <3>3. \A m \in DOMAIN queue' : Within(queue'[m], c) /\ Within(write["handlers"].jobs, queue'[m])
      BY <1>10, <1>13, <2>2, <3>1
    <3>4. \A m, n \in DOMAIN queue' : m < n => Within(queue'[m], queue'[n])
      BY <1>10, <2>2, <3>1, <3>2
    <3> HIDE DEF Within
    <3> QED
      BY <1>5, <1>10, <1>13, <2>1, <3>3, <3>4 DEF HandlersGrow, Within
  <2>8. Ends'
    <3>1. \A m \in DOMAIN queue' : HasAnswered(queue'[m])
      BY <1>9, <2>2 DEF RetentionInv, Ends
    <3> QED
      BY <1>1, <1>4, <1>5, <1>9, <2>1, <2>3, <3>1 DEF RetentionInv, Ends, HasAnswered
  <2> QED
    BY <1>11, <2>4, <2>5, <2>6, <2>7, <2>8 DEF RetentionInv
<1> QED
  BY <1>12, <1>13

LEMMA HandlersContinueKeeps ==
    ASSUME RetentionInv, HandlersContinue
    PROVE  RetentionInv'
<1>1. /\ UNCHANGED <<jobs, idem, asked, results, poisoned, batch, pc, deletions, unsure, row,
                     restarts>>
      /\ ~Free("handlers")
  BY DEF HandlersContinue, workerVars, mediaVars, Free
<1>2. Shape /\ write["handlers"].jobs \in Copies /\ queue \in Seq(Copies)
  BY <1>1 DEF RetentionInv, Shape, Sides
<1>3. "worker" \in Sides /\ "handlers" \in Sides /\ Other("handlers") = "worker"
      /\ Other("worker") = "handlers" /\ Sides = {"worker", "handlers"}
  BY DEF Sides, Other
<1>4. known' \in BOOLEAN /\ (write["handlers"].stage = "done" => known' = TRUE)
  BY <1>2, <1>3 DEF HandlersContinue, Learn, RetentionInv, Landed, Shape
<1>5. PICK current \in BOOLEAN : current = known'
  BY <1>4
<1>6. PICK c \in Copies : queue # << >> => c = queue[1]
  BY <1>2, QueueFacts
<1>7. write' \in {[write EXCEPT !["handlers"] = Sent(c, current)],
                  [write EXCEPT !["handlers"] = NoWrite]}
  BY <1>5, <1>6 DEF HandlersContinue
<1>8. /\ write' \in [Sides -> [stage : {"none", "sent", "done", "conflict", "error"},
                               current : BOOLEAN, jobs : Seq(Job)]]
      /\ write'["worker"] = write["worker"]
      /\ Free("worker")' <=> Free("worker")
      /\ \/ write'["handlers"] = Sent(c, current) /\ ~Free("handlers")'
         \/ write'["handlers"] = NoWrite /\ Free("handlers")'
  BY <1>2, <1>3, <1>7, WriteStarts
<1>9. /\ queue' \in Seq(Copies)
      /\ Free("handlers")' => queue' = << >>
      /\ ~Free("handlers")' => /\ 1 \in DOMAIN queue /\ write'["handlers"].jobs = queue[1]
                               /\ write'["handlers"].stage = "sent" /\ queue # << >>
      /\ \A m \in DOMAIN queue' : /\ m + 1 \in DOMAIN queue /\ 1 < m + 1
                                  /\ queue'[m] = queue[m + 1]
      /\ \A m, n \in DOMAIN queue' : m < n => m + 1 < n + 1
  <2>1. CASE queue = << >>
    <3>1. queue' = << >> /\ write' = [write EXCEPT !["handlers"] = NoWrite]
      BY <2>1 DEF HandlersContinue
    <3>2. Free("handlers")'
      BY <1>2, <1>3, <3>1 DEF Free, NoWrite, Shape
    <3> QED
      BY <1>2, <2>1, <3>1, <3>2
  <2>2. CASE queue # << >>
    <3>1. queue' = Tail(queue) /\ write' = [write EXCEPT !["handlers"] = Sent(queue[1], known')]
      BY <2>2 DEF HandlersContinue
    <3>2. write'["handlers"] = Sent(queue[1], known')
      BY <1>2, <1>3, <3>1 DEF Shape
    <3>3. /\ ~Free("handlers")' /\ write'["handlers"].jobs = queue[1]
          /\ write'["handlers"].stage = "sent"
      BY <3>2 DEF Free, Sent
    <3>4. /\ 1 \in DOMAIN queue /\ Tail(queue) \in Seq(Copies)
          /\ \A m \in DOMAIN Tail(queue) : /\ m + 1 \in DOMAIN queue /\ 1 < m + 1
                                           /\ Tail(queue)[m] = queue[m + 1]
          /\ \A m, n \in DOMAIN Tail(queue) : m < n => m + 1 < n + 1
      BY <1>2, <2>2, QueueFacts
    <3> QED
      BY <2>2, <3>1, <3>3, <3>4
  <2> QED
    BY <2>1, <2>2
<1>10. queue # << >> => queue[1] \in Copies
  BY <1>6
<1>11. answered' \subseteq 1 .. MaxJobs
  BY <1>2 DEF HandlersContinue, Ended, JobIds, Shape, Copies
<1>12. ~Free("handlers")' => write'["handlers"].jobs \in Copies
  BY <1>9, <1>10
<1>13. Shape'
  BY <1>1, <1>2, <1>3, <1>4, <1>8, <1>9, <1>11, <1>12 DEF Shape, Copies
<1>14. Marks'
  BY <1>1, <1>3, <1>8, <1>9 DEF RetentionInv, Marks, MarksTrue
<1>15. Deletions'
  BY <1>1 DEF RetentionInv, Deletions, Pending, Current, Expired
<1>16. \A s \in Sides : Landed(s)'
  <2>1. Landed("handlers")'
    BY <1>9 DEF Landed, Free
  <2>2. Landed("worker") /\ Landed("handlers")
    BY <1>3 DEF RetentionInv
  <2>3. write["worker"].stage = "done" =>
            /\ write["handlers"].stage # "done" /\ ~known /\ row = write["worker"].jobs
            /\ write["worker"].current
    BY <1>3, <2>2 DEF Landed
  <2>4. write["worker"].stage = "done" => ~known' /\ ~write'["handlers"].current
    <3> SUFFICES ASSUME write["worker"].stage = "done"
                 PROVE  ~known' /\ ~write'["handlers"].current
      OBVIOUS
    <3>1. ~known'
      BY <2>3 DEF HandlersContinue, Learn
    <3> QED
      BY <1>5, <1>8, <3>1 DEF Sent, NoWrite
  <2>5. Landed("worker")'
    BY <1>1, <1>3, <1>8, <2>3, <2>4 DEF Landed
  <2> QED
    BY <1>3, <2>1, <2>5
<1>17. HandlersGrow'
  <2>1. /\ \A m \in DOMAIN queue : Within(queue[m], jobs)
        /\ \A m, n \in DOMAIN queue : m < n => Within(queue[m], queue[n])
    BY DEF RetentionInv, HandlersGrow
  <2>2. /\ \A m \in DOMAIN queue' : Within(queue'[m], jobs)
        /\ \A m, n \in DOMAIN queue' : m < n => Within(queue'[m], queue'[n])
        /\ ~Free("handlers")' =>
            /\ Within(write'["handlers"].jobs, jobs)
            /\ \A m \in DOMAIN queue' : Within(write'["handlers"].jobs, queue'[m])
    BY <1>9, <2>1
  <2> QED
    BY <1>1, <2>2 DEF HandlersGrow, Within
<1>18. Ends'
  <2>1. /\ Within(write["handlers"].jobs, jobs)
        /\ \A m \in DOMAIN queue : Within(write["handlers"].jobs, queue[m])
    BY <1>1 DEF RetentionInv, HandlersGrow
  <2>2. /\ HasAnswered(jobs) /\ HasAnswered(row)
        /\ \A m \in DOMAIN queue : HasAnswered(queue[m])
        /\ write["worker"].stage = "sent" /\ write["worker"].current
                => HasAnswered(write["worker"].jobs)
    BY DEF RetentionInv, Ends
  <2>3. CASE write["handlers"].stage = "done"
    <3>1. answered' = answered \cup Ended(write["handlers"].jobs)
      BY <2>3 DEF HandlersContinue
    <3>2. row = write["handlers"].jobs /\ ~write["worker"].current
      BY <1>3, <2>3 DEF RetentionInv, Landed
    <3>3. \A c1 : HasAnswered(c1) /\ Within(row, c1) =>
                \A i \in answered' : c1[i].status \in Terminal
      BY <1>2, <3>1, <3>2 DEF HasAnswered, Within, Ended, JobIds, Shape, Copies
    <3>4. Within(row, row)
      BY WithinIsOrder
    <3>5. /\ \A i \in answered' : jobs[i].status \in Terminal /\ row[i].status \in Terminal
          /\ \A m \in DOMAIN queue : \A i \in answered' : queue[m][i].status \in Terminal
      BY <2>1, <2>2, <3>2, <3>3, <3>4
    <3> QED
      BY <1>1, <1>8, <1>9, <3>2, <3>5 DEF Ends, HasAnswered
  <2>4. CASE write["handlers"].stage # "done"
    <3>1. answered' = answered
      BY <2>4 DEF HandlersContinue
    <3> QED
      BY <1>1, <1>8, <1>9, <2>2, <3>1 DEF Ends, HasAnswered
  <2> QED
    BY <2>3, <2>4
<1> QED
  BY <1>13, <1>14, <1>15, <1>16, <1>17, <1>18 DEF RetentionInv

-----------------------------------------------------------------------------
(* The worker. *)

\* The job that the worker is at is the first of those left in the round.
LEMMA CurrentInBatch ==
    ASSUME Shape, pc # "idle"
    PROVE  Current \in batch /\ Current \in 1 .. MaxJobs
<1>1. batch \in SUBSET Nat /\ batch # {}
  BY DEF Shape
<1> QED
  BY <1>1, MinProperties DEF Current, Shape

\* Steps of the worker that write nothing and leave the jobs alone.
LEMMA WorkerAside ==
    ASSUME RetentionInv, UNCHANGED <<mediaVars, poisoned, queue, write, known, row, answered, restarts>>,
           \A i \in 1 .. MaxJobs : deletions[i] > 0 => deletions'[i] > 0,
           Shape', Deletions'
    PROVE  RetentionInv'
<1>1. UNCHANGED <<jobs, queue, write, known, row, answered>>
  BY DEF mediaVars
<1>2. Marks'
  BY <1>1 DEF RetentionInv, Marks, MarksTrue, Free
<1>3. \A s \in Sides : Landed(s)'
  BY <1>1 DEF RetentionInv, Landed
<1>4. HandlersGrow' /\ Ends'
  BY <1>1 DEF RetentionInv, HandlersGrow, Ends, Within, HasAnswered, Free
<1> QED
  BY <1>2, <1>3, <1>4 DEF RetentionInv

LEMMA StartRoundKeeps ==
    ASSUME RetentionInv, StartRound PROVE RetentionInv'
<1>1. /\ UNCHANGED <<jobs, idem, asked, results, poisoned, queue, write, known, row, deletions,
                     unsure, answered, restarts>>
      /\ pc = "idle" /\ pc' = "deleting" /\ batch' = FirstExpired /\ ExpiredJobs # {}
  BY DEF StartRound, mediaVars
<1>2. Shape
  BY DEF RetentionInv
<1>3. ExpiredJobs \in SUBSET Nat /\ ExpiredJobs \subseteq 1 .. MaxJobs
  BY <1>2 DEF ExpiredJobs, JobIds, Shape, Copies
<1>4. batch' # {}
  <2> DEFINE first == Min(ExpiredJobs)
  <2>1. first \in ExpiredJobs /\ \A q \in ExpiredJobs : first <= q
    BY <1>1, <1>3, MinProperties
  <2> HIDE DEF first
  <2>2. {q \in ExpiredJobs : q < first} = {}
    <3>1. \A q \in ExpiredJobs : q \in Nat /\ first \in Nat /\ first <= q
      BY <1>3, <2>1
    <3>2. \A q \in ExpiredJobs : ~(q < first)
      BY <3>1
    <3> QED
      BY <3>2
  <2>3. Cardinality({q \in ExpiredJobs : q < first}) < BatchSize
    BY <2>2, FS_EmptySet, RetentionAssumption
  <2> QED
    BY <1>1, <2>1, <2>3 DEF FirstExpired
<1>5. batch' \subseteq ExpiredJobs
  BY <1>1 DEF FirstExpired
<1>6. Shape'
  BY <1>1, <1>2, <1>3, <1>4, <1>5 DEF Shape, Free
<1>7. Deletions'
  BY <1>1, <1>5 DEF RetentionInv, Deletions, Pending, Expired, ExpiredJobs
<1> QED
  BY <1>1, <1>6, <1>7, WorkerAside DEF mediaVars

LEMMA DeletionFailsKeeps ==
    ASSUME RetentionInv, DeletionFails PROVE RetentionInv'
<1>1. /\ UNCHANGED <<jobs, idem, asked, results, poisoned, queue, write, known, row, answered,
                     restarts>>
      /\ pc = "deleting" /\ batch' = batch \ {Current}
      /\ pc' = IF batch' = {} THEN "idle" ELSE "deleting"
  BY DEF DeletionFails, NextInBatch, mediaVars
<1>2. Shape /\ Current \in batch /\ Current \in 1 .. MaxJobs
  BY <1>1, CurrentInBatch DEF RetentionInv
<1>3. /\ deletions \in [1 .. MaxJobs -> 0 .. MaxDeletions]
      /\ MaxDeletions \in Nat \ {0}
  BY <1>2, RetentionAssumption DEF Shape
<1>4. \/ UNCHANGED <<deletions, unsure>>
      \/ /\ deletions' = [deletions EXCEPT ![Current] = IF @ < MaxDeletions THEN @ + 1 ELSE @]
         /\ unsure' = unsure \cup {Current}
  BY DEF DeletionFails, OneMoreDeletion
<1>5. /\ deletions' \in [1 .. MaxJobs -> 0 .. MaxDeletions]
      /\ \A i \in 1 .. MaxJobs : deletions[i] > 0 => deletions'[i] > 0
      /\ \A i \in 1 .. MaxJobs \ unsure' : deletions'[i] = deletions[i]
      /\ unsure \subseteq unsure' /\ unsure' \subseteq 1 .. MaxJobs
  <2>1. CASE UNCHANGED <<deletions, unsure>>
    BY <1>2, <1>3, <2>1 DEF Shape
  <2>2. CASE /\ deletions' = [deletions EXCEPT ![Current] = IF @ < MaxDeletions THEN @ + 1 ELSE @]
             /\ unsure' = unsure \cup {Current}
    <3>1. deletions[Current] \in 0 .. MaxDeletions
      BY <1>2, <1>3
    <3> HIDE DEF Current
    <3> QED
      BY <1>2, <1>3, <2>2, <3>1 DEF Shape
  <2> QED
    BY <1>4, <2>1, <2>2
<1>6. Shape'
  BY <1>1, <1>2, <1>5 DEF Shape, Free
<1>7. Deletions'
  <2>1. Pending' \subseteq Pending
    BY <1>1 DEF Pending
  <2> QED
    BY <1>1, <1>5, <2>1 DEF RetentionInv, Deletions, Expired
<1> QED
  BY <1>1, <1>5, <1>6, <1>7, WorkerAside DEF mediaVars

LEMMA ObjectDeletedKeeps ==
    ASSUME RetentionInv, ObjectDeleted PROVE RetentionInv'
<1>1. /\ UNCHANGED <<poisoned, queue, known, row, batch, unsure, answered, restarts>>
      /\ pc = "deleting" /\ pc' = "saving" /\ MarkDeleted(Current)
      /\ deletions' = [deletions EXCEPT ![Current] = IF @ < MaxDeletions THEN @ + 1 ELSE @]
      /\ write' = [write EXCEPT !["worker"] = Sent(jobs', known)]
  BY DEF ObjectDeleted, OneMoreDeletion
<1>2. Shape /\ Current \in batch /\ Current \in 1 .. MaxJobs
  BY <1>1, CurrentInBatch DEF RetentionInv
<1>3. /\ jobs' \in Copies /\ Within(jobs, jobs') /\ jobs'[Current].deleted
      /\ \A i \in 1 .. MaxJobs \ {Current} : jobs'[i] = jobs[i]
      /\ UNCHANGED <<idem, asked, results>>
  BY <1>1, <1>2, MarkMoves
<1>4. "worker" \in Sides /\ "handlers" \in Sides /\ Other("worker") = "handlers"
      /\ Other("handlers") = "worker" /\ Sides = {"worker", "handlers"}
  BY DEF Sides, Other
<1>5. PICK c \in Copies : c = jobs'
  BY <1>3
<1>6. PICK current \in BOOLEAN : current = known
  BY <1>2 DEF Shape
<1>7. write' = [write EXCEPT !["worker"] = Sent(c, current)]
  BY <1>1, <1>5, <1>6
<1>8. /\ write' \in [Sides -> [stage : {"none", "sent", "done", "conflict", "error"},
                               current : BOOLEAN, jobs : Seq(Job)]]
      /\ write'["handlers"] = write["handlers"]
      /\ Free("handlers")' <=> Free("handlers")
  <2>1. write' \in {[write EXCEPT !["worker"] = Sent(c, current)], [write EXCEPT !["worker"] = NoWrite]}
    BY <1>7
  <2> QED
    BY <1>2, <1>4, <2>1, WriteStarts
<1>9. /\ write'["worker"].jobs = c /\ write'["worker"].stage = "sent"
      /\ write'["worker"].current = known /\ ~Free("worker")'
  BY <1>2, <1>4, <1>6, <1>7 DEF Sent, Free, Shape
<1>10. Current \in Pending /\ Expired(Current)
  BY <1>1, <1>2 DEF RetentionInv, Deletions, Pending
<1>11. /\ deletions \in [1 .. MaxJobs -> 0 .. MaxDeletions]
       /\ MaxDeletions \in Nat \ {0} /\ deletions[Current] \in 0 .. MaxDeletions
  BY <1>2, RetentionAssumption DEF Shape
<1>12. Current \notin unsure => deletions[Current] = 0
  <2> SUFFICES ASSUME Current \notin unsure PROVE deletions[Current] = 0
    OBVIOUS
  <2>1. deletions[Current] > 0 => jobs[Current].deleted
    BY <1>2 DEF RetentionInv, Deletions
  <2> QED
    BY <1>10, <1>11, <2>1 DEF Expired
<1>13. Current' = Current
  BY <1>1 DEF Current
<1>14. /\ deletions' \in [1 .. MaxJobs -> 0 .. MaxDeletions]
       /\ \A i \in 1 .. MaxJobs : deletions[i] > 0 => deletions'[i] > 0
       /\ \A i \in 1 .. MaxJobs \ {Current} : deletions'[i] = deletions[i]
       /\ deletions'[Current] > 0
       /\ Current \notin unsure => deletions'[Current] = 1
  <2> HIDE DEF Current
  <2> QED
    BY <1>1, <1>2, <1>11, <1>12
<1>15. Shape'
  <2>1. \A s \in Sides : ~Free(s)' => write'[s].jobs \in Copies
    BY <1>2, <1>4, <1>5, <1>8, <1>9 DEF Shape
  <2>2. (pc' = "idle" <=> batch' = {}) /\ (pc' = "saving" <=> ~Free("worker")')
    BY <1>1, <1>2, <1>9
  <2>3. Free("handlers")' => queue' = << >>
    BY <1>1, <1>2, <1>8 DEF Shape
  <2> QED
    BY <1>1, <1>2, <1>3, <1>8, <1>14, <2>1, <2>2, <2>3 DEF Shape
<1>16. Marks'
  <2>1. \A d : MarksTrue(d) => \A i \in 1 .. MaxJobs : d[i].deleted => deletions'[i] > 0
    BY <1>14 DEF MarksTrue
  <2>2. \A i \in 1 .. MaxJobs : c[i].deleted => deletions'[i] > 0
    BY <1>3, <1>5, <1>14 DEF RetentionInv, Marks, MarksTrue
  <2>3. /\ MarksTrue(row) /\ \A m \in DOMAIN queue : MarksTrue(queue[m])
        /\ ~Free("handlers") => MarksTrue(write["handlers"].jobs)
    BY <1>4 DEF RetentionInv, Marks
  <2> QED
    BY <1>1, <1>4, <1>5, <1>8, <1>9, <2>1, <2>2, <2>3 DEF Marks, MarksTrue
<1>17. Deletions'
  <2>1. \A i \in Pending' : i \in Pending /\ i # Current /\ i \in 1 .. MaxJobs
    BY <1>1, <1>2, <1>13 DEF Pending, Shape
  <2>2. \A i \in Pending' : Expired(i)'
    BY <1>3, <2>1 DEF RetentionInv, Deletions, Expired
  <2>3. \A i \in 1 .. MaxJobs \ unsure : deletions'[i] <= 1 /\ (deletions'[i] > 0 => jobs'[i].deleted)
    BY <1>3, <1>14 DEF RetentionInv, Deletions
  <2> QED
    BY <1>1, <2>2, <2>3 DEF Deletions
<1>18. \A s \in Sides : Landed(s)'
  <2>1. Landed("worker")'
    BY <1>9 DEF Landed
  <2>2. Landed("handlers")
    BY <1>4 DEF RetentionInv
  <2>3. Landed("handlers")'
    BY <1>1, <1>4, <1>8, <1>9, <2>2 DEF Landed
  <2> QED
    BY <1>4, <2>1, <2>3
<1>19. HandlersGrow'
  <2>1. \A d : Within(d, jobs) => Within(d, c)
    BY <1>3, <1>5, WithinIsOrder
  <2>2. /\ \A m \in DOMAIN queue : Within(queue[m], c)
        /\ ~Free("handlers") => Within(write["handlers"].jobs, c)
    BY <2>1 DEF RetentionInv, HandlersGrow
  <2> QED
    BY <1>1, <1>5, <1>8, <2>2 DEF RetentionInv, HandlersGrow, Within
<1>20. Ends'
  <2>1. HasAnswered(c)
    BY <1>2, <1>3, <1>5, WithinIsOrder DEF RetentionInv, Ends, Shape
  <2> QED
    BY <1>1, <1>5, <1>8, <1>9, <2>1 DEF RetentionInv, Ends, HasAnswered
<1> QED
  BY <1>15, <1>16, <1>17, <1>18, <1>19, <1>20 DEF RetentionInv

LEMMA WorkerContinuesKeeps ==
    ASSUME RetentionInv, WorkerContinues PROVE RetentionInv'
<1>1. /\ UNCHANGED <<jobs, idem, asked, results, poisoned, queue, row, deletions, unsure,
                     answered, restarts>>
      /\ pc = "saving" /\ batch' = batch \ {Current}
      /\ pc' = IF batch' = {} THEN "idle" ELSE "deleting"
      /\ write' = [write EXCEPT !["worker"] = NoWrite]
  BY DEF WorkerContinues, NextInBatch, mediaVars
<1>2. Shape
  BY DEF RetentionInv
<1>3. "worker" \in Sides /\ "handlers" \in Sides /\ Other("worker") = "handlers"
      /\ Other("handlers") = "worker" /\ Sides = {"worker", "handlers"}
  BY DEF Sides, Other
<1>4. known' \in BOOLEAN /\ (write["worker"].stage # "done" => known' = known)
  BY <1>2, <1>3 DEF WorkerContinues, Learn, Shape
<1>5. jobs \in Copies /\ TRUE \in BOOLEAN
  BY <1>2 DEF Shape
<1>6. /\ write' \in [Sides -> [stage : {"none", "sent", "done", "conflict", "error"},
                               current : BOOLEAN, jobs : Seq(Job)]]
      /\ write'["handlers"] = write["handlers"]
      /\ Free("handlers")' <=> Free("handlers")
  <2>1. PICK c \in Copies : c = jobs
    BY <1>5
  <2>2. write' \in {[write EXCEPT !["worker"] = Sent(c, TRUE)], [write EXCEPT !["worker"] = NoWrite]}
    BY <1>1
  <2> QED
    BY <1>2, <1>3, <1>5, <2>2, WriteStarts
<1>7. write'["worker"] = NoWrite /\ Free("worker")'
  BY <1>1, <1>2, <1>3 DEF Shape, NoWrite, Free
<1>8. Shape'
  BY <1>1, <1>2, <1>3, <1>4, <1>6, <1>7 DEF Shape
<1>9. Marks'
  BY <1>1, <1>3, <1>6, <1>7 DEF RetentionInv, Marks, MarksTrue
<1>10. Deletions'
  <2>1. Pending' = Pending
    BY <1>1 DEF Pending
  <2> QED
    BY <1>1, <2>1 DEF RetentionInv, Deletions, Expired
<1>11. \A s \in Sides : Landed(s)'
  <2>1. Landed("worker")'
    BY <1>7 DEF Landed, NoWrite
  <2>2. Landed("handlers") /\ Landed("worker")
    BY <1>3 DEF RetentionInv
  <2>3. write["handlers"].stage = "done" => write["worker"].stage # "done"
    BY <1>3, <2>2 DEF Landed
  <2>4. Landed("handlers")'
    BY <1>1, <1>3, <1>4, <1>6, <1>7, <2>2, <2>3 DEF Landed, NoWrite
  <2> QED
    BY <1>3, <2>1, <2>4
<1>12. HandlersGrow'
  BY <1>1, <1>6 DEF RetentionInv, HandlersGrow, Within
<1>13. Ends'
  BY <1>1, <1>6, <1>7 DEF RetentionInv, Ends, HasAnswered, NoWrite
<1> QED
  BY <1>8, <1>9, <1>10, <1>11, <1>12, <1>13 DEF RetentionInv

LEMMA RestartKeeps ==
    ASSUME RetentionInv, Restart PROVE RetentionInv'
<1>1. /\ jobs' = row /\ known' = TRUE /\ queue' = << >> /\ write' = [s \in Sides |-> NoWrite]
      /\ batch' = {} /\ pc' = "idle"
      /\ unsure' = unsure \cup {i \in JobIds : deletions[i] > 0 /\ ~row[i].deleted}
      /\ UNCHANGED <<poisoned, idem, asked, results, row, deletions, answered>>
  BY DEF Restart
<1>2. Shape
  BY DEF RetentionInv
<1>3. JobIds = 1 .. MaxJobs
  BY <1>2 DEF JobIds, Shape, Copies
<1>4. /\ write' \in [Sides -> [stage : {"none", "sent", "done", "conflict", "error"},
                               current : BOOLEAN, jobs : Seq(Job)]]
      /\ \A s \in Sides : write'[s] = NoWrite /\ Free(s)'
  BY <1>1 DEF NoWrite, Free
<1>5. queue' \in Seq(Copies) /\ DOMAIN queue' = {}
  BY <1>1, EmptySeq
<1>6. Shape'
  BY <1>1, <1>2, <1>3, <1>4, <1>5 DEF Shape, Sides
<1>7. Marks'
  BY <1>1, <1>4, <1>5 DEF RetentionInv, Marks, MarksTrue
<1>8. Deletions'
  BY <1>1, <1>3 DEF RetentionInv, Deletions, Pending
<1>9. \A s \in Sides : Landed(s)'
  BY <1>4 DEF Landed, NoWrite
<1>10. HandlersGrow'
  BY <1>4, <1>5 DEF HandlersGrow, Sides
<1>11. Ends'
  BY <1>1, <1>4, <1>5 DEF RetentionInv, Ends, HasAnswered, NoWrite, Sides
<1> QED
  BY <1>6, <1>7, <1>8, <1>9, <1>10, <1>11 DEF RetentionInv

-----------------------------------------------------------------------------
LEMMA RetentionInvInit == Init => RetentionInv
<1> SUFFICES ASSUME Init PROVE RetentionInv
  OBVIOUS
<1>1. Running \in Job /\ Running.object /\ ~Running.deleted /\ Running.status = "active"
  BY RetentionAssumption DEF Running, Job, Status, Counted, Terminal
<1>2. /\ jobs \in Copies /\ row = jobs
      /\ \A i \in 1 .. MaxJobs : jobs[i] = Running
  BY <1>1 DEF Init, Copies
<1>3. JobIds = 1 .. MaxJobs
  BY <1>2 DEF JobIds, Copies
<1>4. /\ write \in [Sides -> [stage : {"none", "sent", "done", "conflict", "error"},
                              current : BOOLEAN, jobs : Seq(Job)]]
      /\ \A s \in Sides : write[s] = NoWrite /\ Free(s)
  BY DEF Init, NoWrite, Free
<1>5. queue = << >> /\ queue \in Seq(Copies) /\ DOMAIN queue = {}
  BY EmptySeq DEF Init
<1>6. Shape
  BY <1>2, <1>3, <1>4, <1>5, RetentionAssumption DEF Init, Shape, Sides
<1>7. Marks
  BY <1>1, <1>2, <1>4, <1>5 DEF Marks, MarksTrue
<1>8. Deletions
  BY <1>3 DEF Init, Deletions, Pending
<1>9. \A s \in Sides : Landed(s)
  BY <1>4 DEF Landed, NoWrite
<1>10. HandlersGrow
  BY <1>4, <1>5 DEF HandlersGrow, Sides
<1>11. Ends
  BY <1>4, <1>5 DEF Init, Ends, HasAnswered, NoWrite, Sides
<1> QED
  BY <1>6, <1>7, <1>8, <1>9, <1>10, <1>11 DEF RetentionInv

\* Every step keeps the invariant.
LEMMA RetentionStep == RetentionInv /\ [Next]_vars => RetentionInv'
<1>1. RetentionInv /\ (Handlers \/ Worker) => RetentionInv'
  BY CallbackKeeps, HandlersContinueKeeps, StartRoundKeeps, ObjectDeletedKeeps, DeletionFailsKeeps,
     WorkerContinuesKeeps DEF Handlers, Worker
<1>2. RetentionInv /\ Restart => RetentionInv'
  BY RestartKeeps
<1>3. RetentionInv /\ (\E s \in Sides : Database(s)) => RetentionInv'
  BY RowAnswersKeeps DEF Database
<1>4. RetentionInv /\ UNCHANGED vars => RetentionInv'
  <2> SUFFICES ASSUME RetentionInv, UNCHANGED vars PROVE RetentionInv'
    OBVIOUS
  <2>1. UNCHANGED <<mediaVars, poisoned, queue, write, known, row, answered, restarts,
                    batch, pc, deletions, unsure>>
    BY DEF vars, workerVars
  <2>2. Shape'
    BY <2>1 DEF mediaVars, RetentionInv, Shape, Free
  <2>3. Deletions'
    BY <2>1 DEF mediaVars, RetentionInv, Deletions, Pending, Current, Expired
  <2> QED
    BY <2>1, <2>2, <2>3, WorkerAside
<1> QED
  BY <1>1, <1>2, <1>3, <1>4 DEF Next

LEMMA RetentionInvariant == Spec => []RetentionInv
BY RetentionInvInit, RetentionStep, PTL DEF Spec

LEMMA ShapeIsTyped == RetentionInv => TypeOK
<1> SUFFICES ASSUME RetentionInv PROVE TypeOK
  OBVIOUS
<1>1. Shape
  BY DEF RetentionInv
<1>2. Copies \subseteq Seq(Job) /\ JobIds = 1 .. MaxJobs
  BY <1>1, MediaAssumption DEF Copies, JobIds, Shape
<1>3. MediaTypeOK
  BY <1>1, <1>2 DEF MediaTypeOK, Shape
<1>4. \A i \in DOMAIN queue : queue[i] \in Seq(Job)
  BY <1>1, <1>2, LenProperties, ElementOfSeq DEF Shape
<1> QED
  BY <1>1, <1>2, <1>3, <1>4 DEF TypeOK, Shape

\* A job is marked as deleted only when the storage said so, in the memory of
\* the process and in every copy, whatever fails or restarts.
THEOREM MarksAreOfDeletions == Spec => []MarkedWasDeleted
<1>1. RetentionInv => MarkedWasDeleted
  BY ShapeIsTyped DEF RetentionInv, Marks, MarksTrue, MarkedWasDeleted, JobIds, Shape, Copies
<1> QED
  BY <1>1, RetentionInvariant, PTL

\* An end that was answered with success is in the row from then on: no write
\* that can still take effect is without it.
THEOREM AnsweredEndsStay == Spec => []AnsweredEndIsDurable
<1>1. RetentionInv => AnsweredEndIsDurable
  BY DEF RetentionInv, Ends, HasAnswered, AnsweredEndIsDurable
<1> QED
  BY <1>1, RetentionInvariant, PTL

\* No object is deleted twice, unless an answer or a mark was lost.
THEOREM NoSecondDeletion == Spec => []DeletedOnce
<1>1. RetentionInv => DeletedOnce
  BY DEF RetentionInv, Deletions, DeletedOnce, JobIds, Shape, Copies
<1> QED
  BY <1>1, RetentionInvariant, PTL
=============================================================================
