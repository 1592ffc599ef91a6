----------------------------- MODULE MCMediaOps -----------------------------
(* Small instances of MediaOps for TLC. *)
EXTENDS MediaOps, TLC

\* Requests, keys and bodies are interchangeable: nothing compares two of them.
Symmetry == Permutations(Handlers) \cup Permutations(Keys) \cup Permutations(Bodies)

OneJobEach == [k \in Kinds |-> 1]
TwoJobsEach == [k \in Kinds |-> 2]

\* Two recordings, or one call alone, lost jobs counted by their tasks: jobs of
\* different kinds meet only in the queue of writes, which two recordings fill
\* as well.  The operations on the call, of which there may be two at a time,
\* have one key.
KindsSeen ==
    {jobs[r].kind : r \in JobIds} \cup {s[1] : s \in {s \in Kinds \X Keys : tasks[s] > 0}}

OperationKeys ==
    {t[3] : t \in results} \cup UNION {{o[2] : o \in call[h].op} : h \in Handlers}

OneKind ==
    /\ "call" \in KindsSeen => KindsSeen = {"call"} /\ Len(jobs) <= 1
    /\ Cardinality(OperationKeys) <= 1
=============================================================================
