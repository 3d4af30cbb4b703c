---------------------------- MODULE Migrate_proofs ----------------------------
(***************************************************************************)
(* Safety of Migrate, for any number of runs of any releases.              *)
(***************************************************************************)
EXTENDS Migrate, TLAPS

Working == {"checking", "executing", "recording", "committing"}
Transacting == {"executing", "recording", "committing"}

\* A run that goes through its list holds the lock.
Held == \A r \in Runs : run[r].phase \in Working => lock = r

\* What the loop has passed is recorded.
Passed ==
    \A r \in Runs : run[r].phase \in Working \cup {"done"} =>
        /\ run[r].todo \subseteq Embedded[r]
        /\ Embedded[r] \ run[r].todo \subseteq recorded

\* The migration at hand is the next one, and still to be applied.
AtHand ==
    \A r \in Runs : run[r].phase \in Transacting =>
        /\ run[r].at \in Versions
        /\ IsNext(run[r].at, run[r].todo)
        /\ run[r].at \notin recorded

\* No version has been left out on the way.
Closed == \A v \in recorded : \A u \in Versions : u < v => u \in recorded

IInv ==
    /\ TypeOK
    /\ Held /\ Passed /\ AtHand /\ Closed
    /\ RecordedIsApplied /\ AppliedInOrder /\ FailuresAreOwn

-----------------------------------------------------------------------------

\* The migration of a run that is about to execute has all it needs, and all
\* smaller versions have been recorded.
LEMMA NothingIsMissing ==
    ASSUME IInv, NEW r \in Runs, run[r].phase \in Transacting
    PROVE  /\ \A u \in Versions : u < run[r].at => u \in recorded
           /\ Needs[run[r].at] \subseteq Applied
           /\ \A w \in recorded : w < run[r].at
<1> DEFINE v == run[r].at
<1>1. /\ v \in Versions
      /\ v \in run[r].todo
      /\ \A u \in run[r].todo : v <= u
      /\ v \notin recorded
  BY DEF IInv, AtHand, IsNext
<1>2. v \in Embedded[r] /\ Embedded[r] \ run[r].todo \subseteq recorded
  BY <1>1 DEF IInv, Passed, Working, Transacting
<1>3. \A u \in Versions : u < v => u \in Embedded[r]
  BY <1>2, ReleasesAssumption
<1>n. v \in Nat /\ \A u \in Versions : u \in Nat
  BY <1>1, VersionsAssumption
<1> HIDE DEF v
<1>4. \A u \in Versions : u < v => u \notin run[r].todo
  BY <1>1, <1>n
<1>5. \A u \in Versions : u < v => u \in recorded
  BY <1>2, <1>3, <1>4
<1>6. Needs[v] \subseteq Applied
  BY <1>1, <1>5, NeedsAssumption DEF IInv, RecordedIsApplied
<1>7. \A w \in recorded : w < v
  <2> SUFFICES ASSUME NEW w \in recorded PROVE w < v
    OBVIOUS
  <2>1. w \in Nat
    BY <1>n DEF IInv, TypeOK
  <2>2. ~ v < w
    BY <1>1 DEF IInv, Closed
  <2>3. w # v
    BY <1>1
  <2> QED
    BY <1>n, <2>1, <2>2, <2>3
<1> QED
  BY <1>5, <1>6, <1>7 DEF v

\* What a commit makes of the two tables.
LEMMA PublishSound ==
    ASSUME IInv, NEW r \in Runs, Publish(r)
    PROVE  /\ recorded' \in SUBSET Versions
           /\ schema' \in Seq(Versions)
           /\ RecordedIsApplied' /\ AppliedInOrder' /\ Closed'
<1> DEFINE v == run[r].at
<1>1. /\ v \in Versions
      /\ \A u \in Versions : u < v => u \in recorded
      /\ \A w \in recorded : w < v
  BY NothingIsMissing DEF Publish, IInv, AtHand, Transacting
<1>2. /\ schema \in Seq(Versions)
      /\ recorded \in SUBSET Versions
      /\ recorded = Applied
      /\ schema' = Append(schema, v)
      /\ recorded' = recorded \cup {v}
  BY DEF Publish, IInv, TypeOK, RecordedIsApplied
<1>3. schema' \in Seq(Versions) /\ recorded' \in SUBSET Versions
  BY <1>1, <1>2
<1>4. /\ DOMAIN schema = 1 .. Len(schema) /\ Len(schema) \in Nat
      /\ DOMAIN schema' = 1 .. Len(schema) + 1
      /\ \A i \in 1 .. Len(schema) : schema'[i] = schema[i]
      /\ schema'[Len(schema) + 1] = v
  BY <1>1, <1>2
<1>5. RecordedIsApplied'
  <2>1. ASSUME NEW x \in recorded' PROVE \E i \in DOMAIN schema' : schema'[i] = x
    BY <1>2, <1>4 DEF Applied
  <2>2. ASSUME NEW i \in DOMAIN schema' PROVE schema'[i] \in recorded'
    BY <1>2, <1>4 DEF Applied
  <2> QED
    BY <2>1, <2>2 DEF RecordedIsApplied, Applied
<1>6. AppliedInOrder'
  <2> SUFFICES ASSUME NEW i \in DOMAIN schema', NEW j \in DOMAIN schema', i < j
               PROVE  schema'[i] < schema'[j]
    BY DEF AppliedInOrder
  <2>1. i \in 1 .. Len(schema) /\ schema'[i] = schema[i] /\ schema[i] \in recorded
    BY <1>2, <1>4 DEF Applied
  <2>2. CASE j = Len(schema) + 1
    BY <1>1, <1>4, <2>1, <2>2
  <2>3. CASE j \in 1 .. Len(schema)
    BY <1>4, <2>1, <2>3 DEF IInv, AppliedInOrder
  <2> QED
    BY <1>4, <2>2, <2>3
<1>7. Closed'
  <2> SUFFICES ASSUME NEW w \in recorded', NEW u \in Versions, u < w
               PROVE  u \in recorded'
    BY DEF Closed
  <2>1. CASE w \in recorded
    BY <1>2, <2>1 DEF IInv, Closed
  <2>2. CASE w = v
    BY <1>1, <1>2, <2>2
  <2> QED
    BY <1>2, <2>1, <2>2
<1> QED
  BY <1>3, <1>5, <1>6, <1>7

\* A step of one run that leaves the two tables as they are, and after which
\* that run is as the invariant wants it, keeps the invariant.
LEMMA OneRunMoves ==
    ASSUME IInv, NEW r \in Runs, NEW c \in Calls,
           UNCHANGED <<recorded, schema>>,
           run' = [run EXCEPT ![r] = c],
           lock' \in Runs \cup {None},
           \A q \in Runs \ {r} : lock = q => lock' = q,
           c.phase = "done" => c.todo = {},
           c.phase \in Working => lock' = r,
           c.phase \in Working \cup {"done"} =>
               /\ c.todo \subseteq Embedded[r]
               /\ Embedded[r] \ c.todo \subseteq recorded,
           c.phase \in Transacting =>
               c.at \in Versions /\ IsNext(c.at, c.todo) /\ c.at \notin recorded,
           c.phase = "failed" => c.broken
    PROVE  IInv'
<1>1. /\ run \in [Runs -> Calls] /\ run' \in [Runs -> Calls]
      /\ run'[r] = c
      /\ \A q \in Runs \ {r} : run'[q] = run[q]
  BY DEF IInv, TypeOK
<1>2. TypeOK'
  BY <1>1 DEF IInv, TypeOK
<1>3. Held'
  BY <1>1 DEF IInv, Held
<1>4. Passed'
  BY <1>1 DEF IInv, Passed
<1>5. AtHand'
  BY <1>1 DEF IInv, AtHand, IsNext
<1>6. Closed' /\ RecordedIsApplied' /\ AppliedInOrder'
  BY DEF IInv, Closed, RecordedIsApplied, AppliedInOrder, Applied
<1>7. FailuresAreOwn'
  BY <1>1 DEF IInv, FailuresAreOwn
<1> QED
  BY <1>2, <1>3, <1>4, <1>5, <1>6, <1>7 DEF IInv

\* The same when the run publishes its migration: no other run is at one.
LEMMA OneRunPublishes ==
    ASSUME IInv, NEW r \in Runs, NEW c \in Calls, Publish(r),
           run' = [run EXCEPT ![r] = c],
           \/ /\ c.phase = "checking" /\ lock' = lock
              /\ c.todo = run[r].todo \ {run[r].at}
           \/ /\ c.phase = "failed" /\ c.broken
              /\ lock' = Released(r)
    PROVE  IInv'
<1>1. /\ run \in [Runs -> Calls] /\ run' \in [Runs -> Calls]
      /\ run'[r] = c
      /\ \A q \in Runs \ {r} : run'[q] = run[q]
      /\ lock = r /\ lock \in Runs \cup {None}
      /\ recorded' = recorded \cup {run[r].at}
  BY DEF IInv, TypeOK, Held, Publish, Working
<1>2. \A q \in Runs \ {r} : run[q].phase \notin Working
  BY <1>1 DEF IInv, Held
<1>3. TypeOK'
  BY <1>1, PublishSound DEF IInv, TypeOK, Released
<1>4. Held'
  BY <1>1, <1>2 DEF Held, Released, Working
<1>5. Passed'
  BY <1>1, <1>2 DEF IInv, Passed, Working, Publish
<1>6. AtHand'
  BY <1>1, <1>2 DEF AtHand, Working, Transacting
<1>7. FailuresAreOwn'
  BY <1>1 DEF IInv, FailuresAreOwn
<1> QED
  BY <1>3, <1>4, <1>5, <1>6, <1>7, PublishSound DEF IInv

-----------------------------------------------------------------------------

LEMMA Initially == Init => IInv
<1> SUFFICES ASSUME Init PROVE IInv
  OBVIOUS
<1>1. TypeOK
  BY DEF Init, TypeOK, Calls
<1>2. Held /\ Passed /\ AtHand /\ Closed
  BY DEF Init, Held, Passed, AtHand, Closed, Working, Transacting
<1>3. RecordedIsApplied /\ AppliedInOrder /\ FailuresAreOwn
  BY DEF Init, RecordedIsApplied, AppliedInOrder, FailuresAreOwn, Applied
<1> QED
  BY <1>1, <1>2, <1>3 DEF IInv

LEMMA Preserved == IInv /\ [Next]_vars => IInv'
<1> SUFFICES ASSUME IInv, [Next]_vars PROVE IInv'
  OBVIOUS
<1> USE DEF Calls
<1>0. run \in [Runs -> Calls] /\ lock \in Runs \cup {None}
  BY DEF IInv, TypeOK
<1>1. ASSUME NEW r \in Runs, Start(r) PROVE IInv'
  <2> DEFINE c == [run[r] EXCEPT !.phase = "waiting"]
  <2>1. c \in Calls /\ c.phase = "waiting" /\ run' = [run EXCEPT ![r] = c]
    BY <1>0, <1>1 DEF Start
  <2> QED
    BY <1>0, <1>1, <2>1, OneRunMoves DEF Start, Working, Transacting
<1>2. ASSUME NEW r \in Runs, Lock(r) PROVE IInv'
  <2> DEFINE c == [run[r] EXCEPT !.phase = "checking", !.todo = Embedded[r]]
  <2>1. /\ c \in Calls /\ c.phase = "checking" /\ c.todo = Embedded[r]
        /\ run' = [run EXCEPT ![r] = c]
    BY <1>0, <1>2, ReleasesAssumption DEF Lock
  <2>2. /\ \A q \in Runs : lock # q
        /\ lock' = r /\ UNCHANGED <<recorded, schema>>
    BY <1>2, NoneAssumption DEF Lock, Free
  <2>3. c.phase \in Working /\ c.phase \notin Transacting \cup {"done", "failed"}
    BY <2>1 DEF Working, Transacting
  <2> HIDE DEF c
  <2> QED
    BY <2>1, <2>2, <2>3, OneRunMoves
<1>3. ASSUME NEW r \in Runs, Check(r) PROVE IInv'
  <2>1. PICK v \in Versions :
           /\ IsNext(v, run[r].todo)
           /\ run' = IF v \in recorded
                     THEN [run EXCEPT ![r].todo = @ \ {v}]
                     ELSE [run EXCEPT ![r].phase = "executing", ![r].at = v]
    BY <1>3 DEF Check
  <2>2. /\ run[r].phase = "checking" /\ lock = r /\ UNCHANGED <<lock, recorded, schema>>
        /\ run[r].todo \subseteq Embedded[r]
        /\ Embedded[r] \ run[r].todo \subseteq recorded
    BY <1>3 DEF Check, IInv, Held, Passed, Working
  <2>3. CASE v \in recorded
    <3> DEFINE c == [run[r] EXCEPT !.todo = @ \ {v}]
    <3>1. /\ c \in Calls /\ c.phase = "checking" /\ c.todo = run[r].todo \ {v}
          /\ run' = [run EXCEPT ![r] = c]
      BY <1>0, <2>1, <2>2, <2>3
    <3> QED
      BY <1>0, <2>2, <2>3, <3>1, OneRunMoves DEF Working, Transacting
  <2>4. CASE v \notin recorded
    <3> DEFINE c == [run[r] EXCEPT !.phase = "executing", !.at = v]
    <3>1. /\ c \in Calls /\ c.phase = "executing" /\ c.at = v /\ c.todo = run[r].todo
          /\ run' = [run EXCEPT ![r] = c]
      BY <1>0, <2>1, <2>2, <2>4
    <3> QED
      BY <1>0, <2>1, <2>2, <2>4, <3>1, OneRunMoves DEF Working, Transacting
  <2> QED
    BY <2>3, <2>4
<1>4. ASSUME NEW r \in Runs, Execute(r) PROVE IInv'
  <2> DEFINE c == [run[r] EXCEPT !.phase = "recording"]
  <2>1. /\ c \in Calls /\ c.phase = "recording" /\ c.todo = run[r].todo /\ c.at = run[r].at
        /\ run' = [run EXCEPT ![r] = c] /\ UNCHANGED <<lock, recorded, schema>>
    BY <1>0, <1>4, NothingIsMissing DEF Execute, Transacting
  <2> QED
    BY <1>0, <1>4, <2>1, OneRunMoves
    DEF Execute, IInv, Held, Passed, AtHand, Working, Transacting
<1>5. ASSUME NEW r \in Runs, Record(r) PROVE IInv'
  <2> DEFINE c == [run[r] EXCEPT !.phase = "committing"]
  <2>1. /\ c \in Calls /\ c.phase = "committing" /\ c.todo = run[r].todo /\ c.at = run[r].at
        /\ run' = [run EXCEPT ![r] = c] /\ UNCHANGED <<lock, recorded, schema>>
    BY <1>0, <1>5 DEF Record, IInv, AtHand, Transacting
  <2> QED
    BY <1>0, <1>5, <2>1, OneRunMoves
    DEF Record, IInv, Held, Passed, AtHand, Working, Transacting
<1>6. ASSUME NEW r \in Runs, Commit(r) PROVE IInv'
  <2> DEFINE c == [run[r] EXCEPT !.phase = "checking", !.todo = @ \ {run[r].at}, !.at = None]
  <2>1. /\ c \in Calls /\ c.phase = "checking" /\ c.todo = run[r].todo \ {run[r].at}
        /\ run' = [run EXCEPT ![r] = c]
    BY <1>0, <1>6 DEF Commit
  <2> QED
    BY <1>6, <2>1, OneRunPublishes DEF Commit
<1>7. ASSUME NEW r \in Runs, CommitLost(r) PROVE IInv'
  <2> DEFINE c == [run[r] EXCEPT !.phase = "failed", !.at = None, !.broken = TRUE]
  <2>1. c \in Calls /\ c.phase = "failed" /\ c.broken /\ run' = [run EXCEPT ![r] = c]
    BY <1>0, <1>7 DEF CommitLost
  <2> QED
    BY <1>7, <2>1, OneRunPublishes DEF CommitLost
<1>8. ASSUME NEW r \in Runs, Finish(r) PROVE IInv'
  <2> DEFINE c == [run[r] EXCEPT !.phase = "done"]
  <2>1. c \in Calls /\ c.phase = "done" /\ c.todo = {} /\ run' = [run EXCEPT ![r] = c]
    BY <1>0, <1>8 DEF Finish
  <2>2. Embedded[r] \subseteq recorded
    BY <1>8 DEF Finish, IInv, Passed, Working
  <2>3. /\ \A q \in Runs \ {r} : lock = q => lock' = q
        /\ lock' \in Runs \cup {None} /\ UNCHANGED <<recorded, schema>>
    BY <1>0, <1>8 DEF Finish, Released
  <2>4. c.phase \notin Working \cup Transacting \cup {"failed"}
    BY <2>1 DEF Working, Transacting
  <2> HIDE DEF c
  <2> QED
    BY <2>1, <2>2, <2>3, <2>4, OneRunMoves
<1>9. ASSUME NEW r \in Runs, Abort(r) PROVE IInv'
  <2> DEFINE c == Failure(r)
  <2>1. /\ c \in Calls /\ c.phase = "failed" /\ c.broken /\ run' = [run EXCEPT ![r] = c]
        /\ lock' = Released(r) /\ UNCHANGED <<recorded, schema>>
    BY <1>0, <1>9 DEF Abort, Failure, Kept
  <2> QED
    BY <1>0, <2>1, OneRunMoves DEF Released, Working, Transacting
<1>10. CASE UNCHANGED vars
  BY <1>10 DEF vars, IInv, TypeOK, Held, Passed, AtHand, IsNext, Closed, RecordedIsApplied,
               AppliedInOrder, FailuresAreOwn, Applied
<1> QED
  BY <1>1, <1>2, <1>3, <1>4, <1>5, <1>6, <1>7, <1>8, <1>9, <1>10 DEF Next, Proceed, Done

\* What the runs share, and how far each of them has come, at any time.
THEOREM Invariant == Spec => []IInv
  BY Initially, Preserved, PTL DEF Spec

\* The tables and the calls keep their types; a run is done only at the end of
\* its list.
THEOREM TypesCorrect == Spec => []TypeOK
  BY Invariant, PTL DEF IInv

\* A version is recorded exactly when its statements have been committed.
THEOREM RecordsAreTrue == Spec => []RecordedIsApplied
  BY Invariant, PTL DEF IInv

\* Each migration is applied once, after all smaller ones.
THEOREM OnceAndInOrder == Spec => []AppliedInOrder
  BY Invariant, PTL DEF IInv

\* No run fails because of another.
THEOREM RunsAreIndependent == Spec => []FailuresAreOwn
  BY Invariant, PTL DEF IInv

\* A successful run leaves everything it has embedded applied.
THEOREM SuccessIsComplete == Spec => []DoneMeansApplied
<1>1. IInv => DoneMeansApplied
  BY DEF IInv, TypeOK, Passed, RecordedIsApplied, DoneMeansApplied
<1> QED
  BY <1>1, Invariant, PTL
=============================================================================
