---------------------------- MODULE Seeding_proofs ----------------------------
(***************************************************************************)
(* Safety of Seeding, for any number of runs, catalogs and records: what   *)
(* loads leave behind when they run at once and are killed anywhere, and   *)
(* what a run that reports success has written.                            *)
(***************************************************************************)
EXTENDS Seeding, FiniteSetTheorems, TLAPS

Fields == {"phase", "opts", "class", "offset", "created", "replaced"}
Phases == {"unstarted", "reset", "get", "count", "apply", "fill", "analyze", "done", "failed"}

Loads(r) == Running(r) /\ run[r].opts.tool = "load"

\* Tables and runs have the shapes they begin with.
Typed ==
    /\ configs \in [Catalogs -> Bundles \cup {Nil}]
    /\ records \in [Catalogs -> [Ids -> Runs \cup {Nil}]]
    /\ wiped \in [Runs -> SUBSET Catalogs]
    /\ DOMAIN run = Runs
    /\ \A r \in Runs :
           /\ DOMAIN run[r] = Fields
           /\ run[r].phase \in Phases
           /\ run[r].phase # "unstarted" => run[r].opts \in Options[r] /\ ValidOptions(run[r].opts)
           /\ Running(r) => run[r].class \in DOMAIN ClassesOf(run[r].opts)

\* Where a load stands in its catalog: before the first batch, or at a boundary.
AtBoundary ==
    \A r \in Runs :
        /\ run[r].offset \in Nat
        /\ run[r].phase \in {"unstarted", "reset", "get", "count", "apply"} => run[r].offset = 0
        /\ Loads(r) /\ run[r].phase = "fill" =>
               /\ run[r].offset < run[r].opts.count
               /\ \E k \in Nat : run[r].offset = k * run[r].opts.batch

\* The catalogs that a run may have written to.
Reached(r, c) ==
    \/ run[r].phase \in {"done", "failed"}
    \/ run[r].phase \in {"fill", "analyze"} /\ Catalog(r) = c
    \/ Running(r) /\ run[r].class = 2 /\ c = Transactional

OnlyReached ==
    \A r \in Runs, c \in Catalogs : Loaded(c, r) # {} => run[r].opts.tool = "load" /\ Reached(r, c)

\* A catalog that nobody has deleted since a run applied it is there, and holds
\* what the run has written.
Filling ==
    \A r \in Runs : Loads(r) /\ run[r].phase = "fill" /\ Catalog(r) \notin wiped[r] =>
        /\ configs[Catalog(r)] # Nil
        /\ Loaded(Catalog(r), r) = 1 .. run[r].offset

Whole ==
    \A r \in Runs, c \in Catalogs : Loaded(c, r) # {} /\ c \notin wiped[r] =>
        \E n \in Boundaries(run[r].opts) : Loaded(c, r) = 1 .. n

Alone ==
    \A r, q \in Runs, c \in Catalogs :
        Loaded(c, r) # {} /\ c \notin wiped[r] /\ q # r /\ Loaded(c, q) # {} => c \in wiped[q]

IInv == Typed /\ AtBoundary /\ OnlyReached /\ Filling /\ Whole /\ Alone

-----------------------------------------------------------------------------
(* What the options of a run say.                                          *)

LEMMA OptionFacts ==
    ASSUME NEW r \in Runs, NEW o \in Options[r]
    PROVE  /\ o.tool \in Tools
           /\ o.tool = "demo" => ClassesOf(o) = <<o.catalog>> /\ o.catalog \in Catalogs
           /\ o.tool # "demo" => ClassesOf(o) \in {<<Transactional, Temporal>>, <<Transactional>>,
                                                   <<Temporal>>}
           /\ ClassesOf(o) \in Seq(Catalogs)
           /\ Len(ClassesOf(o)) \in {1, 2}
           /\ 2 \in DOMAIN ClassesOf(o) => o.tool # "demo" /\ ClassesOf(o) = <<Transactional, Temporal>>
           /\ DOMAIN ClassesOf(o) = 1 .. Len(ClassesOf(o))
           /\ \A c \in Catalogs : BundleOf(o, c) \in Bundles
           /\ FirstCall(o) \in {"reset", "get", "apply"}
<1>1. o.tool \in Tools
  BY OptionsAssumption
<1>2. o.tool = "demo" => ClassesOf(o) = <<o.catalog>> /\ o.catalog \in Catalogs
  BY OptionsAssumption DEF ClassesOf
<1>3. o.tool # "demo" => ClassesOf(o) \in {<<Transactional, Temporal>>, <<Transactional>>,
                                           <<Temporal>>}
  BY OptionsAssumption DEF ClassesOf
<1>4. \A c \in Catalogs : BundleOf(o, c) \in Bundles
  BY DEF BundleOf, Bundles
<1>5. FirstCall(o) \in {"reset", "get", "apply"}
  BY DEF FirstCall
<1>6. \/ o.tool = "demo" /\ o.catalog \in Catalogs /\ ClassesOf(o) = <<o.catalog>>
      \/ o.tool # "demo" /\ ClassesOf(o) = <<Transactional, Temporal>>
      \/ o.tool # "demo" /\ ClassesOf(o) = <<Transactional>>
      \/ o.tool # "demo" /\ ClassesOf(o) = <<Temporal>>
  BY <1>2, <1>3
<1>7. Transactional \in Catalogs /\ Temporal \in Catalogs
  BY OptionsAssumption
<1>8. /\ ClassesOf(o) \in Seq(Catalogs)
      /\ Len(ClassesOf(o)) \in {1, 2}
      /\ 2 \in DOMAIN ClassesOf(o) => o.tool # "demo" /\ ClassesOf(o) = <<Transactional, Temporal>>
      /\ DOMAIN ClassesOf(o) = 1 .. Len(ClassesOf(o))
  <2>1. CASE o.tool = "demo" /\ o.catalog \in Catalogs /\ ClassesOf(o) = <<o.catalog>>
    BY <2>1
  <2>2. CASE o.tool # "demo" /\ ClassesOf(o) = <<Transactional, Temporal>>
    BY <2>2, <1>7
  <2>3. CASE o.tool # "demo" /\ ClassesOf(o) = <<Transactional>>
    BY <2>3, <1>7
  <2>4. CASE o.tool # "demo" /\ ClassesOf(o) = <<Temporal>>
    BY <2>4, <1>7
  <2> QED
    BY <1>6, <2>1, <2>2, <2>3, <2>4
<1> QED
  BY <1>1, <1>2, <1>3, <1>4, <1>5, <1>8

LEMMA CatalogFacts ==
    ASSUME Typed, NEW r \in Runs, Running(r)
    PROVE  /\ run[r].opts \in Options[r]
           /\ Catalog(r) \in Catalogs
           /\ run[r].class \in {1, 2}
           /\ run[r].class = 2 => Catalog(r) = Temporal
           /\ run[r].class = 1 /\ 2 \in DOMAIN ClassesOf(run[r].opts) => Catalog(r) = Transactional
<1>1. run[r].opts \in Options[r] /\ run[r].class \in DOMAIN ClassesOf(run[r].opts)
  BY DEF Typed, Running
<1> QED
  BY <1>1, OptionFacts DEF Catalog

-----------------------------------------------------------------------------
(* Runs that only move.                                                    *)

\* A run that reads, ends or goes on to the next catalog leaves the invariant.
LEMMA Moves ==
    ASSUME IInv, NEW r \in Runs, NEW next,
           run' = [run EXCEPT ![r] = next],
           UNCHANGED <<configs, records, wiped>>,
           DOMAIN next = Fields, next.phase \in Phases \ {"unstarted", "fill"},
           next.opts \in Options[r], ValidOptions(next.opts),
           run[r].phase # "unstarted" => next.opts = run[r].opts,
           next.offset \in Nat,
           next.phase \in {"reset", "get", "count", "apply"} => next.offset = 0,
           next.phase \notin {"done", "failed"} => next.class \in DOMAIN ClassesOf(next.opts),
           \A c \in Catalogs : Reached(r, c) => Reached(r, c)'
    PROVE  IInv'
<1>1. run'[r] = next /\ \A q \in Runs \ {r} : run'[q] = run[q]
  BY DEF IInv, Typed
<1>2. Typed'
  BY <1>1 DEF IInv, Typed, Running, Phases
<1>3. AtBoundary'
  BY <1>1 DEF IInv, AtBoundary, Loads, Running
<1>4. \A q \in Runs, c \in Catalogs : Loaded(c, q)' = Loaded(c, q)
  BY DEF Loaded
<1>5. \A q \in Runs \ {r} : /\ Running(q)' <=> Running(q)
                            /\ Loads(q)' <=> Loads(q)
                            /\ Catalog(q)' = Catalog(q)
                            /\ \A c \in Catalogs : Reached(q, c)' <=> Reached(q, c)
  BY <1>1 DEF Running, Loads, Catalog, Reached
<1>6. \A q \in Runs, c \in Catalogs : Loaded(c, q) # {} => run'[q].opts = run[q].opts
  BY <1>1 DEF IInv, OnlyReached, Reached, Running
<1>7. OnlyReached'
  BY <1>1, <1>4, <1>5, <1>6 DEF IInv, OnlyReached
<1>8. Filling'
  <2> SUFFICES ASSUME NEW q \in Runs, Loads(q)', run'[q].phase = "fill", Catalog(q)' \notin wiped'[q]
               PROVE  configs'[Catalog(q)'] # Nil /\ Loaded(Catalog(q), q)' = 1 .. run'[q].offset
    BY DEF Filling
  <2>1. q # r
    BY <1>1
  <2>2. Catalog(q) \in Catalogs
    BY <1>1, <1>5, <2>1, CatalogFacts DEF IInv, Loads
  <2> QED
    BY <1>1, <1>5, <2>1 DEF IInv, Filling, Loaded
<1>9. Whole'
  BY <1>4, <1>6 DEF IInv, Whole
<1>10. Alone'
  BY <1>4 DEF IInv, Alone
<1> QED
  BY <1>2, <1>3, <1>7, <1>8, <1>9, <1>10 DEF IInv

LEMMA BeginKeeps ==
    ASSUME IInv, NEW r \in Runs, Begin(r)
    PROVE  IInv'
<1>1. PICK o \in Options[r] :
         /\ ValidOptions(o)
         /\ run' = [run EXCEPT ![r].phase = FirstCall(o), ![r].opts = o, ![r].class = 1]
  BY DEF Begin
<1> DEFINE next == [run[r] EXCEPT !.phase = FirstCall(o), !.opts = o, !.class = 1]
<1>2. run' = [run EXCEPT ![r] = next] /\ run[r].phase = "unstarted"
  BY <1>1 DEF Begin
<1>3. /\ DOMAIN next = Fields /\ next.phase = FirstCall(o) /\ next.opts = o /\ next.class = 1
      /\ next.offset = 0
  BY <1>2 DEF IInv, Typed, Fields, AtBoundary
<1>4. FirstCall(o) \in {"reset", "get", "apply"} /\ 1 \in DOMAIN ClassesOf(o)
  BY OptionFacts
<1>5. \A c \in Catalogs : ~ Reached(r, c)
  BY <1>2 DEF Reached, Running
<1> HIDE DEF next
<1>6. next.phase \in Phases \ {"unstarted", "fill"} /\ next.phase \notin {"done", "failed"}
  BY <1>3, <1>4 DEF Phases
<1>7. UNCHANGED <<configs, records, wiped>>
  BY DEF Begin
<1>8. /\ next.opts \in Options[r] /\ ValidOptions(next.opts) /\ next.offset = 0
      /\ next.class \in DOMAIN ClassesOf(next.opts)
  BY <1>1, <1>3, <1>4
<1>9. \A c \in Catalogs : Reached(r, c) => Reached(r, c)'
  BY <1>5
<1>10. /\ next.offset \in Nat
       /\ next.phase \in {"reset", "get", "count", "apply"} => next.offset = 0
       /\ next.phase \notin {"done", "failed"} => next.class \in DOMAIN ClassesOf(next.opts)
       /\ run[r].phase # "unstarted" => next.opts = run[r].opts
  BY <1>2, <1>8
<1>11. run' = [run EXCEPT ![r] = next] /\ DOMAIN next = Fields
  BY <1>2, <1>3
<1>12. next.phase \in Phases \ {"unstarted", "fill"}
  BY <1>6
<1> QED
  BY <1>7, <1>8, <1>9, <1>10, <1>11, <1>12, Moves

\* A run that ends, or asks and does not write.
LEMMA ToKeeps ==
    ASSUME IInv, NEW r \in Runs, Running(r), NEW phase,
           To(r, phase), UNCHANGED <<configs, records, wiped>>,
           \/ phase = "failed"
           \/ run[r].phase \in {"reset", "get", "count"} /\ phase \in {"count", "apply"}
    PROVE  IInv'
<1> DEFINE next == [run[r] EXCEPT !.phase = phase]
<1>1. run' = [run EXCEPT ![r] = next]
  BY DEF To
<1>2. /\ DOMAIN next = Fields /\ next.phase = phase /\ next.opts = run[r].opts
      /\ next.class = run[r].class /\ next.offset = run[r].offset
  BY DEF IInv, Typed, Fields
<1> HIDE DEF next
<1>3. run'[r] = next
  BY <1>1 DEF IInv, Typed
<1>4. \A c \in Catalogs : Reached(r, c) => Reached(r, c)'
  BY <1>2, <1>3 DEF Reached, Running, Catalog
<1>5. next.offset \in Nat /\ (next.phase \in {"reset", "get", "count", "apply"} => next.offset = 0)
  BY <1>2 DEF IInv, AtBoundary
<1>6. /\ next.opts \in Options[r] /\ ValidOptions(next.opts)
      /\ next.class \in DOMAIN ClassesOf(next.opts)
  BY <1>2 DEF IInv, Typed, Running
<1> QED
  BY <1>1, <1>2, <1>4, <1>5, <1>6, Moves DEF Phases

LEMMA FailKeeps ==
    ASSUME IInv, NEW r \in Runs, Running(r), Fail(r)
    PROVE  IInv'
BY ToKeeps DEF Fail

\* The next catalog, when the one at hand needs no more.
LEMMA NextClassFacts ==
    ASSUME IInv, NEW r \in Runs, Running(r)
    PROVE  LET next == NextClass(r)
           IN  /\ DOMAIN next = Fields /\ next.opts = run[r].opts
               /\ \/ next.phase = "done" /\ next.offset = run[r].offset
                  \/ /\ next.phase = FirstCall(run[r].opts) /\ next.offset = 0
                     /\ next.class = 2 /\ 2 \in DOMAIN ClassesOf(run[r].opts)
                     /\ Catalog(r) = Transactional
<1> DEFINE o == run[r].opts
<1>1. DOMAIN run[r] = Fields /\ o \in Options[r] /\ run[r].class \in DOMAIN ClassesOf(o)
  BY DEF IInv, Typed, Running
<1>2. Len(ClassesOf(o)) \in {1, 2} /\ DOMAIN ClassesOf(o) = 1 .. Len(ClassesOf(o))
      /\ ClassesOf(o) \in Seq(Catalogs)
  BY <1>1, OptionFacts
<1>3. CASE run[r].class < Len(ClassesOf(o))
  <2> DEFINE n == Len(ClassesOf(o))
             k == run[r].class
  <2>0. n \in {1, 2} /\ k \in 1 .. n /\ k < n
    BY <1>1, <1>2, <1>3
  <2> HIDE DEF n, k
  <2>a. n = 2 /\ k = 1
    BY <2>0
  <2>1. run[r].class = 1 /\ 2 \in DOMAIN ClassesOf(o)
    BY <1>2, <2>a DEF n, k
  <2>2. NextClass(r) = [run[r] EXCEPT !.phase = FirstCall(o), !.class = @ + 1, !.offset = 0]
    BY <1>3 DEF NextClass
  <2> QED
    <3>1. Catalog(r) = Transactional
      BY <2>1, CatalogFacts DEF IInv
    <3> DEFINE next == NextClass(r)
    <3>2. next.class = 2 /\ next.phase = FirstCall(o) /\ next.offset = 0 /\ next.opts = o
          /\ DOMAIN next = Fields
      BY <1>1, <2>1, <2>2 DEF Fields
    <3> QED
      BY <2>1, <3>1, <3>2
<1>4. CASE ~ (run[r].class < Len(ClassesOf(o)))
  <2>1. NextClass(r) = [run[r] EXCEPT !.phase = "done"]
    BY <1>4 DEF NextClass
  <2> QED
    BY <1>1, <2>1 DEF Fields
<1> QED
  BY <1>3, <1>4

LEMMA NextClassKeeps ==
    ASSUME IInv, NEW r \in Runs, Running(r),
           run' = [run EXCEPT ![r] = NextClass(r)], UNCHANGED <<configs, records, wiped>>
    PROVE  IInv'
<1> DEFINE next == NextClass(r)
<1>1. /\ DOMAIN next = Fields /\ next.opts = run[r].opts
      /\ \/ next.phase = "done" /\ next.offset = run[r].offset
         \/ /\ next.phase = FirstCall(run[r].opts) /\ next.offset = 0
            /\ next.class = 2 /\ 2 \in DOMAIN ClassesOf(run[r].opts)
            /\ Catalog(r) = Transactional
  BY NextClassFacts
<1> HIDE DEF next
<1>2. run' = [run EXCEPT ![r] = next]
  BY DEF next
<1>3. run'[r] = next
  BY <1>2 DEF IInv, Typed
<1>4. run[r].opts \in Options[r] /\ ValidOptions(run[r].opts) /\ run[r].phase # "unstarted"
  BY DEF IInv, Typed, Running
<1>5. FirstCall(run[r].opts) \in {"reset", "get", "apply"}
  BY <1>4, OptionFacts
<1>6. \A c \in Catalogs : Reached(r, c) => Reached(r, c)'
  BY <1>1, <1>3, <1>5 DEF Reached, Running
<1>7. run[r].offset \in Nat
  BY DEF IInv, AtBoundary
<1>8. /\ next.phase \in Phases \ {"unstarted", "fill"} /\ next.opts \in Options[r]
      /\ ValidOptions(next.opts) /\ next.offset \in Nat
      /\ next.phase \in {"reset", "get", "count", "apply"} => next.offset = 0
      /\ next.phase \notin {"done", "failed"} => next.class \in DOMAIN ClassesOf(next.opts)
  BY <1>1, <1>4, <1>5, <1>7 DEF Phases
<1> QED
  BY <1>1, <1>2, <1>6, <1>8, Moves

-----------------------------------------------------------------------------
(* Runs that write.                                                        *)

\* What a step of r leaves as it is of the other runs, and what it has to keep of
\* its own.
LEMMA OneRuns ==
    ASSUME IInv, NEW r \in Runs, Running(r), NEW next,
           run' = [run EXCEPT ![r] = next],
           DOMAIN next = Fields, next.opts = run[r].opts,
           next.class \in DOMAIN ClassesOf(next.opts),
           next.phase \in Phases \ {"unstarted"},
           next.offset \in Nat,
           next.phase \in {"reset", "get", "count", "apply"} => next.offset = 0,
           next.phase = "fill" /\ next.opts.tool = "load" =>
               /\ next.offset < next.opts.count
               /\ \E k \in Nat : next.offset = k * next.opts.batch
    PROVE  /\ run'[r] = next
           /\ \A q \in Runs \ {r} : run'[q] = run[q]
           /\ \A q \in Runs \ {r} : /\ Running(q)' <=> Running(q)
                                    /\ Loads(q)' <=> Loads(q)
                                    /\ Catalog(q)' = Catalog(q)
                                    /\ \A c \in Catalogs : Reached(q, c)' <=> Reached(q, c)
           /\ next.class = run[r].class => Catalog(r)' = Catalog(r)
           /\ DOMAIN run' = Runs
           /\ \A q \in Runs :
                  /\ DOMAIN run'[q] = Fields
                  /\ run'[q].phase \in Phases
                  /\ run'[q].phase # "unstarted" =>
                         run'[q].opts \in Options[q] /\ ValidOptions(run'[q].opts)
                  /\ Running(q)' => run'[q].class \in DOMAIN ClassesOf(run'[q].opts)
                  /\ run'[q].opts = run[q].opts
           /\ AtBoundary'
<1>1. run'[r] = next /\ \A q \in Runs \ {r} : run'[q] = run[q]
  BY DEF IInv, Typed
<1>2. \A q \in Runs \ {r} : /\ Running(q)' <=> Running(q)
                            /\ Loads(q)' <=> Loads(q)
                            /\ Catalog(q)' = Catalog(q)
                            /\ \A c \in Catalogs : Reached(q, c)' <=> Reached(q, c)
  BY <1>1 DEF Running, Loads, Catalog, Reached
<1>3. next.class = run[r].class => Catalog(r)' = Catalog(r)
  BY <1>1 DEF Catalog
<1>4. DOMAIN run' = Runs
  BY DEF IInv, Typed
<1>5. \A q \in Runs :
          /\ DOMAIN run'[q] = Fields
          /\ run'[q].phase \in Phases
          /\ run'[q].phase # "unstarted" =>
                 run'[q].opts \in Options[q] /\ ValidOptions(run'[q].opts)
          /\ Running(q)' => run'[q].class \in DOMAIN ClassesOf(run'[q].opts)
          /\ run'[q].opts = run[q].opts
  BY <1>1 DEF IInv, Typed, Running, Phases
<1>6. AtBoundary'
  BY <1>1, <1>2 DEF IInv, AtBoundary, Loads
<1> QED
  BY <1>1, <1>2, <1>3, <1>4, <1>5, <1>6

LEMMA ResetKeeps ==
    ASSUME IInv, NEW r \in Runs, Reset(r)
    PROVE  IInv'
<1> DEFINE c == Catalog(r)
           next == [run[r] EXCEPT !.phase = "apply"]
<1>1. /\ run[r].phase = "reset" /\ Running(r)
      /\ configs' = [configs EXCEPT ![c] = Nil]
      /\ records' = [records EXCEPT ![c] = [id \in Ids |-> Nil]]
      /\ wiped' = [q \in Runs |-> IF q # r /\ configs[c] # Nil THEN wiped[q] \cup {c}
                                  ELSE wiped[q]]
      /\ run' = [run EXCEPT ![r] = next]
  BY DEF Reset, To, Running
<1>2. /\ DOMAIN next = Fields /\ next.opts = run[r].opts /\ next.class = run[r].class
      /\ next.phase = "apply" /\ next.offset = run[r].offset
  BY DEF IInv, Typed, Fields
<1>3. next.offset = 0
  BY <1>1, <1>2 DEF IInv, AtBoundary
<1>4. c \in Catalogs
  BY <1>1, CatalogFacts DEF IInv
<1> HIDE DEF next, c
<1>5. /\ run'[r] = next
      /\ \A q \in Runs \ {r} : run'[q] = run[q]
      /\ \A q \in Runs \ {r} : /\ Running(q)' <=> Running(q)
                               /\ Loads(q)' <=> Loads(q)
                               /\ Catalog(q)' = Catalog(q)
                               /\ \A d \in Catalogs : Reached(q, d)' <=> Reached(q, d)
      /\ DOMAIN run' = Runs
      /\ \A q \in Runs :
             /\ DOMAIN run'[q] = Fields
             /\ run'[q].phase \in Phases
             /\ run'[q].phase # "unstarted" =>
                    run'[q].opts \in Options[q] /\ ValidOptions(run'[q].opts)
             /\ Running(q)' => run'[q].class \in DOMAIN ClassesOf(run'[q].opts)
             /\ run'[q].opts = run[q].opts
      /\ AtBoundary'
  <2>1. /\ next.phase \in Phases \ {"unstarted", "fill"} /\ next.offset \in Nat
        /\ next.class \in DOMAIN ClassesOf(next.opts)
    BY <1>1, <1>2, <1>3 DEF IInv, Typed, Running, Phases
  <2> QED
    BY <1>1, <1>2, <1>3, <2>1, OneRuns
<1>6. Typed'
  BY <1>1, <1>4, <1>5 DEF IInv, Typed
<1>7. \A d \in Catalogs, q \in Runs : Loaded(d, q)' = IF d = c THEN {} ELSE Loaded(d, q)
  <2> SUFFICES ASSUME NEW d \in Catalogs, NEW q \in Runs
               PROVE  Loaded(d, q)' = IF d = c THEN {} ELSE Loaded(d, q)
    OBVIOUS
  <2>1. CASE d = c
    <3>1. \A i \in 1 .. MaximumCount : records'[c][<<"load", i>>] # q
      BY <1>1, <1>4, NilAssumption DEF IInv, Typed, Ids
    <3> QED
      BY <2>1, <3>1 DEF Loaded
  <2>2. CASE d # c
    BY <1>1, <2>2 DEF IInv, Typed, Loaded
  <2> QED
    BY <2>1, <2>2
<1>8. \A q \in Runs : wiped[q] \subseteq wiped'[q]
  BY <1>1
<1>9. OnlyReached'
  <2> SUFFICES ASSUME NEW q \in Runs, NEW d \in Catalogs, Loaded(d, q)' # {}
               PROVE  run'[q].opts.tool = "load" /\ Reached(q, d)'
    BY DEF OnlyReached
  <2>1. Loaded(d, q) # {}
    BY <1>7
  <2>2. run[q].opts.tool = "load" /\ Reached(q, d)
    BY <2>1 DEF IInv, OnlyReached
  <2>3. CASE q # r
    BY <1>5, <2>2, <2>3
  <2>4. CASE q = r
    BY <1>1, <1>2, <1>5, <2>2, <2>4 DEF Reached, Running
  <2> QED
    BY <2>3, <2>4
<1>10. Filling'
  <2> SUFFICES ASSUME NEW q \in Runs, Loads(q)', run'[q].phase = "fill", Catalog(q)' \notin wiped'[q]
               PROVE  configs'[Catalog(q)'] # Nil /\ Loaded(Catalog(q), q)' = 1 .. run'[q].offset
    BY DEF Filling
  <2>1. q # r /\ Catalog(q)' = Catalog(q) /\ run'[q] = run[q] /\ Loads(q)
    BY <1>2, <1>5
  <2>2. Catalog(q) \in Catalogs
    BY <2>1, CatalogFacts DEF IInv, Loads
  <2>3. configs[Catalog(q)] # Nil /\ Loaded(Catalog(q), q) = 1 .. run[q].offset
    BY <1>8, <2>1 DEF IInv, Filling
  <2>4. Catalog(q) # c
    BY <1>1, <2>1, <2>3
  <2> QED
    BY <1>1, <1>7, <2>1, <2>2, <2>3, <2>4 DEF IInv, Typed, Loaded
<1>11. Whole'
  BY <1>5, <1>7, <1>8 DEF IInv, Whole
<1>12. Alone'
  BY <1>7, <1>8 DEF IInv, Alone
<1> QED
  BY <1>5, <1>6, <1>9, <1>10, <1>11, <1>12 DEF IInv

LEMMA ApplyKeeps ==
    ASSUME IInv, NEW r \in Runs, ApplyCatalog(r)
    PROVE  IInv'
<1> DEFINE c == Catalog(r)
           o == run[r].opts
           bundle == BundleOf(o, c)
           next == IF o.tool = "configure" THEN NextClass(r) ELSE [run[r] EXCEPT !.phase = "fill"]
<1>1. run[r].phase = "apply" /\ Running(r)
  BY DEF ApplyCatalog, Running
<1>2. CASE Fail(r)
  BY <1>1, <1>2, FailKeeps
<1>3. CASE /\ configs' = [configs EXCEPT ![c] = bundle]
           /\ wiped' = [wiped EXCEPT ![r] = @ \ {c}]
           /\ run' = [run EXCEPT ![r] = next]
           /\ UNCHANGED records
  <2>1. /\ c \in Catalogs /\ o \in Options[r] /\ ValidOptions(o)
        /\ run[r].class \in DOMAIN ClassesOf(o)
        /\ run[r].class = 2 => c = Temporal
    BY <1>1, CatalogFacts DEF IInv, Typed, Running
  <2>2. bundle \in Bundles /\ bundle # Nil
    BY <2>1, OptionFacts, NilAssumption
  <2>3. run[r].offset = 0
    BY <1>1 DEF IInv, AtBoundary
  <2>4. Loaded(c, r) = {} /\ (o.tool # "load" => \A d \in Catalogs : Loaded(d, r) = {})
    BY <1>1, <2>1, OptionsAssumption DEF IInv, OnlyReached, Reached
  <2>5. /\ DOMAIN next = Fields /\ next.opts = o /\ next.offset = 0
        /\ next.class \in DOMAIN ClassesOf(o)
        /\ next.phase \in Phases \ {"unstarted"}
        /\ o.tool = "load" => next.phase = "fill" /\ next.class = run[r].class
    <3>1. CASE o.tool = "configure"
      <4>1. FirstCall(o) \in {"reset", "get", "apply"}
        BY <2>1, OptionFacts
      <4>2. next = NextClass(r)
        BY <3>1
      <4> DEFINE n == NextClass(r)
      <4>3. /\ DOMAIN n = Fields /\ n.opts = o
            /\ \/ n.phase = "done" /\ n.offset = run[r].offset
               \/ /\ n.phase = FirstCall(o) /\ n.offset = 0
                  /\ n.class = 2 /\ 2 \in DOMAIN ClassesOf(o)
        BY <1>1, NextClassFacts
      <4>4. n.class \in DOMAIN ClassesOf(o)
        <5>1. CASE run[r].class < Len(ClassesOf(o))
          <6>1. n = [run[r] EXCEPT !.phase = FirstCall(o), !.class = @ + 1, !.offset = 0]
            BY <5>1 DEF NextClass
          <6>2. n.phase # "done" => n.class \in DOMAIN ClassesOf(o)
            BY <4>3
          <6>3. n.phase = FirstCall(o)
            BY <6>1 DEF IInv, Typed, Fields
          <6> QED
            BY <4>1, <6>2, <6>3
        <5>2. CASE ~ (run[r].class < Len(ClassesOf(o)))
          <6>1. n = [run[r] EXCEPT !.phase = "done"]
            BY <5>2 DEF NextClass
          <6> QED
            BY <2>1, <6>1 DEF IInv, Typed, Fields
        <5> QED
          BY <5>1, <5>2
      <4> HIDE DEF n
      <4> QED
        BY <2>3, <3>1, <4>1, <4>2, <4>3, <4>4 DEF n, Phases
    <3>2. CASE o.tool # "configure"
      BY <2>1, <2>3, <3>2 DEF IInv, Typed, Fields, Phases
    <3> QED
      BY <3>1, <3>2
  <2> HIDE DEF next, bundle
  <2>6. next.phase = "fill" /\ next.opts.tool = "load" =>
            /\ next.offset < next.opts.count
            /\ \E k \in Nat : next.offset = k * next.opts.batch
    <3> SUFFICES ASSUME o.tool = "load"
                 PROVE  0 < o.count /\ \E k \in Nat : 0 = k * o.batch
      BY <2>5
    <3>1. o.batch \in Int /\ o.count \in 1 .. MaximumCount /\ MaximumCount \in Nat
      BY <2>1, OptionsAssumption DEF ValidOptions
    <3> HIDE DEF o
    <3>2. 0 < o.count /\ 0 = 0 * o.batch
      BY <3>1
    <3> QED
      BY <3>2
  <2>7. /\ run'[r] = next
        /\ \A q \in Runs \ {r} : run'[q] = run[q]
        /\ \A q \in Runs \ {r} : /\ Running(q)' <=> Running(q)
                                 /\ Loads(q)' <=> Loads(q)
                                 /\ Catalog(q)' = Catalog(q)
                                 /\ \A d \in Catalogs : Reached(q, d)' <=> Reached(q, d)
        /\ next.class = run[r].class => Catalog(r)' = Catalog(r)
        /\ DOMAIN run' = Runs
        /\ \A q \in Runs :
               /\ DOMAIN run'[q] = Fields
               /\ run'[q].phase \in Phases
               /\ run'[q].phase # "unstarted" =>
                      run'[q].opts \in Options[q] /\ ValidOptions(run'[q].opts)
               /\ Running(q)' => run'[q].class \in DOMAIN ClassesOf(run'[q].opts)
               /\ run'[q].opts = run[q].opts
        /\ AtBoundary'
    <3>1. next.opts = run[r].opts /\ next.offset \in Nat /\ next.class \in DOMAIN ClassesOf(next.opts)
      BY <2>5
    <3> HIDE DEF o, c
    <3> QED
      BY <1>1, <1>3, <2>5, <2>6, <3>1, OneRuns
  <2>8. Typed'
    BY <1>3, <2>1, <2>2, <2>7 DEF IInv, Typed
  <2>9. \A d \in Catalogs, q \in Runs : Loaded(d, q)' = Loaded(d, q)
    BY <1>3 DEF Loaded
  <2>10. \A d \in Catalogs, q \in Runs : Loaded(d, q) # {} /\ d \notin wiped'[q] => d \notin wiped[q]
    BY <1>3, <2>4 DEF IInv, Typed
  <2>11. OnlyReached'
    <3> SUFFICES ASSUME NEW q \in Runs, NEW d \in Catalogs, Loaded(d, q)' # {}
                 PROVE  run'[q].opts.tool = "load" /\ Reached(q, d)'
      BY DEF OnlyReached
    <3>1. Loaded(d, q) # {} /\ run[q].opts.tool = "load" /\ Reached(q, d)
      BY <2>9 DEF IInv, OnlyReached
    <3>2. CASE q # r
      BY <2>7, <3>1, <3>2
    <3>3. CASE q = r
      BY <1>1, <2>5, <2>7, <3>1, <3>3 DEF Reached, Running
    <3> QED
      BY <3>2, <3>3
  <2>12. Filling'
    <3> SUFFICES ASSUME NEW q \in Runs, Loads(q)', run'[q].phase = "fill",
                        Catalog(q)' \notin wiped'[q]
                 PROVE  configs'[Catalog(q)'] # Nil /\ Loaded(Catalog(q), q)' = 1 .. run'[q].offset
      BY DEF Filling
    <3>1. CASE q # r
      <4>1. Catalog(q)' = Catalog(q) /\ run'[q] = run[q] /\ Loads(q)
        BY <2>7, <3>1
      <4>2. Catalog(q) \in Catalogs
        BY <4>1, CatalogFacts DEF IInv, Loads
      <4>3. wiped'[q] = wiped[q]
        BY <1>3, <3>1 DEF IInv, Typed
      <4>4. configs[Catalog(q)] # Nil /\ Loaded(Catalog(q), q) = 1 .. run[q].offset
        BY <4>1, <4>3 DEF IInv, Filling
      <4>5. configs'[Catalog(q)] # Nil
        BY <1>3, <2>2, <4>2, <4>4 DEF IInv, Typed
      <4>6. Loaded(Catalog(q), q)' = Loaded(Catalog(q), q)
        BY <1>3, <4>1 DEF Loaded
      <4> QED
        BY <4>1, <4>4, <4>5, <4>6
    <3>2. CASE q = r
      <4>1. o.tool = "load" /\ Catalog(r)' = c
        BY <2>5, <2>7, <3>2 DEF Loads
      <4>2. configs'[c] = bundle
        BY <1>3, <2>1 DEF IInv, Typed
      <4>3. Loaded(Catalog(r), r)' = {}
        BY <1>3, <2>4, <4>1 DEF Loaded
      <4> QED
        BY <2>2, <2>5, <2>7, <3>2, <4>1, <4>2, <4>3
    <3> QED
      BY <3>1, <3>2
  <2>13. Whole'
    BY <2>7, <2>9, <2>10 DEF IInv, Whole
  <2>14. Alone'
    <3> SUFFICES ASSUME NEW p \in Runs, NEW q \in Runs, NEW d \in Catalogs,
                        Loaded(d, p) # {}, d \notin wiped'[p], q # p, Loaded(d, q) # {}
                 PROVE  d \in wiped'[q]
      BY <2>9 DEF Alone
    <3>1. d \in wiped[q]
      BY <2>10 DEF IInv, Alone
    <3> QED
      BY <2>10, <3>1
  <2> QED
    BY <2>7, <2>8, <2>11, <2>12, <2>13, <2>14 DEF IInv
<1> QED
  BY <1>2, <1>3 DEF ApplyCatalog

\* The demo has identifiers of its own.
LEMMA PutKeeps ==
    ASSUME IInv, NEW r \in Runs, Put(r)
    PROVE  IInv'
<1> DEFINE c == Catalog(r)
           o == run[r].opts
           id == <<"demo", run[r].offset + 1>>
           step == [run[r] EXCEPT !.offset = @ + 1,
                                  !.created = IF records[c][id] = Nil THEN @ + 1 ELSE @,
                                  !.replaced = IF records[c][id] = Nil THEN @ ELSE @ + 1]
           next == IF step.offset < step.opts.count THEN step ELSE [step EXCEPT !.phase = "done"]
<1>1. run[r].phase = "fill" /\ Running(r) /\ o.tool = "demo"
  BY DEF Put, Running
<1>2. CASE Fail(r)
  BY <1>1, <1>2, FailKeeps
<1>3. CASE /\ records' = [records EXCEPT ![c][id] = r]
           /\ run' = [run EXCEPT ![r] = next]
           /\ UNCHANGED <<configs, wiped>>
  <2>1. c \in Catalogs /\ o \in Options[r] /\ run[r].class \in DOMAIN ClassesOf(o)
    BY <1>1, CatalogFacts DEF IInv, Typed, Running
  <2>2. /\ DOMAIN step = Fields /\ step.opts = o /\ step.class = run[r].class
        /\ step.offset = run[r].offset + 1 /\ step.phase = "fill"
    BY <1>1 DEF IInv, Typed, Fields
  <2> HIDE DEF step
  <2>3. /\ DOMAIN next = Fields /\ next.opts = o /\ next.class = run[r].class
        /\ next.offset = run[r].offset + 1 /\ next.phase \in {"fill", "done"}
    BY <2>2 DEF Fields
  <2> HIDE DEF next
  <2>4. run[r].offset \in Nat /\ next.offset \in Nat
    BY <2>3 DEF IInv, AtBoundary
  <2>5. /\ run'[r] = next
        /\ \A q \in Runs \ {r} : run'[q] = run[q]
        /\ \A q \in Runs \ {r} : /\ Running(q)' <=> Running(q)
                                 /\ Loads(q)' <=> Loads(q)
                                 /\ Catalog(q)' = Catalog(q)
                                 /\ \A d \in Catalogs : Reached(q, d)' <=> Reached(q, d)
        /\ DOMAIN run' = Runs
        /\ \A q \in Runs :
               /\ DOMAIN run'[q] = Fields
               /\ run'[q].phase \in Phases
               /\ run'[q].phase # "unstarted" =>
                      run'[q].opts \in Options[q] /\ ValidOptions(run'[q].opts)
               /\ Running(q)' => run'[q].class \in DOMAIN ClassesOf(run'[q].opts)
               /\ run'[q].opts = run[q].opts
        /\ AtBoundary'
    <3>1. /\ next.opts = run[r].opts /\ next.class \in DOMAIN ClassesOf(next.opts)
          /\ next.phase \in Phases \ {"unstarted"}
          /\ next.phase \notin {"reset", "get", "count", "apply"} /\ next.opts.tool # "load"
      BY <1>1, <2>1, <2>3 DEF Phases
    <3> HIDE DEF o, c
    <3> QED
      BY <1>1, <1>3, <2>3, <2>4, <3>1, OneRuns
  <2>6. Typed'
    <3>1. records' \in [Catalogs -> [Ids -> Runs \cup {Nil}]]
      BY <1>3, <2>1 DEF IInv, Typed
    <3> QED
      BY <1>3, <2>5, <3>1 DEF IInv, Typed
  <2>7. \A d \in Catalogs, q \in Runs : Loaded(d, q)' = Loaded(d, q)
    <3> SUFFICES ASSUME NEW d \in Catalogs, NEW q \in Runs
                 PROVE  Loaded(d, q)' = Loaded(d, q)
      OBVIOUS
    <3>1. \A i \in 1 .. MaximumCount : records'[d][<<"load", i>>] = records[d][<<"load", i>>]
      <4> SUFFICES ASSUME NEW i \in 1 .. MaximumCount
                   PROVE  records'[d][<<"load", i>>] = records[d][<<"load", i>>]
        OBVIOUS
      <4> DEFINE j == <<"load", i>>
      <4>1. j # id /\ j \in Ids
        BY DEF Ids
      <4> HIDE DEF j, id, c
      <4>2. records'[d][j] = records[d][j]
        BY <1>3, <2>1, <4>1 DEF IInv, Typed
      <4> QED
        BY <4>2 DEF j
    <3> QED
      BY <3>1 DEF Loaded
  <2>8. \A d \in Catalogs : Loaded(d, r) = {}
    BY <1>1 DEF IInv, OnlyReached
  <2>9. OnlyReached'
    BY <2>5, <2>7, <2>8 DEF IInv, OnlyReached
  <2>10. Filling'
    <3> SUFFICES ASSUME NEW q \in Runs, Loads(q)', run'[q].phase = "fill",
                        Catalog(q)' \notin wiped'[q]
                 PROVE  configs'[Catalog(q)'] # Nil /\ Loaded(Catalog(q), q)' = 1 .. run'[q].offset
      BY DEF Filling
    <3>1. q # r
      BY <1>1, <2>5 DEF Loads
    <3>2. Catalog(q)' = Catalog(q) /\ run'[q] = run[q] /\ Loads(q)
      BY <2>5, <3>1
    <3>3. Catalog(q) \in Catalogs
      BY <3>2, CatalogFacts DEF IInv, Loads
    <3>4. configs[Catalog(q)] # Nil /\ Loaded(Catalog(q), q) = 1 .. run[q].offset
      BY <1>3, <3>2 DEF IInv, Filling
    <3>5. Loaded(Catalog(q), q)' = Loaded(Catalog(q), q)
      <4> DEFINE d == Catalog(q)
      <4>1. Catalog(q)' = d /\ d \in Catalogs
        BY <3>2, <3>3
      <4> HIDE DEF d
      <4>2. \A i \in 1 .. MaximumCount : records'[d][<<"load", i>>] = q <=> records[d][<<"load", i>>] = q
        BY <2>7, <4>1 DEF Loaded
      <4> QED
        BY <4>1, <4>2 DEF Loaded, d
    <3> QED
      BY <1>3, <3>2, <3>4, <3>5
  <2>11. Whole'
    BY <1>3, <2>5, <2>7 DEF IInv, Whole
  <2>12. Alone'
    BY <1>3, <2>7 DEF IInv, Alone
  <2> QED
    BY <2>5, <2>6, <2>9, <2>10, <2>11, <2>12 DEF IInv
<1> QED
  BY <1>1, <1>2, <1>3 DEF Put

-----------------------------------------------------------------------------
(* Batches.                                                                *)

\* A boundary is followed by the next one, or by the end.
LEMMA NextBoundary ==
    ASSUME NEW b \in Nat, b >= 1, NEW k \in Nat
    PROVE  /\ k * b + b = (k + 1) * b
           /\ k <= k * b
<1>1. k * b + b = (k + 1) * b
  OBVIOUS
<1>2. k <= k * b
  <2>1. PICK e \in Nat : b = 1 + e
    <3>1. b - 1 \in Nat /\ b = 1 + (b - 1)
      OBVIOUS
    <3> QED
      BY <3>1
  <2>2. k * b = k + k * e
    BY <2>1
  <2>3. k * e \in Nat
    BY <2>1
  <2> QED
    BY <2>2, <2>3
<1> QED
  BY <1>1, <1>2

\* A boundary that is not the beginning has a first record before it.
LEMMA FirstIsLoaded ==
    ASSUME IInv, NEW c \in Catalogs, NEW q \in Runs, Loaded(c, q) # {}, c \notin wiped[q]
    PROVE  1 \in Loaded(c, q)
<1>1. PICK n \in Boundaries(run[q].opts) : Loaded(c, q) = 1 .. n
  BY DEF IInv, Whole
<1>2. run[q].opts.tool = "load" /\ run[q].phase # "unstarted"
  BY DEF IInv, OnlyReached, Reached, Running
<1>3. run[q].opts.count \in Int /\ run[q].opts.batch \in Int
  BY <1>2, OptionsAssumption DEF IInv, Typed
<1>4. n \in Int
  BY <1>3 DEF Boundaries
<1> QED
  BY <1>1, <1>4

LEMMA BulkKeeps ==
    ASSUME IInv, NEW r \in Runs, BulkCreate(r)
    PROVE  IInv'
<1>0. PICK c \in Catalogs : c = Catalog(r)
  <2>1. Running(r)
    BY DEF BulkCreate, Running
  <2> QED
    BY <2>1, CatalogFacts DEF IInv
<1> DEFINE o == run[r].opts
           off == run[r].offset
           B == Batch(r)
           end == off + o.batch
           next == [run[r] EXCEPT !.offset = end, !.created = @ + Cardinality(B),
                                  !.phase = IF end < o.count THEN @ ELSE "analyze"]
<1>1. run[r].phase = "fill" /\ Running(r) /\ o.tool = "load" /\ Loads(r)
  BY DEF BulkCreate, Running, Loads
<1>2. CASE Fail(r)
  BY <1>1, <1>2, FailKeeps
<1>3. CASE /\ configs[c] # Nil /\ B \cap Live(c) = {}
           /\ records' = [records EXCEPT ![c] = [id \in Ids |-> IF id \in B THEN r ELSE @[id]]]
           /\ run' = [run EXCEPT ![r] = next]
           /\ UNCHANGED <<configs, wiped>>
  <2>1. /\ o \in Options[r] /\ ValidOptions(o) /\ run[r].class \in DOMAIN ClassesOf(o)
    BY <1>1 DEF IInv, Typed, Running
  <2>2. o.count \in 1 .. MaximumCount /\ MaximumCount \in Nat /\ o.batch \in Nat /\ o.batch >= 1
    BY <1>1, <2>1, OptionsAssumption DEF ValidOptions
  <2>3. PICK k \in Nat : off \in Nat /\ off < o.count /\ off = k * o.batch
    BY <1>1 DEF IInv, AtBoundary
  <2>4. /\ DOMAIN next = Fields /\ next.opts = o /\ next.class = run[r].class
        /\ next.offset = end
        /\ next.phase = IF end < o.count THEN "fill" ELSE "analyze"
    BY <1>1 DEF IInv, Typed, Fields
  <2> HIDE DEF next
  <2>5. /\ end \in Nat /\ end = (k + 1) * o.batch /\ k + 1 \in Nat /\ k + 1 <= end
    <3> DEFINE b == o.batch
    <3>1. b \in Nat /\ b >= 1 /\ off = k * b /\ off \in Nat
      BY <2>2, <2>3
    <3> HIDE DEF b, off
    <3>2. off + b = (k + 1) * b
      BY <3>1, NextBoundary
    <3>3. k + 1 <= (k + 1) * b
      BY <3>1, NextBoundary
    <3>4. off + b \in Nat
      BY <3>1
    <3> QED
      BY <3>2, <3>3, <3>4 DEF b
  <2>6. /\ run'[r] = next
        /\ \A q \in Runs \ {r} : run'[q] = run[q]
        /\ \A q \in Runs \ {r} : /\ Running(q)' <=> Running(q)
                                 /\ Loads(q)' <=> Loads(q)
                                 /\ Catalog(q)' = Catalog(q)
                                 /\ \A d \in Catalogs : Reached(q, d)' <=> Reached(q, d)
        /\ Catalog(r)' = c
        /\ DOMAIN run' = Runs
        /\ \A q \in Runs :
               /\ DOMAIN run'[q] = Fields
               /\ run'[q].phase \in Phases
               /\ run'[q].phase # "unstarted" =>
                      run'[q].opts \in Options[q] /\ ValidOptions(run'[q].opts)
               /\ Running(q)' => run'[q].class \in DOMAIN ClassesOf(run'[q].opts)
               /\ run'[q].opts = run[q].opts
        /\ AtBoundary'
    <3>1. /\ next.opts = run[r].opts /\ next.class \in DOMAIN ClassesOf(next.opts)
          /\ next.phase \in Phases \ {"unstarted"} /\ next.offset \in Nat
          /\ next.phase \notin {"reset", "get", "count", "apply"}
      BY <2>1, <2>4, <2>5 DEF Phases
    <3>2. next.phase = "fill" /\ next.opts.tool = "load" =>
              /\ next.offset < next.opts.count
              /\ \E j \in Nat : next.offset = j * next.opts.batch
      BY <2>4, <2>5
    <3> HIDE DEF o, end, off
    <3> QED
      BY <1>0, <1>1, <1>3, <2>4, <3>1, <3>2, OneRuns
  <2>7. \A i \in 1 .. MaximumCount :
            <<"load", i>> \in B <=> i <= o.count /\ off < i /\ i <= end
    BY <2>2, <2>3 DEF Batch
  <2>8. B \subseteq Ids
    BY <2>2 DEF Batch, Ids
  <2> HIDE DEF B
  <2>9. Typed'
    <3>1. records' \in [Catalogs -> [Ids -> Runs \cup {Nil}]]
      BY <1>3, <2>1 DEF IInv, Typed
    <3> QED
      BY <1>3, <2>6, <3>1 DEF IInv, Typed
  <2>10. \A d \in Catalogs \ {c} : records'[d] = records[d]
    BY <1>3 DEF IInv, Typed
  <2>11. \A id \in Ids : records'[c][id] = IF id \in B THEN r ELSE records[c][id]
    BY <1>3, <2>1 DEF IInv, Typed
  <2>12. \A id \in B : records[c][id] = Nil
    BY <1>3, <2>8 DEF Live
  <2>13. \A i \in 1 .. MaximumCount : <<"load", i>> \in Ids
    BY DEF Ids
  <2>14. \A d \in Catalogs \ {c}, q \in Runs : Loaded(d, q)' = Loaded(d, q)
    BY <2>10 DEF Loaded
  <2>15. \A q \in Runs \ {r} : Loaded(c, q)' = Loaded(c, q)
    <3> SUFFICES ASSUME NEW q \in Runs \ {r}
                 PROVE  Loaded(c, q)' = Loaded(c, q)
      OBVIOUS
    <3>1. \A i \in 1 .. MaximumCount :
              records'[c][<<"load", i>>] = q <=> records[c][<<"load", i>>] = q
      BY <2>11, <2>12, <2>13, NilAssumption
    <3> QED
      BY <3>1 DEF Loaded
  <2>16. Loaded(c, r)' = {i \in 1 .. MaximumCount : records'[c][<<"load", i>>] = r}
    BY DEF Loaded
  <2>17. c \notin wiped[r] => Loaded(c, r)' = 1 .. (IF end < o.count THEN end ELSE o.count)
    <3> SUFFICES ASSUME c \notin wiped[r]
                 PROVE  Loaded(c, r)' = 1 .. (IF end < o.count THEN end ELSE o.count)
      OBVIOUS
    <3>1. Loaded(c, r) = 1 .. off
      BY <1>0, <1>1 DEF IInv, Filling
    <3> DEFINE n == o.count
    <3>2. n \in 1 .. MaximumCount /\ off \in Nat /\ end \in Nat /\ off < n /\ off <= end
      BY <2>2, <2>3, <2>5
    <3> HIDE DEF n, off, end
    <3>3. \A i \in 1 .. MaximumCount : records[c][<<"load", i>>] = r <=> i <= off
      <4> SUFFICES ASSUME NEW i \in 1 .. MaximumCount
                   PROVE  records[c][<<"load", i>>] = r <=> i <= off
        OBVIOUS
      <4>1. i \in Loaded(c, r) <=> records[c][<<"load", i>>] = r
        BY DEF Loaded
      <4>2. i \in 1 .. off <=> i <= off
        BY <2>2, <3>2
      <4> QED
        BY <3>1, <4>1, <4>2
    <3>4. \A i \in 1 .. MaximumCount :
              records'[c][<<"load", i>>] = r <=> i <= off \/ (i <= n /\ off < i /\ i <= end)
      BY <2>7, <2>11, <2>13, <3>3 DEF n
    <3> QED
      BY <2>2, <2>16, <3>2, <3>4 DEF n
  <2>18. \A q \in Runs \ {r} : Loaded(c, q) # {} /\ c \notin wiped[r] => c \in wiped[q]
    <3> SUFFICES ASSUME NEW q \in Runs \ {r}, Loaded(c, q) # {}, c \notin wiped[r],
                        c \notin wiped[q]
                 PROVE  FALSE
      OBVIOUS
    <3>1. 1 \in Loaded(c, q)
      BY <2>1, FirstIsLoaded
    <3>2. CASE off = 0
      <4>1. 1 \in 1 .. MaximumCount /\ records[c][<<"load", 1>>] = q
        BY <2>2, <3>1 DEF Loaded
      <4>2. <<"load", 1>> \in B
        BY <2>2, <2>7, <3>2
      <4> QED
        BY <2>12, <4>1, <4>2, NilAssumption
    <3>3. CASE off # 0
      <4>1. Loaded(c, r) = 1 .. off
        BY <1>0, <1>1 DEF IInv, Filling
      <4>2. Loaded(c, r) # {}
        BY <2>3, <3>3, <4>1
      <4> QED
        BY <2>1, <4>2 DEF IInv, Alone
    <3> QED
      BY <3>2, <3>3
  <2>19. OnlyReached'
    <3> SUFFICES ASSUME NEW q \in Runs, NEW d \in Catalogs, Loaded(d, q)' # {}
                 PROVE  run'[q].opts.tool = "load" /\ Reached(q, d)'
      BY DEF OnlyReached
    <3>1. CASE q # r
      <4>1. Loaded(d, q) # {}
        BY <2>14, <2>15, <3>1
      <4> QED
        BY <2>6, <3>1, <4>1 DEF IInv, OnlyReached
    <3>2. CASE q = r /\ d = c
      BY <1>0, <1>1, <2>4, <2>6, <3>2 DEF Reached
    <3>3. CASE q = r /\ d # c
      <4>1. Loaded(d, r) # {}
        BY <2>14, <3>3
      <4>2. Reached(r, d)
        BY <4>1 DEF IInv, OnlyReached
      <4> QED
        BY <1>0, <1>1, <2>4, <2>6, <3>3, <4>2 DEF Reached, Running
    <3> QED
      BY <3>1, <3>2, <3>3
  <2>20. Filling'
    <3> SUFFICES ASSUME NEW q \in Runs, Loads(q)', run'[q].phase = "fill",
                        Catalog(q)' \notin wiped'[q]
                 PROVE  configs'[Catalog(q)'] # Nil /\ Loaded(Catalog(q), q)' = 1 .. run'[q].offset
      BY DEF Filling
    <3>1. CASE q = r
      <4>1. end < o.count /\ c \notin wiped[r]
        BY <1>3, <2>4, <2>6, <3>1
      <4>2. Loaded(c, r)' = 1 .. end
        BY <2>17, <4>1
      <4>3. Loaded(Catalog(r), r)' = Loaded(c, r)'
        BY <2>6 DEF Loaded
      <4> QED
        BY <1>3, <2>4, <2>6, <3>1, <4>2, <4>3
    <3>2. CASE q # r
      <4> DEFINE d == Catalog(q)
      <4>1. Catalog(q)' = d /\ run'[q] = run[q] /\ Loads(q)
        BY <2>6, <3>2
      <4>2. d \in Catalogs
        BY <4>1, CatalogFacts DEF IInv, Loads
      <4>3. configs[d] # Nil /\ Loaded(d, q) = 1 .. run[q].offset
        BY <1>3, <4>1 DEF IInv, Filling
      <4> HIDE DEF d
      <4>4. \A i \in 1 .. MaximumCount :
                records'[d][<<"load", i>>] = q <=> records[d][<<"load", i>>] = q
        BY <2>10, <2>11, <2>12, <2>13, <3>2, <4>2, NilAssumption
      <4>5. Loaded(Catalog(q), q)' = Loaded(d, q)
        BY <4>1, <4>4 DEF Loaded
      <4> QED
        BY <1>3, <4>1, <4>3, <4>5
    <3> QED
      BY <3>1, <3>2
  <2>21. Whole'
    <3> SUFFICES ASSUME NEW q \in Runs, NEW d \in Catalogs, Loaded(d, q)' # {},
                        d \notin wiped[q]
                 PROVE  \E n \in Boundaries(run[q].opts) : Loaded(d, q)' = 1 .. n
      BY <1>3, <2>6 DEF Whole
    <3>1. CASE q # r \/ d # c
      <4>1. Loaded(d, q)' = Loaded(d, q)
        BY <2>14, <2>15, <3>1
      <4> QED
        BY <4>1 DEF IInv, Whole
    <3>2. CASE q = r /\ d = c
      <4> DEFINE n == IF end < o.count THEN end ELSE o.count
      <4>1. n \in Boundaries(o)
        <5>1. CASE end < o.count
          <6>1. k + 1 \in 0 .. o.count /\ (k + 1) * o.batch <= o.count
            BY <2>2, <2>5, <5>1
          <6> QED
            BY <2>5, <5>1, <6>1 DEF Boundaries
        <5>2. CASE ~ (end < o.count)
          BY <5>2 DEF Boundaries
        <5> QED
          BY <5>1, <5>2
      <4>2. Loaded(d, q)' = 1 .. n
        BY <2>17, <3>2
      <4> QED
        BY <3>2, <4>1, <4>2
    <3> QED
      BY <3>1, <3>2
  <2>22. Alone'
    <3> SUFFICES ASSUME NEW p \in Runs, NEW q \in Runs, NEW d \in Catalogs,
                        Loaded(d, p)' # {}, d \notin wiped[p], q # p, Loaded(d, q)' # {}
                 PROVE  d \in wiped[q]
      BY <1>3 DEF Alone
    <3>1. CASE d # c \/ (p # r /\ q # r)
      <4>1. Loaded(d, p) # {} /\ Loaded(d, q) # {}
        BY <2>14, <2>15, <3>1
      <4> QED
        BY <4>1 DEF IInv, Alone
    <3>2. CASE d = c /\ p = r
      <4>1. Loaded(c, q) # {}
        BY <2>15, <3>2
      <4> QED
        BY <2>18, <3>2, <4>1
    <3>3. CASE d = c /\ q = r
      <4>1. Loaded(c, p) # {}
        BY <2>15, <3>3
      <4> QED
        BY <2>18, <3>3, <4>1
    <3> QED
      BY <3>1, <3>2, <3>3
  <2> QED
    BY <2>6, <2>9, <2>19, <2>20, <2>21, <2>22 DEF IInv
<1>4. /\ configs[c] # Nil /\ B \cap Live(c) = {}
      /\ records' = [records EXCEPT ![c] = [id \in Ids |-> IF id \in B THEN r ELSE @[id]]]
      /\ run' = [run EXCEPT ![r] = next]
      /\ UNCHANGED <<configs, wiped>>
      \/ Fail(r)
  BY <1>0 DEF BulkCreate
<1> QED
  BY <1>2, <1>3, <1>4

-----------------------------------------------------------------------------
(* The theorems.                                                           *)

LEMMA InitHolds == Init => IInv
<1> SUFFICES ASSUME Init
             PROVE  IInv
  OBVIOUS
<1>1. Typed
  BY DEF Init, Typed, Unstarted, Fields, Phases, Running
<1>2. AtBoundary
  BY DEF Init, AtBoundary, Unstarted, Loads, Running
<1>3. \A r \in Runs, c \in Catalogs : Loaded(c, r) = {}
  BY NilAssumption DEF Init, Loaded, Ids
<1>4. OnlyReached /\ Whole /\ Alone
  BY <1>3 DEF OnlyReached, Whole, Alone
<1>5. Filling
  BY DEF Init, Filling, Unstarted, Loads, Running
<1> QED
  BY <1>1, <1>2, <1>4, <1>5 DEF IInv

LEMMA StepHolds == IInv /\ [Next]_vars => IInv'
<1> SUFFICES ASSUME IInv, [Next]_vars
             PROVE  IInv'
  OBVIOUS
<1>1. CASE UNCHANGED vars
  <2>1. configs' = configs /\ records' = records /\ run' = run /\ wiped' = wiped
    BY <1>1 DEF vars
  <2>2. Typed' /\ AtBoundary'
    BY <2>1 DEF IInv, Typed, AtBoundary, Loads, Running
  <2>3. \A q \in Runs, d \in Catalogs : Loaded(d, q)' = Loaded(d, q)
    BY <2>1 DEF Loaded
  <2>4. \A q \in Runs, d \in Catalogs : Reached(q, d)' <=> Reached(q, d)
    BY <2>1 DEF Reached, Running, Catalog
  <2>5. OnlyReached'
    BY <2>1, <2>3, <2>4 DEF IInv, OnlyReached
  <2>6. Whole'
    <3>1. \A q \in Runs : run'[q].opts = run[q].opts
      BY <2>1
    <3> QED
      BY <2>1, <2>3, <3>1 DEF IInv, Whole
  <2>7. Alone'
    BY <2>1, <2>3 DEF IInv, Alone
  <2>8. Filling'
    BY <2>1 DEF IInv, Filling, Loaded, Loads, Running, Catalog
  <2> QED
    BY <2>2, <2>5, <2>6, <2>7, <2>8 DEF IInv
<1>2. ASSUME NEW r \in Runs, Begin(r)
      PROVE  IInv'
  BY <1>2, BeginKeeps
<1>3. ASSUME NEW r \in Runs, Reset(r)
      PROVE  IInv'
  BY <1>3, ResetKeeps
<1>4. ASSUME NEW r \in Runs, GetCatalog(r)
      PROVE  IInv'
  <2>1. Running(r)
    BY <1>4 DEF GetCatalog, Running
  <2> QED
    BY <1>4, <2>1, ToKeeps DEF GetCatalog
<1>5. ASSUME NEW r \in Runs, CountRecords(r)
      PROVE  IInv'
  <2>1. Running(r)
    BY <1>5 DEF CountRecords, Running
  <2> QED
    BY <1>5, <2>1, ToKeeps DEF CountRecords, Fail
<1>6. ASSUME NEW r \in Runs, ApplyCatalog(r)
      PROVE  IInv'
  BY <1>6, ApplyKeeps
<1>7. ASSUME NEW r \in Runs, Put(r)
      PROVE  IInv'
  BY <1>7, PutKeeps
<1>8. ASSUME NEW r \in Runs, BulkCreate(r)
      PROVE  IInv'
  BY <1>8, BulkKeeps
<1>9. ASSUME NEW r \in Runs, AnalyzeCatalog(r)
      PROVE  IInv'
  <2>1. Running(r)
    BY <1>9 DEF AnalyzeCatalog, Running
  <2> QED
    BY <1>9, <2>1, FailKeeps, NextClassKeeps DEF AnalyzeCatalog
<1>10. ASSUME NEW r \in Runs, Interrupt(r)
       PROVE  IInv'
  BY <1>10, FailKeeps DEF Interrupt
<1> QED
  BY <1>1, <1>2, <1>3, <1>4, <1>5, <1>6, <1>7, <1>8, <1>9, <1>10 DEF Next, Rest

\* Runs of the tools keep the invariant, wherever they are killed.
THEOREM Invariant == Spec => []IInv
<1> QED
  BY InitHolds, StepHolds, PTL DEF Spec

\* Two loads never mix their records and none leaves a part of a batch, unless a
\* reset has deleted the catalog in between: for any number of runs (loadtest.go:99).
THEOREM BatchesStayWhole == Spec => []LoadsDoNotMix
<1>1. IInv => LoadsDoNotMix
  BY DEF IInv, Whole, Alone, LoadsDoNotMix
<1> QED
  BY Invariant, <1>1, PTL

-----------------------------------------------------------------------------
(* What success means.                                                     *)

CatalogOf(t) == ClassesOf(t.opts)[t.class]

\* The counts of a run that has not failed are those of the catalogs before the
\* one at hand, and of what it has written of this one.
Tally(t) ==
    /\ t.created \in Nat /\ t.replaced \in Nat
    /\ t.phase = "unstarted" => t.created = 0 /\ t.replaced = 0
    /\ t.phase \in {"get", "count", "analyze"} => t.opts.tool = "load"
    /\ t.phase = "fill" => t.opts.tool # "configure" /\ t.offset < t.opts.count
    /\ t.phase \notin {"unstarted", "failed"} /\ t.opts.tool # "configure" =>
           /\ t.phase \in {"reset", "get", "count", "apply"} =>
                  t.created + t.replaced = (t.class - 1) * t.opts.count
           /\ t.phase = "fill" => t.created + t.replaced = (t.class - 1) * t.opts.count + t.offset
           /\ t.phase = "analyze" => t.created + t.replaced = t.class * t.opts.count
           /\ t.phase = "done" => t.created + t.replaced = t.opts.count * Len(ClassesOf(t.opts))

\* Record i of catalog c is one that the run says it has written.
Owes(t, c, i) ==
    /\ t.phase \notin {"unstarted", "failed"} /\ t.opts.tool # "configure"
    /\ i <= t.opts.count
    /\ \/ t.phase = "done" /\ \E k \in DOMAIN ClassesOf(t.opts) : ClassesOf(t.opts)[k] = c
       \/ t.phase # "done" /\ t.class = 2 /\ c = Transactional
       \/ t.phase = "analyze" /\ c = CatalogOf(t)
       \/ t.phase = "fill" /\ c = CatalogOf(t) /\ i <= t.offset

Written(r, c, i) ==
    IF run[r].opts.tool = "load" THEN records[c][<<"load", i>>] = r
    ELSE records[c][<<"demo", i>>] # Nil

Tallied == \A r \in Runs : Tally(run[r])

Kept ==
    \A r \in Runs, c \in Catalogs, i \in 1 .. MaximumCount :
        Owes(run[r], c, i) /\ c \notin wiped[r] => Written(r, c, i)

\* A deleted catalog has no records.
Vacant == \A c \in Catalogs : configs[c] = Nil => \A id \in Ids : records[c][id] = Nil

Success == Tallied /\ Kept /\ Vacant

LEMMA RunFacts ==
    ASSUME IInv, NEW r \in Runs, Running(r)
    PROVE  /\ DOMAIN run[r] = Fields /\ run[r].opts \in Options[r] /\ ValidOptions(run[r].opts)
           /\ run[r].class \in {1, 2} /\ Len(ClassesOf(run[r].opts)) \in {1, 2}
           /\ run[r].class <= Len(ClassesOf(run[r].opts))
           /\ run[r].offset \in Nat
           /\ run[r].opts.tool # "configure" =>
                  run[r].opts.count \in 1 .. MaximumCount /\ run[r].opts.count \in Nat
           /\ CatalogOf(run[r]) = Catalog(r) /\ Catalog(r) \in Catalogs
           /\ run[r].class = 2 => Catalog(r) = Temporal /\ Catalog(r) # Transactional
           /\ run[r].opts.tool = "demo" => run[r].class = 1 /\ Len(ClassesOf(run[r].opts)) = 1
                                           /\ ClassesOf(run[r].opts) = <<Catalog(r)>>
<1> DEFINE o == run[r].opts
<1>1. /\ DOMAIN run[r] = Fields /\ o \in Options[r] /\ ValidOptions(o)
      /\ run[r].class \in DOMAIN ClassesOf(o) /\ run[r].offset \in Nat
  BY DEF IInv, Typed, AtBoundary, Running
<1>2. /\ DOMAIN ClassesOf(o) = 1 .. Len(ClassesOf(o)) /\ Len(ClassesOf(o)) \in {1, 2}
      /\ o.tool = "demo" => ClassesOf(o) = <<o.catalog>>
  BY <1>1, OptionFacts
<1>3. run[r].class \in {1, 2} /\ run[r].class <= Len(ClassesOf(o))
  <2> DEFINE n == Len(ClassesOf(o))
             k == run[r].class
  <2>1. n \in {1, 2} /\ k \in 1 .. n
    BY <1>1, <1>2
  <2> HIDE DEF n, k
  <2>2. k \in {1, 2} /\ k <= n
    BY <2>1
  <2> QED
    BY <2>2 DEF n, k
<1>4. o.tool # "configure" => o.count \in 1 .. MaximumCount /\ o.count \in Nat
  BY <1>1, OptionsAssumption DEF ValidOptions
<1>5. /\ CatalogOf(run[r]) = Catalog(r) /\ Catalog(r) \in Catalogs
      /\ run[r].class = 2 => Catalog(r) = Temporal /\ Catalog(r) # Transactional
  BY CatalogFacts, OptionsAssumption DEF CatalogOf, Catalog, IInv
<1>6. o.tool = "demo" => Len(ClassesOf(o)) = 1 /\ run[r].class = 1
                         /\ ClassesOf(o) = <<Catalog(r)>>
  <2> SUFFICES ASSUME o.tool = "demo"
               PROVE  Len(ClassesOf(o)) = 1 /\ run[r].class = 1 /\ ClassesOf(o) = <<Catalog(r)>>
    OBVIOUS
  <2>1. ClassesOf(o) = <<o.catalog>>
    BY <1>2
  <2>2. Len(ClassesOf(o)) = 1
    BY <2>1
  <2> DEFINE k == run[r].class
  <2>3. k \in {1, 2} /\ k <= 1
    BY <1>3, <2>2
  <2> HIDE DEF k
  <2>4. k = 1
    BY <2>3
  <2>5. Catalog(r) = o.catalog
    BY <2>1, <2>4 DEF Catalog, k
  <2> QED
    BY <2>1, <2>2, <2>4, <2>5 DEF k
<1> QED
  BY <1>1, <1>2, <1>3, <1>4, <1>5, <1>6

\* A step of run r that keeps what the others have written.
LEMMA OneSucceeds ==
    ASSUME IInv, Success, NEW r \in Runs, NEW next,
           run' = [run EXCEPT ![r] = next], Tally(next), Vacant',
           \A q \in Runs \ {r}, c \in Catalogs, i \in 1 .. MaximumCount :
               Written(q, c, i) /\ c \notin wiped'[q] => c \notin wiped[q] /\ Written(q, c, i)',
           \A q \in Runs \ {r}, c \in Catalogs : c \notin wiped'[q] => c \notin wiped[q],
           \A c \in Catalogs, i \in 1 .. MaximumCount :
               Owes(next, c, i) /\ c \notin wiped'[r] => Written(r, c, i)'
    PROVE  Success'
<1>1. run'[r] = next /\ \A q \in Runs \ {r} : run'[q] = run[q]
  BY DEF IInv, Typed
<1>2. Tallied'
  BY <1>1 DEF Success, Tallied
<1>3. Kept'
  <2> SUFFICES ASSUME NEW q \in Runs, NEW c \in Catalogs, NEW i \in 1 .. MaximumCount,
                      Owes(run'[q], c, i), c \notin wiped'[q]
               PROVE  Written(q, c, i)'
    BY DEF Kept
  <2>1. CASE q = r
    BY <1>1, <2>1
  <2>2. CASE q # r
    BY <1>1, <2>2 DEF Success, Kept
  <2> QED
    BY <2>1, <2>2
<1> QED
  BY <1>2, <1>3 DEF Success

\* A run that only moves owes no more than before.
LEMMA MovesSucceed ==
    ASSUME IInv, Success, NEW r \in Runs, NEW next,
           run' = [run EXCEPT ![r] = next], UNCHANGED <<configs, records, wiped>>, Tally(next),
           \A c \in Catalogs, i \in 1 .. MaximumCount :
               Owes(next, c, i) => Owes(run[r], c, i) /\ next.opts = run[r].opts
    PROVE  Success'
<1>1. run'[r] = next /\ \A q \in Runs \ {r} : run'[q] = run[q]
  BY DEF IInv, Typed
<1>2. \A q \in Runs, c \in Catalogs, i \in 1 .. MaximumCount :
          run'[q].opts = run[q].opts => (Written(q, c, i)' <=> Written(q, c, i))
  BY DEF Written
<1>3. \A c \in Catalogs, i \in 1 .. MaximumCount :
          Owes(next, c, i) /\ c \notin wiped'[r] => Written(r, c, i)'
  BY <1>1, <1>2 DEF Success, Kept
<1>4. Vacant'
  BY DEF Success, Vacant
<1> QED
  BY <1>1, <1>2, <1>3, <1>4, OneSucceeds

LEMMA BeginSucceeds == ASSUME IInv, Success, NEW r \in Runs, Begin(r) PROVE Success'
<1>1. PICK o \in Options[r] :
         /\ ValidOptions(o)
         /\ run' = [run EXCEPT ![r].phase = FirstCall(o), ![r].opts = o, ![r].class = 1]
  BY DEF Begin
<1> DEFINE next == [run[r] EXCEPT !.phase = FirstCall(o), !.opts = o, !.class = 1]
<1>2. run' = [run EXCEPT ![r] = next] /\ run[r].phase = "unstarted"
  BY <1>1 DEF Begin
<1>3. /\ next.phase = FirstCall(o) /\ next.opts = o /\ next.class = 1
      /\ next.created = 0 /\ next.replaced = 0
  BY <1>2 DEF IInv, Typed, Fields, Success, Tallied, Tally
<1> HIDE DEF next
<1>4. /\ FirstCall(o) \in {"reset", "get", "apply"}
      /\ FirstCall(o) = "get" => o.tool = "load"
  BY DEF FirstCall
<1>5. o.tool # "configure" => o.count \in Int
  BY OptionsAssumption
<1>6. Tally(next)
  BY <1>3, <1>4, <1>5 DEF Tally
<1>7. \A c \in Catalogs, i \in 1 .. MaximumCount : ~ Owes(next, c, i)
  BY <1>3, <1>4 DEF Owes
<1>8. UNCHANGED <<configs, records, wiped>>
  BY DEF Begin
<1> QED
  BY <1>2, <1>6, <1>7, <1>8, MovesSucceed

\* A run that ends in an error claims nothing; one that asks owes what it did.
LEMMA ToSucceeds ==
    ASSUME IInv, Success, NEW r \in Runs, Running(r), NEW phase,
           To(r, phase), UNCHANGED <<configs, records, wiped>>,
           \/ phase = "failed"
           \/ /\ run[r].phase \in {"get", "count"}
              /\ phase \in {"count", "apply"}
    PROVE  Success'
<1> DEFINE next == [run[r] EXCEPT !.phase = phase]
<1>1. run' = [run EXCEPT ![r] = next]
  BY DEF To
<1>2. /\ next.phase = phase /\ next.opts = run[r].opts /\ next.class = run[r].class
      /\ next.offset = run[r].offset /\ next.created = run[r].created
      /\ next.replaced = run[r].replaced
  BY DEF IInv, Typed, Fields
<1> HIDE DEF next
<1>3. Tally(run[r])
  BY DEF Success, Tallied
<1>4. Tally(next)
  BY <1>2, <1>3 DEF Tally
<1>5. \A c \in Catalogs, i \in 1 .. MaximumCount : Owes(next, c, i) => Owes(run[r], c, i)
  BY <1>2 DEF Owes
<1> QED
  BY <1>1, <1>2, <1>4, <1>5, MovesSucceed

LEMMA FailSucceeds == ASSUME IInv, Success, NEW r \in Runs, Running(r), Fail(r) PROVE Success'
BY ToSucceeds DEF Fail


\* Where a run stands after the catalog at hand.
LEMMA NextClassTally ==
    ASSUME IInv, NEW r \in Runs, Running(r)
    PROVE  /\ NextClass(r).opts = run[r].opts
           /\ NextClass(r).created = run[r].created /\ NextClass(r).replaced = run[r].replaced
           /\ \/ /\ NextClass(r).phase = "done"
                 /\ run[r].class = Len(ClassesOf(run[r].opts))
              \/ /\ NextClass(r).phase = FirstCall(run[r].opts) /\ NextClass(r).class = 2
                 /\ run[r].class = 1 /\ Catalog(r) = Transactional
<1> DEFINE o == run[r].opts
           next == NextClass(r)
<1>1. /\ DOMAIN run[r] = Fields /\ o \in Options[r]
      /\ run[r].class \in {1, 2} /\ Len(ClassesOf(o)) \in {1, 2}
      /\ run[r].class <= Len(ClassesOf(o))
  BY RunFacts
<1>2. CASE run[r].class < Len(ClassesOf(o))
  <2>1. next = [run[r] EXCEPT !.phase = FirstCall(o), !.class = @ + 1, !.offset = 0]
    BY <1>2 DEF NextClass
  <2> DEFINE n == Len(ClassesOf(o))
             k == run[r].class
  <2>2. n \in {1, 2} /\ k \in {1, 2} /\ k < n
    BY <1>1, <1>2
  <2> HIDE DEF n, k
  <2>3. k = 1 /\ n = 2
    BY <2>2
  <2>4. 2 \in DOMAIN ClassesOf(o)
    BY <1>1, <2>3, OptionFacts DEF n
  <2>5. Catalog(r) = Transactional
    BY <2>3, <2>4, CatalogFacts DEF k, IInv
  <2>6. /\ next.opts = o /\ next.created = run[r].created /\ next.replaced = run[r].replaced
        /\ next.phase = FirstCall(o) /\ next.class = 2
    BY <1>1, <2>1, <2>3 DEF Fields, k
  <2> QED
    BY <2>3, <2>5, <2>6 DEF k
<1>3. CASE ~ (run[r].class < Len(ClassesOf(o)))
  <2>1. next = [run[r] EXCEPT !.phase = "done"]
    BY <1>3 DEF NextClass
  <2>2. /\ next.opts = o /\ next.created = run[r].created /\ next.replaced = run[r].replaced
        /\ next.phase = "done"
    BY <1>1, <2>1 DEF Fields
  <2> DEFINE n == Len(ClassesOf(o))
             k == run[r].class
  <2>3. n \in {1, 2} /\ k \in {1, 2} /\ k <= n /\ ~ (k < n)
    BY <1>1, <1>3
  <2> HIDE DEF n, k
  <2>4. k = n
    BY <2>3
  <2> QED
    BY <2>2, <2>4 DEF k, n
<1> QED
  BY <1>2, <1>3

LEMMA AnalyzeSucceeds ==
    ASSUME IInv, Success, NEW r \in Runs, AnalyzeCatalog(r)
    PROVE  Success'
<1>1. run[r].phase = "analyze" /\ Running(r)
  BY DEF AnalyzeCatalog, Running
<1>2. CASE Fail(r)
  BY <1>1, <1>2, FailSucceeds
<1>3. CASE run' = [run EXCEPT ![r] = NextClass(r)] /\ UNCHANGED <<configs, records, wiped>>
  <2> DEFINE o == run[r].opts
             next == NextClass(r)
  <2>1. /\ next.opts = o /\ next.created = run[r].created /\ next.replaced = run[r].replaced
        /\ \/ next.phase = "done" /\ run[r].class = Len(ClassesOf(o))
           \/ /\ next.phase = FirstCall(o) /\ next.class = 2
              /\ run[r].class = 1 /\ Catalog(r) = Transactional
    BY <1>1, NextClassTally
  <2>2. /\ o \in Options[r] /\ o.tool = "load" /\ o.count \in Nat
        /\ run[r].class \in {1, 2} /\ Len(ClassesOf(o)) \in {1, 2}
        /\ CatalogOf(run[r]) = Catalog(r)
    <3>1. o.tool = "load"
      BY <1>1 DEF Success, Tallied, Tally
    <3> QED
      BY <1>1, <3>1, RunFacts
  <2>3. FirstCall(o) \in {"reset", "get"}
    BY <2>2 DEF FirstCall
  <2>4. /\ run[r].created \in Nat /\ run[r].replaced \in Nat
        /\ run[r].created + run[r].replaced = run[r].class * o.count
    BY <1>1, <2>2 DEF Success, Tallied, Tally
  <2> HIDE DEF next
  <2>5. Tally(next)
    <3>1. CASE next.phase = "done" /\ run[r].class = Len(ClassesOf(o))
      <4> DEFINE n == Len(ClassesOf(o))
                 m == o.count
      <4>1. n \in {1, 2} /\ m \in Nat /\ run[r].class = n
        BY <2>2, <3>1
      <4>2. next.created + next.replaced = n * m
        BY <2>1, <2>4, <4>1
      <4> HIDE DEF n, m
      <4>3. n * m = m * n
        BY <4>1
      <4>4. next.created + next.replaced = m * n
        BY <4>2, <4>3
      <4> QED
        BY <2>1, <2>4, <3>1, <4>4 DEF Tally, n, m
    <3>2. CASE next.phase = FirstCall(o) /\ next.class = 2 /\ run[r].class = 1
      <4>1. next.created + next.replaced = (2 - 1) * o.count
        BY <2>1, <2>2, <2>4, <3>2
      <4> QED
        BY <2>1, <2>2, <2>3, <2>4, <3>2, <4>1 DEF Tally
    <3> QED
      BY <2>1, <3>1, <3>2
  <2>6. ASSUME NEW c \in Catalogs, NEW i \in 1 .. MaximumCount, Owes(next, c, i)
        PROVE  Owes(run[r], c, i)
    <3>1. CASE next.phase = "done" /\ run[r].class = Len(ClassesOf(o))
      <4>1. PICK k \in DOMAIN ClassesOf(o) : ClassesOf(o)[k] = c
        BY <2>1, <2>6, <3>1 DEF Owes
      <4>2. DOMAIN ClassesOf(o) = 1 .. Len(ClassesOf(o))
        BY <2>2, OptionFacts
      <4> DEFINE n == Len(ClassesOf(o))
      <4>3. k \in 1 .. n /\ n \in {1, 2} /\ n = run[r].class
        BY <2>2, <3>1, <4>2
      <4> HIDE DEF n
      <4>4. k = n \/ (k = 1 /\ n = 2)
        BY <4>3
      <4>5. i <= o.count
        BY <2>1, <2>6 DEF Owes
      <4>6. CASE k = n
        <5>1. c = CatalogOf(run[r])
          BY <4>1, <4>3, <4>6 DEF CatalogOf
        <5> QED
          BY <1>1, <2>2, <4>5, <5>1 DEF Owes
      <4>7. CASE k = 1 /\ n = 2
        <5>1. 2 \in DOMAIN ClassesOf(o)
          BY <4>2, <4>7 DEF n
        <5>2. ClassesOf(o) = <<Transactional, Temporal>>
          BY <2>2, <5>1, OptionFacts
        <5>3. c = Transactional
          BY <4>1, <4>7, <5>2
        <5> QED
          BY <1>1, <2>2, <4>3, <4>5, <4>7, <5>3 DEF Owes
      <4> QED
        BY <4>4, <4>6, <4>7
    <3>2. CASE next.phase = FirstCall(o) /\ next.class = 2 /\ run[r].class = 1
                 /\ Catalog(r) = Transactional
      BY <1>1, <2>1, <2>2, <2>3, <2>6, <3>2 DEF Owes
    <3> QED
      BY <2>1, <3>1, <3>2
  <2>7. run' = [run EXCEPT ![r] = next]
    BY <1>3 DEF next
  <2> QED
    BY <1>3, <2>1, <2>5, <2>6, <2>7, MovesSucceed
<1> QED
  BY <1>2, <1>3 DEF AnalyzeCatalog

LEMMA ResetSucceeds ==
    ASSUME IInv, Success, NEW r \in Runs, Reset(r)
    PROVE  Success'
<1> DEFINE c == Catalog(r)
           next == [run[r] EXCEPT !.phase = "apply"]
<1>1. /\ run[r].phase = "reset" /\ Running(r)
      /\ configs' = [configs EXCEPT ![c] = Nil]
      /\ records' = [records EXCEPT ![c] = [id \in Ids |-> Nil]]
      /\ wiped' = [q \in Runs |-> IF q # r /\ configs[c] # Nil THEN wiped[q] \cup {c}
                                  ELSE wiped[q]]
      /\ run' = [run EXCEPT ![r] = next]
  BY DEF Reset, To, Running
<1>2. /\ next.opts = run[r].opts /\ next.class = run[r].class /\ next.phase = "apply"
      /\ next.created = run[r].created /\ next.replaced = run[r].replaced
  BY DEF IInv, Typed, Fields
<1>3. /\ c \in Catalogs /\ run'[r] = next
      /\ run[r].class = 2 => c # Transactional
  BY <1>1, RunFacts DEF IInv, Typed
<1> HIDE DEF next, c
<1>4. \A d \in Catalogs : records'[d] = IF d = c THEN [id \in Ids |-> Nil] ELSE records[d]
  BY <1>1 DEF IInv, Typed
<1>5. \A d \in Catalogs : configs'[d] = IF d = c THEN Nil ELSE configs[d]
  BY <1>1 DEF IInv, Typed
<1>6. Vacant'
  <2> SUFFICES ASSUME NEW d \in Catalogs, configs'[d] = Nil, NEW id \in Ids
               PROVE  records'[d][id] = Nil
    BY DEF Vacant
  <2>1. CASE d = c
    BY <1>4, <2>1
  <2>2. CASE d # c
    BY <1>4, <1>5, <2>2 DEF Success, Vacant
  <2> QED
    BY <2>1, <2>2
<1>7. /\ wiped'[r] = wiped[r]
      /\ \A q \in Runs \ {r} : wiped'[q] = IF configs[c] # Nil THEN wiped[q] \cup {c} ELSE wiped[q]
  BY <1>1
<1>8. \A q \in Runs : run'[q].opts = run[q].opts
  BY <1>1, <1>2, <1>3 DEF IInv, Typed
<1>9. \A i \in 1 .. MaximumCount : <<"load", i>> \in Ids /\ <<"demo", i>> \in Ids
  BY DEF Ids
<1>10. ASSUME NEW q \in Runs \ {r}, NEW d \in Catalogs, NEW i \in 1 .. MaximumCount,
              Written(q, d, i), d \notin wiped'[q]
       PROVE  Written(q, d, i)'
  <2>1. CASE d # c
    BY <1>4, <1>8, <1>10, <2>1 DEF Written
  <2>2. CASE d = c
    <3>1. configs[c] = Nil
      BY <1>7, <1>10, <2>2
    <3>2. \A id \in Ids : records[c][id] = Nil
      BY <1>3, <3>1 DEF Success, Vacant
    <3> QED
      BY <1>9, <1>10, <2>2, <3>2, NilAssumption DEF Written
  <2> QED
    BY <2>1, <2>2
<1>11. ASSUME NEW d \in Catalogs, NEW i \in 1 .. MaximumCount,
              Owes(next, d, i), d \notin wiped'[r]
       PROVE  Written(r, d, i)'
  <2>1. d = Transactional /\ run[r].class = 2 /\ Owes(run[r], d, i)
    BY <1>1, <1>2, <1>11 DEF Owes
  <2>2. Written(r, d, i)
    BY <1>7, <1>11, <2>1 DEF Success, Kept
  <2>3. d # c
    BY <1>3, <2>1
  <2> QED
    BY <1>4, <1>8, <2>2, <2>3 DEF Written
<1>12. Tally(next)
  <2>1. Tally(run[r])
    BY DEF Success, Tallied
  <2> QED
    BY <1>1, <1>2, <2>1 DEF Tally
<1>13. \A q \in Runs \ {r}, d \in Catalogs : d \notin wiped'[q] => d \notin wiped[q]
  BY <1>7
<1> QED
  BY <1>1, <1>6, <1>10, <1>11, <1>12, <1>13, OneSucceeds

LEMMA ApplySucceeds ==
    ASSUME IInv, Success, NEW r \in Runs, ApplyCatalog(r)
    PROVE  Success'
<1> DEFINE c == Catalog(r)
           o == run[r].opts
           bundle == BundleOf(o, c)
           next == IF o.tool = "configure" THEN NextClass(r) ELSE [run[r] EXCEPT !.phase = "fill"]
<1>1. run[r].phase = "apply" /\ Running(r)
  BY DEF ApplyCatalog, Running
<1>2. CASE Fail(r)
  BY <1>1, <1>2, FailSucceeds
<1>3. CASE /\ configs' = [configs EXCEPT ![c] = bundle]
           /\ wiped' = [wiped EXCEPT ![r] = @ \ {c}]
           /\ run' = [run EXCEPT ![r] = next]
           /\ UNCHANGED records
  <2>1. /\ c \in Catalogs /\ o \in Options[r] /\ run[r].offset = 0
        /\ run[r].class = 2 => c # Transactional
        /\ o.tool # "configure" => o.count \in Nat /\ 0 < o.count
        /\ run[r].class \in {1, 2}
    <3>1. run[r].offset = 0
      BY <1>1 DEF IInv, AtBoundary
    <3> QED
      BY <1>1, <3>1, RunFacts
  <2>2. bundle # Nil
    BY <2>1, OptionFacts, NilAssumption
  <2>3. /\ next.opts = o
        /\ next.created = run[r].created /\ next.replaced = run[r].replaced
        /\ o.tool = "configure" => next.phase \in {"done", "apply"}
        /\ o.tool # "configure" => next.phase = "fill" /\ next.class = run[r].class
                                   /\ next.offset = 0
    <3>1. CASE o.tool = "configure"
      <4>1. FirstCall(o) = "apply"
        BY <3>1 DEF FirstCall
      <4>2. next = NextClass(r)
        BY <3>1
      <4> QED
        BY <1>1, <3>1, <4>1, <4>2, NextClassTally
    <3>2. CASE o.tool # "configure"
      BY <2>1, <3>2 DEF IInv, Typed, Fields
    <3> QED
      BY <3>1, <3>2
  <2> HIDE DEF next, bundle
  <2>4. run'[r] = next /\ \A q \in Runs : run'[q].opts = run[q].opts
    BY <1>3, <2>3 DEF IInv, Typed
  <2>5. /\ \A d \in Catalogs : d # c => configs'[d] = configs[d]
        /\ configs'[c] = bundle
        /\ wiped'[r] = wiped[r] \ {c} /\ \A q \in Runs \ {r} : wiped'[q] = wiped[q]
    BY <1>3, <2>1 DEF IInv, Typed
  <2>6. Vacant'
    BY <1>3, <2>2, <2>5 DEF Success, Vacant
  <2>7. \A q \in Runs, d \in Catalogs, i \in 1 .. MaximumCount :
            Written(q, d, i)' <=> Written(q, d, i)
    BY <1>3, <2>4 DEF Written
  <2>8. Tally(next)
    <3>1. Tally(run[r])
      BY DEF Success, Tallied
    <3>2. CASE o.tool = "configure"
      BY <2>3, <3>1, <3>2 DEF Tally
    <3>3. CASE o.tool # "configure"
      <4>1. run[r].created + run[r].replaced = (run[r].class - 1) * o.count
        BY <1>1, <3>1, <3>3 DEF Tally
      <4> DEFINE s == (run[r].class - 1) * o.count
                 a == run[r].created
                 b == run[r].replaced
      <4>2. a \in Nat /\ b \in Nat /\ a + b = s
        BY <3>1, <4>1 DEF Tally
      <4> HIDE DEF s, a, b
      <4>3. a + b = s + 0
        BY <4>2
      <4>4. next.created + next.replaced = (next.class - 1) * next.opts.count + next.offset
        BY <2>3, <3>3, <4>3 DEF s, a, b
      <4> QED
        BY <2>1, <2>3, <3>1, <3>3, <4>4 DEF Tally
    <3> QED
      BY <3>2, <3>3
  <2>9. ASSUME NEW d \in Catalogs, NEW i \in 1 .. MaximumCount,
               Owes(next, d, i), d \notin wiped'[r]
        PROVE  Written(r, d, i)'
    <3>1. o.tool # "configure" /\ i <= o.count
      BY <2>3, <2>9 DEF Owes
    <3>2. i \in Int /\ ~ (i <= 0)
      BY OptionsAssumption
    <3>3. d = Transactional /\ run[r].class = 2
      BY <2>3, <2>9, <3>1, <3>2 DEF Owes
    <3>4. Owes(run[r], d, i)
      BY <1>1, <3>1, <3>3 DEF Owes
    <3>5. d \notin wiped[r]
      BY <2>1, <2>5, <2>9, <3>3
    <3> QED
      BY <2>7, <3>4, <3>5 DEF Success, Kept
  <2> HIDE DEF c
  <2> QED
    BY <1>3, <2>5, <2>6, <2>7, <2>8, <2>9, OneSucceeds
<1> QED
  BY <1>2, <1>3 DEF ApplyCatalog

LEMMA PutSucceeds ==
    ASSUME IInv, Success, NEW r \in Runs, Put(r)
    PROVE  Success'
<1> DEFINE c == Catalog(r)
           o == run[r].opts
           id == <<"demo", run[r].offset + 1>>
           step == [run[r] EXCEPT !.offset = @ + 1,
                                  !.created = IF records[c][id] = Nil THEN @ + 1 ELSE @,
                                  !.replaced = IF records[c][id] = Nil THEN @ ELSE @ + 1]
           next == IF step.offset < step.opts.count THEN step ELSE [step EXCEPT !.phase = "done"]
<1>1. run[r].phase = "fill" /\ Running(r) /\ o.tool = "demo"
  BY DEF Put, Running
<1>2. CASE Fail(r)
  BY <1>1, <1>2, FailSucceeds
<1>3. CASE /\ records' = [records EXCEPT ![c][id] = r]
           /\ run' = [run EXCEPT ![r] = next]
           /\ UNCHANGED <<configs, wiped>>
           /\ configs[c] # Nil
  <2>1. /\ c \in Catalogs /\ o \in Options[r] /\ o.count \in Nat /\ o.count \in 1 .. MaximumCount
        /\ run[r].class = 1 /\ Len(ClassesOf(o)) = 1 /\ ClassesOf(o) = <<c>>
        /\ CatalogOf(run[r]) = c /\ run[r].offset \in Nat
    BY <1>1, RunFacts
  <2>2. /\ run[r].created \in Nat /\ run[r].replaced \in Nat /\ run[r].offset < o.count
        /\ run[r].created + run[r].replaced = (run[r].class - 1) * o.count + run[r].offset
    BY <1>1 DEF Success, Tallied, Tally
  <2>3. run[r].created + run[r].replaced = run[r].offset
    BY <2>1, <2>2
  <2>4. /\ DOMAIN step = Fields /\ step.opts = o /\ step.class = 1
        /\ step.offset = run[r].offset + 1 /\ step.phase = "fill"
        /\ step.created = IF records[c][id] = Nil THEN run[r].created + 1 ELSE run[r].created
        /\ step.replaced = IF records[c][id] = Nil THEN run[r].replaced ELSE run[r].replaced + 1
    BY <1>1, <2>1 DEF IInv, Typed, Fields
  <2> HIDE DEF step
  <2>5. /\ step.created \in Nat /\ step.replaced \in Nat
        /\ step.created + step.replaced = run[r].offset + 1
    BY <2>1, <2>2, <2>3, <2>4
  <2>6. /\ next.opts = o /\ next.class = 1 /\ next.offset = run[r].offset + 1
        /\ next.created \in Nat /\ next.replaced \in Nat
        /\ next.created + next.replaced = run[r].offset + 1
        /\ \/ next.phase = "fill" /\ run[r].offset + 1 < o.count
           \/ next.phase = "done" /\ ~ (run[r].offset + 1 < o.count)
    BY <2>4, <2>5 DEF Fields
  <2>7. run'[r] = next /\ \A q \in Runs : run'[q].opts = run[q].opts
    BY <1>3, <2>6 DEF IInv, Typed
  <2> HIDE DEF next
  <2>8. Tally(next)
    <3>1. CASE next.phase = "fill" /\ run[r].offset + 1 < o.count
      <4>1. next.created + next.replaced = (next.class - 1) * next.opts.count + next.offset
        BY <2>1, <2>6
      <4> QED
        BY <1>1, <2>6, <3>1, <4>1 DEF Tally
    <3>2. CASE next.phase = "done" /\ ~ (run[r].offset + 1 < o.count)
      <4>1. run[r].offset + 1 = o.count
        BY <2>1, <2>2, <3>2
      <4>2. next.created + next.replaced = next.opts.count * Len(ClassesOf(next.opts))
        <5>1. o.count * 1 = o.count
          BY <2>1
        <5> QED
          BY <2>1, <2>6, <4>1, <5>1
      <4> QED
        BY <2>6, <3>2, <4>2 DEF Tally
    <3> QED
      BY <2>6, <3>1, <3>2
  <2>9. id \in Ids
    BY <2>1, <2>2, OptionsAssumption DEF Ids
  <2>10. r # Nil
    BY NilAssumption
  <2>11. /\ \A d \in Catalogs, j \in Ids : records[d][j] # Nil => records'[d][j] # Nil
         /\ \A d \in Catalogs, j \in Ids : j # id => records'[d][j] = records[d][j]
         /\ records'[c][id] # Nil
    BY <1>3, <2>1, <2>9, <2>10 DEF IInv, Typed
  <2>12. \A d \in Catalogs, j \in Ids : d # c => records'[d][j] = records[d][j]
    BY <1>3, <2>1, <2>9 DEF IInv, Typed
  <2>13. \A i \in 1 .. MaximumCount : /\ <<"load", i>> \in Ids /\ <<"demo", i>> \in Ids
                                      /\ <<"load", i>> # id
    BY DEF Ids
  <2>14. \A q \in Runs, d \in Catalogs, i \in 1 .. MaximumCount :
             Written(q, d, i) => Written(q, d, i)'
    BY <2>7, <2>11, <2>13 DEF Written
  <2>15. Vacant'
    BY <1>3, <2>12 DEF Success, Vacant
  <2>16. ASSUME NEW d \in Catalogs, NEW i \in 1 .. MaximumCount,
                Owes(next, d, i), d \notin wiped'[r]
         PROVE  Written(r, d, i)'
    <3>1. d = c /\ i <= run[r].offset + 1
      <4>1. CASE next.phase = "fill" /\ run[r].offset + 1 < o.count
        BY <2>1, <2>6, <2>16, <4>1 DEF Owes, CatalogOf
      <4>2. CASE next.phase = "done" /\ ~ (run[r].offset + 1 < o.count)
        <5>1. i <= o.count /\ \E k \in DOMAIN ClassesOf(o) : ClassesOf(o)[k] = d
          BY <2>6, <2>16, <4>2 DEF Owes
        <5>2. d = c
          BY <2>1, <5>1
        <5>3. i <= run[r].offset + 1
          BY <2>1, <4>2, <5>1
        <5> QED
          BY <5>2, <5>3
      <4> QED
        BY <2>6, <4>1, <4>2
    <3>2. records'[c][<<"demo", i>>] # Nil
      <4>1. CASE i = run[r].offset + 1
        BY <2>11, <4>1
      <4>2. CASE i # run[r].offset + 1
        <5>1. i <= run[r].offset /\ i <= o.count
          BY <2>1, <2>2, <3>1, <4>2
        <5>2. Owes(run[r], c, i)
          BY <1>1, <2>1, <5>1 DEF Owes
        <5>3. Written(r, c, i)
          BY <1>3, <2>1, <2>16, <3>1, <5>2 DEF Success, Kept
        <5>4. records[c][<<"demo", i>>] # Nil
          BY <1>1, <5>3 DEF Written
        <5> QED
          BY <2>1, <2>11, <2>13, <5>4
      <4> QED
        BY <4>1, <4>2
    <3> QED
      BY <1>1, <2>7, <3>1, <3>2 DEF Written
  <2> HIDE DEF c, id
  <2> QED
    BY <1>3, <2>8, <2>14, <2>15, <2>16, OneSucceeds
<1> QED
  BY <1>2, <1>3 DEF Put

\* The records of a batch are those up to the next offset, or to the last.
LEMMA BatchSize ==
    ASSUME NEW r \in Runs, NEW off \in Nat, NEW end \in Nat, NEW m \in Nat,
           off = run[r].offset, end = off + run[r].opts.batch, m = run[r].opts.count,
           off < m, off <= end
    PROVE  Cardinality(Batch(r)) = (IF end < m THEN end ELSE m) - off
<1> DEFINE last == IF end < m THEN end ELSE m
           n == last - off
           S == {<<"load", i>> : i \in {j \in 1 .. m : off < j /\ j <= end}}
           f == [k \in 1 .. n |-> <<"load", off + k>>]
<1>1. n \in Nat /\ last \in Nat /\ last = off + n
  OBVIOUS
<1>2. Batch(r) = S
  BY DEF Batch
<1>3. \A i \in Int : i \in {j \in 1 .. m : off < j /\ j <= end} <=> off + 1 <= i /\ i <= off + n
  OBVIOUS
<1>4. f \in Bijection(1 .. n, S)
  <2> HIDE DEF n, last
  <2>1. \A k \in 1 .. n : f[k] \in S
    <3> SUFFICES ASSUME NEW k \in 1 .. n
                 PROVE  f[k] \in S
      OBVIOUS
    <3>1. off + k \in Int /\ off + 1 <= off + k /\ off + k <= off + n
      BY <1>1
    <3>2. off + k \in {j \in 1 .. m : off < j /\ j <= end}
      BY <1>3, <3>1
    <3> QED
      BY <3>2
  <2>2. \A k, l \in 1 .. n : f[k] = f[l] => k = l
    BY <1>1
  <2>3. \A t \in S : \E k \in 1 .. n : f[k] = t
    <3> SUFFICES ASSUME NEW i \in {j \in 1 .. m : off < j /\ j <= end}
                 PROVE  \E k \in 1 .. n : f[k] = <<"load", i>>
      OBVIOUS
    <3>1. off + 1 <= i /\ i <= off + n /\ i \in Int
      BY <1>3
    <3>2. i - off \in 1 .. n /\ off + (i - off) = i
      BY <1>1, <3>1
    <3>3. f[i - off] = <<"load", i>>
      BY <3>2
    <3> QED
      BY <3>2, <3>3
  <2> HIDE DEF S
  <2>4. f \in [1 .. n -> S]
    BY <2>1
  <2> QED
    BY <2>1, <2>2, <2>3, <2>4 DEF Bijection, Injection, Surjection, IsInjective
<1>5. Cardinality(S) = n
  <2> HIDE DEF n, S, f
  <2>1. ExistsBijection(1 .. n, S)
    BY <1>4 DEF ExistsBijection
  <2> QED
    BY <1>1, <2>1, FS_CountingElements
<1> QED
  BY <1>2, <1>5

LEMMA BulkSucceeds ==
    ASSUME IInv, Success, NEW r \in Runs, BulkCreate(r)
    PROVE  Success'
<1> DEFINE c == Catalog(r)
           o == run[r].opts
           off == run[r].offset
           B == Batch(r)
           end == off + o.batch
           next == [run[r] EXCEPT !.offset = end, !.created = @ + Cardinality(B),
                                  !.phase = IF end < o.count THEN @ ELSE "analyze"]
<1>1. run[r].phase = "fill" /\ Running(r) /\ o.tool = "load"
  BY DEF BulkCreate, Running
<1>2. CASE Fail(r)
  BY <1>1, <1>2, FailSucceeds
<1>3. CASE /\ configs[c] # Nil /\ B \cap Live(c) = {}
           /\ records' = [records EXCEPT ![c] = [id \in Ids |-> IF id \in B THEN r ELSE @[id]]]
           /\ run' = [run EXCEPT ![r] = next]
           /\ UNCHANGED <<configs, wiped>>
  <2>1. /\ c \in Catalogs /\ o \in Options[r] /\ o.count \in Nat /\ o.count \in 1 .. MaximumCount
        /\ o.batch \in Nat /\ o.batch >= 1
        /\ run[r].class \in {1, 2} /\ CatalogOf(run[r]) = c /\ off \in Nat
        /\ run[r].class = 2 => c # Transactional
    <3>1. o.batch \in Int /\ o.batch >= 1
      BY <1>1, RunFacts, OptionsAssumption DEF ValidOptions
    <3> QED
      BY <1>1, <3>1, RunFacts
  <2>2. /\ run[r].created \in Nat /\ run[r].replaced \in Nat /\ off < o.count
        /\ run[r].created + run[r].replaced = (run[r].class - 1) * o.count + off
    BY <1>1 DEF Success, Tallied, Tally
  <2>3. end \in Nat /\ off <= end
    BY <2>1
  <2>4. Cardinality(B) = (IF end < o.count THEN end ELSE o.count) - off
    BY <2>1, <2>2, <2>3, BatchSize
  <2>5. /\ next.opts = o /\ next.class = run[r].class /\ next.offset = end
        /\ next.created = run[r].created + Cardinality(B) /\ next.replaced = run[r].replaced
        /\ next.phase = IF end < o.count THEN "fill" ELSE "analyze"
    BY <1>1 DEF IInv, Typed, Fields
  <2>6. run'[r] = next /\ \A q \in Runs : run'[q].opts = run[q].opts
    BY <1>3, <2>5 DEF IInv, Typed
  <2> HIDE DEF next
  <2>7. \A i \in 1 .. MaximumCount :
            <<"load", i>> \in B <=> i <= o.count /\ off < i /\ i <= end
    BY <2>1, <2>3, OptionsAssumption DEF Batch
  <2>8. B \subseteq Ids
    BY <2>1, OptionsAssumption DEF Batch, Ids
  <2>9. \A id \in B : records[c][id] = Nil
    BY <1>3, <2>8 DEF Live
  <2>10. \A id \in Ids : records'[c][id] = IF id \in B THEN r ELSE records[c][id]
    BY <1>3, <2>1 DEF IInv, Typed
  <2>11. \A d \in Catalogs : d # c => records'[d] = records[d]
    BY <1>3 DEF IInv, Typed
  <2>12. \A i \in 1 .. MaximumCount : <<"load", i>> \in Ids /\ <<"demo", i>> \in Ids
    BY DEF Ids
  <2>13. \A d \in Catalogs, id \in Ids :
             records[d][id] # Nil => records'[d][id] = records[d][id]
    BY <2>9, <2>10, <2>11
  <2>14. \A q \in Runs, d \in Catalogs, i \in 1 .. MaximumCount :
             Written(q, d, i) => Written(q, d, i)'
    BY <2>6, <2>12, <2>13, NilAssumption DEF Written
  <2>15. Vacant'
    BY <1>3, <2>11 DEF Success, Vacant
  <2>16. Tally(next)
    <3> DEFINE s == (run[r].class - 1) * o.count
               a == run[r].created
               b == run[r].replaced
               m == o.count
    <3>1. /\ a \in Nat /\ b \in Nat /\ a + b = s + off /\ m \in Nat /\ off < m /\ s \in Int
          /\ off \in Nat /\ end \in Nat /\ off <= end
      BY <2>1, <2>2, <2>3
    <3>2. s + m = run[r].class * m
      <4> DEFINE k == run[r].class
      <4>1. k \in Int /\ m \in Int
        BY <2>1
      <4> HIDE DEF k, m
      <4>2. (k - 1) * m + m = k * m
        BY <4>1
      <4> QED
        BY <4>2 DEF k, m
    <3>3. /\ next.created = a + ((IF end < m THEN end ELSE m) - off) /\ next.replaced = b
          /\ next.phase = IF end < m THEN "fill" ELSE "analyze"
      BY <2>4, <2>5
    <3> HIDE DEF s, a, b, m, end, off
    <3>4. next.created \in Nat /\ next.replaced \in Nat
      BY <3>1, <3>3
    <3>5. CASE end < m
      <4>1. next.created + next.replaced = s + end
        BY <3>1, <3>3, <3>5
      <4> QED
        BY <1>1, <2>5, <3>3, <3>4, <3>5, <4>1 DEF Tally, s, m
    <3>6. CASE ~ (end < m)
      <4>1. next.created + next.replaced = s + m
        BY <3>1, <3>3, <3>6
      <4> QED
        BY <1>1, <2>5, <3>2, <3>3, <3>4, <3>6, <4>1 DEF Tally, m
    <3> QED
      BY <3>5, <3>6
  <2>17. ASSUME NEW d \in Catalogs, NEW i \in 1 .. MaximumCount,
                Owes(next, d, i), d \notin wiped'[r]
         PROVE  Written(r, d, i)'
    <3>1. \/ run[r].class = 2 /\ d = Transactional
          \/ d = c /\ (i <= end \/ ~ (end < o.count))
      BY <2>1, <2>5, <2>17 DEF Owes, CatalogOf
    <3>2. i <= o.count
      BY <2>5, <2>17 DEF Owes
    <3>3. CASE run[r].class = 2 /\ d = Transactional
      <4>1. Owes(run[r], d, i)
        BY <1>1, <3>2, <3>3 DEF Owes
      <4> QED
        BY <1>3, <2>14, <2>17, <4>1 DEF Success, Kept
    <3>4. CASE d = c /\ (i <= end \/ ~ (end < o.count))
      <4>1. i <= end
        BY <2>1, <2>3, <3>2, <3>4
      <4>2. CASE i <= off
        <5>1. Owes(run[r], d, i)
          BY <1>1, <2>1, <3>2, <3>4, <4>2 DEF Owes
        <5> QED
          BY <1>3, <2>14, <2>17, <5>1 DEF Success, Kept
      <4>3. CASE ~ (i <= off)
        <5>1. <<"load", i>> \in B
          BY <2>1, <2>7, <3>2, <4>1, <4>3
        <5>2. records'[c][<<"load", i>>] = r
          BY <2>10, <2>12, <5>1
        <5> QED
          BY <1>1, <2>6, <3>4, <5>2 DEF Written
      <4> QED
        BY <4>2, <4>3
    <3> QED
      BY <3>1, <3>3, <3>4
  <2> HIDE DEF c, B
  <2> QED
    BY <1>3, <2>14, <2>15, <2>16, <2>17, OneSucceeds
<1> QED
  BY <1>2, <1>3 DEF BulkCreate

LEMMA InitSucceeds == Init => Success
<1> SUFFICES ASSUME Init
             PROVE  Success
  OBVIOUS
<1>1. \A r \in Runs : run[r] = Unstarted
  BY DEF Init
<1>2. Tallied
  BY <1>1 DEF Tallied, Tally, Unstarted
<1>3. Kept
  BY <1>1 DEF Kept, Owes, Unstarted
<1>4. Vacant
  BY DEF Init, Vacant
<1> QED
  BY <1>2, <1>3, <1>4 DEF Success

LEMMA StepSucceeds == IInv /\ Success /\ [Next]_vars => Success'
<1> SUFFICES ASSUME IInv, Success, [Next]_vars
             PROVE  Success'
  OBVIOUS
<1>1. CASE UNCHANGED vars
  BY <1>1 DEF vars, Success, Tallied, Kept, Vacant, Written
<1>2. CASE Rest
  BY <1>2 DEF Rest, vars, Success, Tallied, Kept, Vacant, Written
<1>3. ASSUME NEW r \in Runs, Begin(r) PROVE Success'
  BY <1>3, BeginSucceeds
<1>4. ASSUME NEW r \in Runs, Reset(r) PROVE Success'
  BY <1>4, ResetSucceeds
<1>5. ASSUME NEW r \in Runs, GetCatalog(r) PROVE Success'
  <2>1. Running(r) /\ run[r].phase = "get"
    BY <1>5 DEF GetCatalog, Running
  <2>2. To(r, "apply") \/ To(r, "count")
    BY <1>5 DEF GetCatalog
  <2>3. UNCHANGED <<configs, records, wiped>>
    BY <1>5 DEF GetCatalog
  <2> QED
    BY <2>1, <2>2, <2>3, ToSucceeds
<1>6. ASSUME NEW r \in Runs, CountRecords(r) PROVE Success'
  <2>1. Running(r) /\ run[r].phase = "count"
    BY <1>6 DEF CountRecords, Running
  <2>2. Fail(r) \/ (To(r, "apply") /\ UNCHANGED <<configs, records, wiped>>)
    BY <1>6 DEF CountRecords
  <2> QED
    BY <2>1, <2>2, ToSucceeds, FailSucceeds
<1>7. ASSUME NEW r \in Runs, ApplyCatalog(r) PROVE Success'
  BY <1>7, ApplySucceeds
<1>8. ASSUME NEW r \in Runs, Put(r) PROVE Success'
  BY <1>8, PutSucceeds
<1>9. ASSUME NEW r \in Runs, BulkCreate(r) PROVE Success'
  BY <1>9, BulkSucceeds
<1>10. ASSUME NEW r \in Runs, AnalyzeCatalog(r) PROVE Success'
  BY <1>10, AnalyzeSucceeds
<1>11. ASSUME NEW r \in Runs, Interrupt(r) PROVE Success'
  BY <1>11, FailSucceeds DEF Interrupt
<1> QED
  BY <1>1, <1>2, <1>3, <1>4, <1>5, <1>6, <1>7, <1>8, <1>9, <1>10, <1>11 DEF Next

LEMMA SuccessShows == IInv /\ Success => SuccessIsComplete
<1> SUFFICES ASSUME IInv, Success, NEW r \in Runs, run[r].phase = "done",
                    run[r].opts.tool # "configure"
             PROVE  LET o == run[r].opts
                    IN  /\ run[r].created + run[r].replaced = o.count * Len(ClassesOf(o))
                        /\ \A k \in DOMAIN ClassesOf(o) :
                               LET c == ClassesOf(o)[k]
                               IN  c \in wiped[r] \/ \A i \in 1 .. o.count :
                                       IF o.tool = "load" THEN records[c][<<"load", i>>] = r
                                       ELSE records[c][<<"demo", i>>] # Nil
  BY DEF SuccessIsComplete
<1> DEFINE o == run[r].opts
<1>1. run[r].created + run[r].replaced = o.count * Len(ClassesOf(o))
  BY DEF Success, Tallied, Tally
<1>2. o \in Options[r] /\ ValidOptions(o) /\ o.count \in 1 .. MaximumCount
  BY DEF IInv, Typed, ValidOptions
<1>3. ClassesOf(o) \in Seq(Catalogs)
  BY <1>2, OptionFacts
<1>4. ASSUME NEW k \in DOMAIN ClassesOf(o), NEW i \in 1 .. o.count,
             ClassesOf(o)[k] \notin wiped[r]
      PROVE  IF o.tool = "load" THEN records[ClassesOf(o)[k]][<<"load", i>>] = r
             ELSE records[ClassesOf(o)[k]][<<"demo", i>>] # Nil
  <2>1. ClassesOf(o)[k] \in Catalogs
    BY <1>3
  <2>2. i \in 1 .. MaximumCount /\ i <= o.count
    BY <1>2, OptionsAssumption
  <2>3. Owes(run[r], ClassesOf(o)[k], i)
    BY <2>2 DEF Owes
  <2> QED
    BY <1>4, <2>1, <2>2, <2>3 DEF Success, Kept, Written
<1> QED
  BY <1>1, <1>4

\* A run that reports success has left every record that it counts, whatever other
\* runs have done at the same time or before and wherever they were killed, except
\* in the catalogs that someone has deleted since the run had applied them.
THEOREM SuccessHolds == Spec => []SuccessIsComplete
<1>1. Init => IInv /\ Success
  BY InitHolds, InitSucceeds
<1>2. IInv /\ Success /\ [Next]_vars => IInv' /\ Success'
  BY StepHolds, StepSucceeds
<1> QED
  BY <1>1, <1>2, SuccessShows, PTL DEF Spec
=============================================================================
