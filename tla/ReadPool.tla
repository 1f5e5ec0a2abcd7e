------------------------------ MODULE ReadPool ------------------------------
(***************************************************************************)
(* The host's read threads (the C code of store.py): the server takes a    *)
(* request, and it and the workers read the request's experts together;    *)
(* the server stores done when all are read.  ssd_stop ends them all.      *)
(*                                                                         *)
(* A critical section of mu is one step.  A worker waits on cv only while  *)
(* its condition holds and every change of the condition is broadcast, so  *)
(* waiting on cv is a guard.  A job is the pair of its request and index;  *)
(* which expert it reads and where to is data.                             *)
(***************************************************************************)
EXTENDS Naturals, FiniteSets

CONSTANTS
    Workers,    \* the worker threads
    Server,     \* the server thread
    Sizes,      \* the possible numbers of experts of a request
    MaxRequests \* bound: requests in a behaviour

ASSUME PoolAssumption ==
    /\ Server \notin Workers
    /\ Sizes \subseteq Nat \ {0}
    /\ MaxRequests \in Nat

Threads == Workers \union {Server}
None == 0
NoJob == <<None, 0>>

VARIABLES
    size,       \* experts of every request published so far (the ring)
    request,    \* the request whose jobs are loaded (layer, job_expert, job_row)
    njobs, next, finished, gen,
    stop, failing, failed,
    err,        \* the job the error text describes
    done,       \* the last request served
    pc,         \* where every thread is
    job,        \* the index a thread took
    seen,       \* the generation a worker has seen
    closing,    \* Python: "open", "joining", "freed"
    reads,      \* history: how often each job was read
    broken      \* history: jobs whose read failed

ssdVars == <<request, njobs, next, finished, gen, stop, failing, failed, err, done>>
vars == <<size, ssdVars, pc, job, seen, closing, reads, broken>>

Published == DOMAIN size
JobsOf(r) == {r} \X (0 .. (size[r] - 1))
Jobs == UNION {JobsOf(r): r \in Published}

Goto(t, l) == pc' = [pc EXCEPT ![t] = l]

Init ==
    /\ size = [r \in {} |-> 0]
    /\ request = None
    /\ njobs = 0 /\ next = 0 /\ finished = 0 /\ gen = 0
    /\ stop = FALSE /\ failing = FALSE /\ failed = FALSE
    /\ err = NoJob
    /\ done = 0
    /\ pc = [t \in Threads |-> IF t = Server THEN "poll" ELSE "sleep"]
    /\ job = [t \in Threads |-> 0]
    /\ seen = [w \in Workers |-> 0]
    /\ closing = "open"
    /\ reads = [x \in {} |-> 0]
    /\ broken = {}

-----------------------------------------------------------------------------
\* The GPU publishes a request.
Publish ==
    /\ Cardinality(Published) < MaxRequests
    /\ \E n \in Sizes:
          LET r == Cardinality(Published) + 1
          IN  /\ size' = [q \in Published \union {r} |-> IF q = r THEN n ELSE size[q]]
              /\ reads' = [x \in Jobs \union ({r} \X (0 .. (n - 1))) |->
                              IF x \in Jobs THEN reads[x] ELSE 0]
    /\ UNCHANGED <<ssdVars, pc, job, seen, closing, broken>>

(* server_main *)

\* Nothing to serve and told to stop.  A request that is there comes first.
ServerStops ==
    /\ pc[Server] = "poll" /\ done + 1 \notin Published /\ stop
    /\ Goto(Server, "exited")
    /\ UNCHANGED <<size, ssdVars, job, seen, closing, reads, broken>>

\* Copy the request into the job list; wake the workers for more than one job.
Load ==
    /\ pc[Server] = "poll" /\ done + 1 \in Published
    /\ request' = done + 1
    /\ njobs' = size[done + 1]
    /\ next' = 0 /\ finished' = 0
    /\ gen' = IF size[done + 1] > 1 THEN gen + 1 ELSE gen
    /\ Goto(Server, "take")
    /\ UNCHANGED <<size, stop, failing, failed, err, done, job, seen, closing, reads, broken>>

\* Mutant: the server spins until every job is taken, not read.
ServeTaken ==
    /\ pc[Server] = "spin" /\ next >= njobs
    /\ done' = request
    /\ Goto(Server, "poll")
    /\ UNCHANGED <<size, request, njobs, next, finished, gen, stop, failing, failed, err,
                   job, seen, closing, reads, broken>>

\* The server spins until the workers finished the jobs they took.
Serve ==
    /\ pc[Server] = "spin" /\ finished >= njobs
    /\ done' = request
    /\ Goto(Server, "poll")
    /\ UNCHANGED <<size, request, njobs, next, finished, gen, stop, failing, failed, err,
                   job, seen, closing, reads, broken>>

(* worker_main *)

\* Mutant: a worker that sleeps does not look at stop.
WakeForJobs(w) ==
    /\ pc[w] = "sleep" /\ gen # seen[w]
    /\ seen' = [seen EXCEPT ![w] = gen]
    /\ Goto(w, IF stop THEN "exited" ELSE "take")
    /\ UNCHANGED <<size, ssdVars, job, closing, reads, broken>>

Wake(w) ==
    /\ pc[w] = "sleep" /\ (gen # seen[w] \/ stop)
    /\ seen' = [seen EXCEPT ![w] = gen]
    /\ Goto(w, IF stop THEN "exited" ELSE "take")
    /\ UNCHANGED <<size, ssdVars, job, closing, reads, broken>>

(* run_jobs and read_one, by the server and the workers *)

\* Mutant: one job too many is taken.
TakeTooMany(t) ==
    /\ pc[t] = "take" /\ next <= njobs
    /\ next' = next + 1
    /\ job' = [job EXCEPT ![t] = next]
    /\ Goto(t, "read")
    /\ UNCHANGED <<size, request, njobs, finished, gen, stop, failing, failed, err, done,
                   seen, closing, reads, broken>>

Take(t) ==
    /\ pc[t] = "take" /\ next < njobs
    /\ next' = next + 1
    /\ job' = [job EXCEPT ![t] = next]
    /\ Goto(t, "read")
    /\ UNCHANGED <<size, request, njobs, finished, gen, stop, failing, failed, err, done,
                   seen, closing, reads, broken>>

NoneLeft(t) ==
    /\ pc[t] = "take" /\ next >= njobs
    /\ Goto(t, IF t = Server THEN "spin" ELSE "sleep")
    /\ UNCHANGED <<size, ssdVars, job, seen, closing, reads, broken>>

\* The read of what the job list holds now at the index that was taken.
Current(t) == <<request, job[t]>>

Read(t) ==
    /\ pc[t] = "read"
    /\ reads' = [reads EXCEPT ![Current(t)] = @ + 1]
    /\ \/ /\ Goto(t, "count")
          /\ UNCHANGED broken
       \/ /\ Goto(t, "fail")
          /\ broken' = broken \union {Current(t)}
    /\ UNCHANGED <<size, ssdVars, job, seen, closing>>

\* Mutants: the test of failing is inverted, or not made.
FailInverted(t) ==
    /\ pc[t] = "fail"
    /\ failing' = TRUE
    /\ Goto(t, IF failing THEN "describe" ELSE "count")
    /\ UNCHANGED <<size, request, njobs, next, finished, gen, stop, failed, err, done,
                   job, seen, closing, reads, broken>>

FailAlways(t) ==
    /\ pc[t] = "fail"
    /\ failing' = TRUE
    /\ Goto(t, "describe")
    /\ UNCHANGED <<size, request, njobs, next, finished, gen, stop, failed, err, done,
                   job, seen, closing, reads, broken>>

\* fail: only the first failure is described.
Fail(t) ==
    /\ pc[t] = "fail"
    /\ failing' = TRUE
    /\ Goto(t, IF failing THEN "count" ELSE "describe")
    /\ UNCHANGED <<size, request, njobs, next, finished, gen, stop, failed, err, done,
                   job, seen, closing, reads, broken>>

Describe(t) ==
    /\ pc[t] = "describe"
    /\ err' = Current(t)
    /\ Goto(t, "report")
    /\ UNCHANGED <<size, request, njobs, next, finished, gen, stop, failing, failed, done,
                   job, seen, closing, reads, broken>>

\* Mutant: a job that failed is never counted as finished.
ReportOnly(t) ==
    /\ pc[t] = "report"
    /\ failed' = TRUE
    /\ Goto(t, "take")
    /\ UNCHANGED <<size, request, njobs, next, finished, gen, stop, failing, err, done,
                   job, seen, closing, reads, broken>>

Report(t) ==
    /\ pc[t] = "report"
    /\ failed' = TRUE
    /\ Goto(t, "count")
    /\ UNCHANGED <<size, request, njobs, next, finished, gen, stop, failing, err, done,
                   job, seen, closing, reads, broken>>

Count(t) ==
    /\ pc[t] = "count"
    /\ finished' = finished + 1
    /\ Goto(t, "take")
    /\ UNCHANGED <<size, request, njobs, next, gen, stop, failing, failed, err, done,
                   job, seen, closing, reads, broken>>

(* ssd_stop, called by Store.close *)

Stop ==
    /\ closing = "open"
    /\ stop' = TRUE
    /\ closing' = "joining"
    /\ UNCHANGED <<size, request, njobs, next, finished, gen, failing, failed, err, done,
                   pc, job, seen, reads, broken>>

Join ==
    /\ closing = "joining"
    /\ \A t \in Threads: pc[t] = "exited"
    /\ closing' = "freed"
    /\ UNCHANGED <<size, ssdVars, pc, job, seen, reads, broken>>

-----------------------------------------------------------------------------
ThreadStep(t) ==
    \/ Take(t) \/ NoneLeft(t) \/ Read(t)
    \/ Fail(t) \/ Describe(t) \/ Report(t) \/ Count(t)

ServerStep == ServerStops \/ Load \/ Serve \/ ThreadStep(Server)
WorkerStep(w) == Wake(w) \/ ThreadStep(w)

Next == Publish \/ Stop \/ Join \/ ServerStep \/ \E w \in Workers: WorkerStep(w)

Spec == Init /\ [][Next]_vars

\* Every thread runs, mu is fair enough, and a read returns.
FairSpec ==
    /\ Spec
    /\ WF_vars(ServerStep)
    /\ \A w \in Workers: WF_vars(WorkerStep(w))
    /\ WF_vars(Join)

-----------------------------------------------------------------------------
(* Properties.                                                             *)

TypeOK ==
    /\ request \in Nat /\ njobs \in Nat /\ next \in 0 .. njobs /\ finished \in 0 .. njobs
    /\ gen \in Nat /\ done \in Nat
    /\ {stop, failing, failed} \subseteq BOOLEAN
    /\ err \in Jobs \union {NoJob}
    /\ pc \in [Threads -> {"poll", "sleep", "take", "read", "fail", "describe", "report",
                           "count", "spin", "exited"}]
    /\ job \in [Threads -> Nat]
    /\ seen \in [Workers -> 0 .. gen]
    /\ closing \in {"open", "joining", "freed"}
    /\ reads \in [Jobs -> Nat]
    /\ broken \subseteq Jobs

\* When done is stored, every job of the request was read exactly once, and no
\* job of a later one: a worker that wakes up late neither repeats a job nor
\* runs ahead (store.py:104-105), and while the server polls nobody is still
\* reading, without mu, from the job list it will rewrite.
ServedJobsReadOnce ==
    /\ \A x \in Jobs: /\ x[1] <= done => reads[x] = 1
                      /\ x[1] > done + 1 => reads[x] = 0
                      /\ reads[x] <= 1
    /\ pc[Server] = "poll" =>
          \A w \in Workers: pc[w] \notin {"read", "fail", "describe", "report", "count"}

\* When done releases the GPU, a failure of any read so far is there to be
\* seen, with its text (store.py:246 "The next forward that runs Python sees
\* the failure and stops").
FailureVisibleAtDone ==
    (\E x \in broken: x[1] <= done) => failed /\ err \in broken

\* The text of the first failure stays.
FirstFailureKept == [][failed => failed' /\ err' = err]_vars

\* Every request that is published is served, unless the server was told to
\* stop before.
EveryRequestServed ==
    \A r \in 1 .. MaxRequests:
        r \in Published ~> done >= r \/ pc[Server] = "exited"

\* ssd_stop returns: every thread is woken and ends.
StopReturns == closing = "joining" ~> closing = "freed"
=============================================================================
