--------------------------- MODULE ReadPoolProofs ---------------------------
(***************************************************************************)
(* The host's read threads, for any number of workers and requests.        *)
(***************************************************************************)
EXTENDS ReadPool, FiniteSetTheorems, TLAPS

\* A thread works on a job it took, without mu but for counting it.
Working == {"read", "fail", "describe", "report", "count"}
Busy == {t \in Threads: pc[t] \in Working}

\* A thread that found itself to be the first that fails.
Telling == {"describe", "report"}

-----------------------------------------------------------------------------
(* The inductive invariant.                                                *)

\* Requests are numbered from 1.
Ring ==
    /\ Cardinality(Published) \in Nat
    /\ size \in [1 .. Cardinality(Published) -> Nat \ {0}]

Types ==
    /\ request \in Nat /\ njobs \in Nat /\ next \in Nat /\ finished \in Nat
    /\ gen \in Nat /\ done \in Nat
    /\ stop \in BOOLEAN /\ failing \in BOOLEAN /\ failed \in BOOLEAN
    /\ err \in Jobs \union {NoJob}
    /\ pc \in [Threads -> {"poll", "sleep", "take", "read", "fail", "describe", "report",
                           "count", "spin", "exited"}]
    /\ job \in [Threads -> Nat]
    /\ seen \in [Workers -> 0 .. gen]
    /\ closing \in {"open", "joining", "freed"}
    /\ reads \in [Jobs -> Nat]
    /\ broken \subseteq Jobs

\* Which request the job list is for.
Serving ==
    /\ done <= Cardinality(Published)
    /\ \A w \in Workers: pc[w] \notin {"poll", "spin"}
    /\ pc[Server] # "sleep"
    /\ pc[Server] \in {"poll", "exited"} => request = done /\ next = njobs /\ Busy = {}
    /\ pc[Server] \notin {"poll", "exited"}
          => request = done + 1 /\ request \in Published /\ njobs = size[request]
    /\ pc[Server] = "spin" => next = njobs

\* Every index below next was taken by one thread, which has it or finished it.
Sharing ==
    /\ next <= njobs
    /\ \A t \in Busy: job[t] < next
    /\ \A t, u \in Busy: job[t] = job[u] => t = u
    /\ IsFiniteSet(Busy)
    /\ finished + Cardinality(Busy) = next

\* The jobs of the current request that were read.
Done(x) ==
    /\ x[1] = request /\ x[2] < next
    /\ \A t \in Threads: pc[t] = "read" => job[t] # x[2]

Reads ==
    \A x \in Jobs: reads[x] = IF x[1] <= done \/ Done(x) THEN 1 ELSE 0

Failures ==
    /\ \A t \in Threads: pc[t] \in Telling => failing /\ ~ failed
    /\ \A t, u \in Threads: pc[t] \in Telling /\ pc[u] \in Telling => t = u
    /\ \A t \in Threads: pc[t] = "report" => err \in broken
    /\ \A t \in Threads: pc[t] \in {"fail", "describe"} => Current(t) \in broken
    /\ failed => failing /\ err \in broken
    /\ failing => failed \/ \E t \in Threads: pc[t] \in Telling
    /\ broken # {} => failing \/ \E t \in Threads: pc[t] = "fail"
    /\ (\E x \in broken: x[1] <= done) => failed

PoolInv == Ring /\ Types /\ Serving /\ Sharing /\ Reads /\ Failures

-----------------------------------------------------------------------------
LEMMA PoolInit == Init => PoolInv
<1> SUFFICES ASSUME Init PROVE PoolInv
  OBVIOUS
<1>1. Published = {} /\ Cardinality(Published) = 0
  BY FS_EmptySet DEF Init, Published
<1>2. Ring
  BY <1>1 DEF Ring, Init, Published
<1>3. Jobs = {}
  BY <1>1 DEF Jobs
<1>4. Types
  <2>1. reads \in [Jobs -> Nat] /\ broken \subseteq Jobs /\ err \in Jobs \union {NoJob}
    BY <1>3 DEF Init
  <2>2. pc \in [Threads -> {"poll", "sleep", "take", "read", "fail", "describe", "report",
                            "count", "spin", "exited"}]
    BY DEF Init
  <2>3. job \in [Threads -> Nat] /\ seen \in [Workers -> 0 .. gen]
    BY DEF Init
  <2> QED BY <2>1, <2>2, <2>3 DEF Types, Init, None
<1>5. Busy = {}
  BY DEF Busy, Init, Threads, Working
<1>6. Serving
  BY <1>1, <1>5, PoolAssumption DEF Serving, Init, Threads, None
<1>7. Sharing
  BY <1>5, FS_EmptySet DEF Sharing, Init
<1>8. Reads
  BY <1>3 DEF Reads
<1>9. Failures
  BY PoolAssumption DEF Failures, Init, Telling, Threads
<1> QED BY <1>2, <1>4, <1>6, <1>7, <1>8, <1>9 DEF PoolInv

\* A job of the job list is a job of a request.
LEMMA CurrentIsJob ==
    ASSUME PoolInv, NEW t \in Busy
    PROVE  /\ Current(t) \in Jobs /\ request = done + 1
           /\ Current(t)[1] = request /\ Current(t)[2] = job[t]
<1>1. pc[Server] \notin {"poll", "exited"}
  BY DEF PoolInv, Serving
<1>2. request = done + 1 /\ request \in Published /\ njobs = size[request]
  BY <1>1 DEF PoolInv, Serving
<1>3. job[t] \in 0 .. (size[request] - 1)
  BY <1>2 DEF PoolInv, Sharing, Types, Busy
<1> QED BY <1>2, <1>3 DEF Current, Jobs, JobsOf

LEMMA JobShape ==
    ASSUME Ring, NEW x \in Jobs
    PROVE  x[1] \in Published /\ x[1] \in Nat /\ x[1] > 0 /\ x[2] \in Nat /\ x[2] < size[x[1]]
           /\ x = <<x[1], x[2]>>
<1>1. PICK r \in Published: x \in {r} \X (0 .. (size[r] - 1))
  BY DEF Jobs, JobsOf
<1>2. r \in 1 .. Cardinality(Published) /\ size[r] \in Nat /\ Cardinality(Published) \in Nat
  BY DEF Ring, Published
<1> QED BY <1>1, <1>2

-----------------------------------------------------------------------------
(* The steps of the server and of Python.                                  *)

\* Nothing of the pool changes but what is published.
LEMMA PublishKeeps == ASSUME PoolInv, Publish PROVE PoolInv'
<1> DEFINE r == Cardinality(Published) + 1
<1>1. PICK n \in Sizes:
         /\ size' = [q \in Published \union {r} |-> IF q = r THEN n ELSE size[q]]
         /\ reads' = [x \in Jobs \union ({r} \X (0 .. (n - 1))) |->
                         IF x \in Jobs THEN reads[x] ELSE 0]
  BY DEF Publish
<1>2. /\ Cardinality(Published) \in Nat /\ Published = 1 .. Cardinality(Published)
      /\ size \in [Published -> Nat \ {0}] /\ n \in Nat \ {0}
  BY PoolAssumption DEF PoolInv, Ring, Published
<1>3. Published' = 1 .. r /\ Cardinality(Published') = r
  <2>1. Published' = Published \union {r}
    BY <1>1 DEF Published
  <2>2. Published' = 1 .. r
    BY <1>2, <2>1
  <2>3. Cardinality(1 .. r) = r
    BY <1>2, FS_Interval
  <2> QED BY <2>2, <2>3
<1>4. Ring'
  <2>1. size' \in [Published \union {r} -> Nat \ {0}]
    BY <1>1, <1>2
  <2>2. Published \union {r} = 1 .. r
    BY <1>2
  <2>3. r \in Nat
    BY <1>2
  <2> HIDE DEF r
  <2> QED BY <1>3, <2>1, <2>2, <2>3 DEF Ring
<1>5. Jobs' = Jobs \union ({r} \X (0 .. (n - 1)))
  <2>1. \A q \in Published: size'[q] = size[q]
    BY <1>1, <1>2
  <2>2. size'[r] = n
    BY <1>1
  <2>3. Published' = Published \union {r}
    BY <1>2, <1>3
  <2> HIDE DEF r
  <2> QED BY <2>1, <2>2, <2>3 DEF Jobs, JobsOf
<1>6. UNCHANGED <<ssdVars, pc, job, seen, closing, broken>>
  BY DEF Publish
<1>7. Types'
  <2>1. reads' \in [Jobs' -> Nat]
    BY <1>1, <1>5 DEF PoolInv, Types
  <2> QED BY <1>5, <1>6, <2>1 DEF PoolInv, Types, ssdVars
<1>8. Busy' = Busy
  BY <1>6 DEF Busy
<1>9. Serving'
  <2>1. \A q \in Published: size'[q] = size[q] /\ q \in Published'
    BY <1>1, <1>2, <1>3
  <2>2. done <= Cardinality(Published')
    BY <1>2, <1>3 DEF PoolInv, Serving, Types
  <2> QED BY <1>6, <1>8, <2>1, <2>2 DEF PoolInv, Serving, ssdVars
<1>10. Sharing'
  BY <1>6, <1>8 DEF PoolInv, Sharing, ssdVars
<1>11. Reads'
  <2> SUFFICES ASSUME NEW x \in Jobs'
               PROVE  reads'[x] = IF x[1] <= done' \/ Done(x)' THEN 1 ELSE 0
    BY DEF Reads
  <2>1. Done(x)' <=> Done(x)
    BY <1>6 DEF Done, ssdVars
  <2>2. CASE x \in Jobs
    BY <1>1, <1>6, <2>1, <2>2 DEF PoolInv, Reads, ssdVars
  <2>3. CASE x \notin Jobs
    <3>1. x[1] = r /\ reads'[x] = 0
      BY <1>1, <1>5, <2>3
    <3>2. done < r /\ request < r /\ done \in Nat /\ request \in Nat /\ r \in Nat
      BY <1>2 DEF PoolInv, Serving, Types
    <3>3. done' = done /\ ~ Done(x)
      BY <1>6, <3>1, <3>2 DEF Done, ssdVars
    <3> QED BY <2>1, <3>1, <3>2, <3>3
  <2> QED BY <2>2, <2>3
<1>12. Failures'
  BY <1>6 DEF PoolInv, Failures, Current, ssdVars
<1> QED BY <1>4, <1>7, <1>9, <1>10, <1>11, <1>12 DEF PoolInv

LEMMA LoadKeeps == ASSUME PoolInv, Load PROVE PoolInv'
<1>1. /\ pc[Server] = "poll" /\ done + 1 \in Published
      /\ request' = done + 1 /\ njobs' = size[done + 1] /\ next' = 0 /\ finished' = 0
      /\ pc' = [pc EXCEPT ![Server] = "take"]
      /\ UNCHANGED <<size, stop, failing, failed, err, done, job, closing, reads, broken, seen>>
      /\ gen' \in {gen, gen + 1}
  BY DEF Load, Goto
<1>2. Published' = Published /\ Jobs' = Jobs
  BY <1>1 DEF Published, Jobs, JobsOf
<1>3. size[done + 1] \in Nat \ {0}
  BY <1>1 DEF PoolInv, Ring, Published
<1>4. Ring'
  BY <1>1, <1>2 DEF PoolInv, Ring
<1>5. Types'
  <2>1. pc' \in [Threads -> {"poll", "sleep", "take", "read", "fail", "describe", "report",
                             "count", "spin", "exited"}]
    BY <1>1 DEF PoolInv, Types
  <2>2. seen' \in [Workers -> 0 .. gen']
    BY <1>1 DEF PoolInv, Types
  <2> QED BY <1>1, <1>2, <1>3, <2>1, <2>2 DEF PoolInv, Types
<1>6. Server \in Threads /\ \A t \in Threads: t # Server => pc'[t] = pc[t]
  BY <1>1 DEF PoolInv, Types, Threads
<1>7. pc'[Server] = "take"
  BY <1>1, <1>6 DEF PoolInv, Types
<1>8. Busy = {} /\ request = done /\ Busy' = {}
  BY <1>1, <1>6, <1>7 DEF PoolInv, Serving, Busy, Working
<1>9. Serving'
  BY <1>1, <1>2, <1>6, <1>7, <1>8, PoolAssumption DEF PoolInv, Serving, Threads
<1>10. Sharing'
  BY <1>1, <1>3, <1>8, FS_EmptySet DEF Sharing
<1>11. Reads'
  <2> SUFFICES ASSUME NEW x \in Jobs
               PROVE  reads[x] = IF x[1] <= done \/ Done(x)' THEN 1 ELSE 0
    BY <1>1, <1>2 DEF Reads
  <2>1. ~ Done(x)'
    BY <1>1, JobShape DEF Done, PoolInv
  <2>2. Done(x) => x[1] <= done
    BY <1>8, JobShape DEF Done, PoolInv
  <2> QED BY <2>1, <2>2 DEF PoolInv, Reads
<1>12. Failures'
  <2>1. \A t \in Threads: pc'[t] \notin {"fail", "describe", "report"}
                          /\ pc[t] \notin {"fail", "describe", "report"}
    BY <1>8 DEF Busy, Working
  <2> QED BY <1>1, <2>1 DEF PoolInv, Failures, Telling
<1> QED BY <1>4, <1>5, <1>9, <1>10, <1>11, <1>12 DEF PoolInv

LEMMA ServeKeeps == ASSUME PoolInv, Serve PROVE PoolInv'
<1>1. /\ pc[Server] = "spin" /\ finished >= njobs /\ done' = request
      /\ pc' = [pc EXCEPT ![Server] = "poll"]
      /\ UNCHANGED <<size, request, njobs, next, finished, gen, stop, failing, failed, err,
                     job, seen, closing, reads, broken>>
  BY DEF Serve, Goto
<1>2. Published' = Published /\ Jobs' = Jobs
  BY <1>1 DEF Published, Jobs, JobsOf
<1>3. /\ request = done + 1 /\ request \in Published /\ njobs = size[request]
      /\ next = njobs /\ request \in Nat /\ done \in Nat
  BY <1>1 DEF PoolInv, Serving, Types
<1>4. Ring'
  BY <1>1, <1>2 DEF PoolInv, Ring
<1>5. Types'
  BY <1>1, <1>2 DEF PoolInv, Types
<1>6. Server \in Threads /\ \A t \in Threads: t # Server => pc'[t] = pc[t]
  BY <1>1 DEF PoolInv, Types, Threads
<1>7. pc'[Server] = "poll"
  BY <1>1, <1>6 DEF PoolInv, Types
<1>8. Busy = {} /\ Busy' = {}
  <2>1. Cardinality(Busy) = 0
    <3>1. Cardinality(Busy) \in Nat
      BY FS_CardinalityType DEF PoolInv, Sharing
    <3> QED BY <1>1, <1>3, <3>1 DEF PoolInv, Sharing, Types
  <2>2. Busy = {}
    BY <2>1, FS_EmptySet DEF PoolInv, Sharing
  <2> QED BY <1>1, <1>6, <1>7, <2>2 DEF Busy, Working
<1>9. Serving'
  <2>1. request <= Cardinality(Published)
    BY <1>3 DEF PoolInv, Ring, Published
  <2> QED BY <1>1, <1>2, <1>3, <1>6, <1>7, <1>8, <2>1, PoolAssumption
          DEF PoolInv, Serving, Threads
<1>10. Sharing'
  BY <1>1, <1>8 DEF PoolInv, Sharing
<1>11. Reads'
  <2> SUFFICES ASSUME NEW x \in Jobs
               PROVE  reads[x] = IF x[1] <= request \/ Done(x)' THEN 1 ELSE 0
    BY <1>1, <1>2 DEF Reads
  <2>1. x[1] \in Nat /\ x[2] \in Nat /\ x[2] < size[x[1]]
    BY JobShape DEF PoolInv
  <2>2. Done(x)' => x[1] <= request
    BY <1>1, <1>3 DEF Done
  <2>3. x[1] = request => Done(x)
    BY <1>3, <1>8, <2>1 DEF Done, Busy, Working
  <2>4. x[1] <= request <=> x[1] <= done \/ x[1] = request
    BY <1>3, <2>1
  <2>5. Done(x) => x[1] = request
    BY DEF Done
  <2> QED BY <2>2, <2>3, <2>4, <2>5 DEF PoolInv, Reads
<1>12. Failures'
  <2>1. \A t \in Threads: pc'[t] \notin {"fail", "describe", "report"}
                          /\ pc[t] \notin {"fail", "describe", "report"}
    BY <1>1, <1>6, <1>7, <1>8 DEF Busy, Working
  <2> QED BY <1>1, <2>1 DEF PoolInv, Failures, Telling
<1> QED BY <1>4, <1>5, <1>9, <1>10, <1>11, <1>12 DEF PoolInv

LEMMA ServerStopsKeeps == ASSUME PoolInv, ServerStops PROVE PoolInv'
<1>1. /\ pc[Server] = "poll" /\ pc' = [pc EXCEPT ![Server] = "exited"]
      /\ UNCHANGED <<size, ssdVars, job, seen, closing, reads, broken>>
  BY DEF ServerStops, Goto
<1>2. Server \in Threads /\ \A t \in Threads: t # Server => pc'[t] = pc[t]
  BY <1>1 DEF PoolInv, Types, Threads
<1>3. pc'[Server] = "exited"
  BY <1>1, <1>2 DEF PoolInv, Types
<1>4. Busy' = Busy
  BY <1>1, <1>2, <1>3 DEF Busy, Working
<1>5. Published' = Published /\ Jobs' = Jobs
  BY <1>1 DEF Published, Jobs, JobsOf
<1>6. Ring' /\ Types'
  BY <1>1, <1>5 DEF PoolInv, Ring, Types, ssdVars
<1>7. Serving'
  BY <1>1, <1>2, <1>3, <1>4, <1>5, PoolAssumption DEF PoolInv, Serving, ssdVars, Threads
<1>8. Sharing'
  BY <1>1, <1>4 DEF PoolInv, Sharing, ssdVars
<1>9. Reads'
  <2> SUFFICES ASSUME NEW x \in Jobs PROVE Done(x)' <=> Done(x)
    BY <1>1, <1>5 DEF PoolInv, Reads, ssdVars
  <2> QED BY <1>1, <1>2, <1>3 DEF Done, ssdVars
<1>10. Failures'
  <2>1. \A t \in Threads: \A l \in {"fail", "describe", "report"}: pc'[t] = l <=> pc[t] = l
    BY <1>1, <1>2, <1>3
  <2> QED BY <1>1, <2>1 DEF PoolInv, Failures, Telling, Current, ssdVars
<1> QED BY <1>6, <1>7, <1>8, <1>9, <1>10 DEF PoolInv

LEMMA StopKeeps == ASSUME PoolInv, Stop \/ Join \/ UNCHANGED vars PROVE PoolInv'
<1>1. /\ UNCHANGED <<size, request, njobs, next, finished, gen, failing, failed, err, done,
                     pc, job, seen, reads, broken>>
      /\ stop' \in {stop, TRUE}
      /\ closing' \in {closing, "joining", "freed"}
  BY DEF Stop, Join, vars, ssdVars
<1>2. Published' = Published /\ Jobs' = Jobs /\ Busy' = Busy
  BY <1>1 DEF Published, Jobs, JobsOf, Busy
<1>3. Ring' /\ Types'
  BY <1>1, <1>2 DEF PoolInv, Ring, Types
<1>4. Serving' /\ Sharing'
  BY <1>1, <1>2 DEF PoolInv, Serving, Sharing
<1>5. Reads'
  BY <1>1, <1>2 DEF PoolInv, Reads, Done
<1>6. Failures'
  BY <1>1 DEF PoolInv, Failures, Current
<1> QED BY <1>3, <1>4, <1>5, <1>6 DEF PoolInv

-----------------------------------------------------------------------------
(* The steps of the threads that read.                                     *)

\* A step of one thread that takes and finishes no job and reads nothing.
Idle(t) ==
    /\ pc[t] \notin Working /\ pc'[t] \notin Working
    /\ \A u \in Threads \ {t}: pc'[u] = pc[u]
    /\ UNCHANGED <<size, ssdVars, job, closing, reads, broken>>

LEMMA IdleKeeps ==
    ASSUME PoolInv, NEW t \in Threads, Idle(t), Types', Serving'
    PROVE  PoolInv'
<1>1. UNCHANGED <<size, ssdVars, job, closing, reads, broken>>
  BY DEF Idle
<1>2. Published' = Published /\ Jobs' = Jobs
  BY <1>1 DEF Published, Jobs, JobsOf
<1>3. \A u \in Threads: \A l \in Working: pc'[u] = l <=> pc[u] = l
  BY DEF Idle
<1>4. Busy' = Busy
  BY <1>3 DEF Busy
<1>5. Ring'
  BY <1>1, <1>2 DEF PoolInv, Ring
<1>6. Sharing'
  BY <1>1, <1>4 DEF PoolInv, Sharing, ssdVars
<1>7. Reads'
  <2> SUFFICES ASSUME NEW x \in Jobs PROVE Done(x)' <=> Done(x)
    BY <1>1, <1>2 DEF PoolInv, Reads, ssdVars
  <2> QED BY <1>1, <1>3 DEF Done, ssdVars, Working
<1>8. Failures'
  BY <1>1, <1>3 DEF PoolInv, Failures, Telling, Working, Current, ssdVars
<1> QED BY <1>5, <1>6, <1>7, <1>8 DEF PoolInv

LEMMA WakeKeeps == ASSUME PoolInv, NEW w \in Workers, Wake(w) PROVE PoolInv'
<1>1. /\ pc[w] = "sleep" /\ seen' = [seen EXCEPT ![w] = gen]
      /\ pc' = [pc EXCEPT ![w] = IF stop THEN "exited" ELSE "take"]
      /\ UNCHANGED <<size, ssdVars, job, closing, reads, broken>>
  BY DEF Wake, Goto
<1>2. w \in Threads /\ \A u \in Threads \ {w}: pc'[u] = pc[u]
  BY <1>1 DEF PoolInv, Types, Threads
<1>3. pc'[w] \in {"exited", "take"}
  BY <1>1, <1>2 DEF PoolInv, Types
<1>4. Published' = Published /\ Jobs' = Jobs
  BY <1>1 DEF Published, Jobs, JobsOf
<1>5. Types'
  <2>1. pc' \in [Threads -> {"poll", "sleep", "take", "read", "fail", "describe", "report",
                             "count", "spin", "exited"}]
    BY <1>1 DEF PoolInv, Types
  <2>2. seen' \in [Workers -> 0 .. gen]
    BY <1>1 DEF PoolInv, Types
  <2> QED BY <1>1, <1>4, <2>1, <2>2 DEF PoolInv, Types, ssdVars
<1>6. Idle(w)
  BY <1>1, <1>2, <1>3 DEF Idle, Working
<1>7. Busy' = Busy
  BY <1>1, <1>2, <1>3 DEF Busy, Working
<1>8. Serving'
  BY <1>1, <1>2, <1>3, <1>4, <1>7, PoolAssumption DEF PoolInv, Serving, ssdVars, Threads
<1> QED BY <1>2, <1>5, <1>6, <1>8, IdleKeeps

LEMMA NoneLeftKeeps == ASSUME PoolInv, NEW t \in Threads, NoneLeft(t) PROVE PoolInv'
<1>1. /\ pc[t] = "take" /\ next >= njobs
      /\ pc' = [pc EXCEPT ![t] = IF t = Server THEN "spin" ELSE "sleep"]
      /\ UNCHANGED <<size, ssdVars, job, seen, closing, reads, broken>>
  BY DEF NoneLeft, Goto
<1>2. \A u \in Threads \ {t}: pc'[u] = pc[u]
  BY <1>1 DEF PoolInv, Types
<1>3. pc'[t] = IF t = Server THEN "spin" ELSE "sleep"
  BY <1>1 DEF PoolInv, Types
<1>4. Published' = Published /\ Jobs' = Jobs
  BY <1>1 DEF Published, Jobs, JobsOf
<1>5. Types'
  BY <1>1, <1>4 DEF PoolInv, Types, ssdVars
<1>6. Idle(t)
  BY <1>1, <1>2, <1>3 DEF Idle, Working
<1>7. Busy' = Busy
  BY <1>1, <1>2, <1>3 DEF Busy, Working
<1>8. next = njobs
  BY <1>1 DEF PoolInv, Sharing, Types
<1>9. Serving'
  BY <1>1, <1>2, <1>3, <1>4, <1>7, <1>8, PoolAssumption DEF PoolInv, Serving, ssdVars, Threads
<1> QED BY <1>5, <1>6, <1>9, IdleKeeps

\* A step of a thread with its job.
OnJob(t) ==
    /\ pc[t] \in Working /\ pc'[t] \in Working
    /\ \A u \in Threads \ {t}: pc'[u] = pc[u]
    /\ UNCHANGED <<size, request, njobs, next, finished, gen, stop, done, job, seen, closing>>

LEMMA OnJobKeeps ==
    ASSUME PoolInv, NEW t \in Threads, OnJob(t)
    PROVE  /\ Published' = Published /\ Jobs' = Jobs
           /\ Ring' /\ Serving' /\ Sharing'
           /\ UNCHANGED reads /\ pc[t] # "read" /\ pc'[t] # "read" => Reads'
<1>1. UNCHANGED <<size, request, njobs, next, finished, gen, stop, done, job, seen, closing>>
  BY DEF OnJob
<1>2. Published' = Published /\ Jobs' = Jobs
  BY <1>1 DEF Published, Jobs, JobsOf
<1>3. \A u \in Threads: u # t => pc'[u] = pc[u]
  BY DEF OnJob
<1>4. Busy' = Busy
  BY <1>3 DEF OnJob, Busy
<1>5. Ring' /\ Sharing'
  BY <1>1, <1>2, <1>4 DEF PoolInv, Ring, Sharing
<1>6. Serving'
  <2>1. \A u \in Threads: \A l \in {"poll", "spin", "sleep", "exited"}: pc'[u] = l <=> pc[u] = l
    BY <1>3 DEF OnJob, Working
  <2> QED BY <1>1, <1>2, <1>4, <2>1 DEF PoolInv, Serving, Threads
<1>7. ASSUME UNCHANGED reads, pc[t] # "read", pc'[t] # "read" PROVE Reads'
  <2> SUFFICES ASSUME NEW x \in Jobs PROVE Done(x)' <=> Done(x)
    BY <1>1, <1>2, <1>7 DEF PoolInv, Reads
  <2> QED BY <1>1, <1>3, <1>7 DEF Done
<1> QED BY <1>2, <1>5, <1>6, <1>7

LEMMA TakeKeeps == ASSUME PoolInv, NEW t \in Threads, Take(t) PROVE PoolInv'
<1>1. /\ pc[t] = "take" /\ next < njobs /\ next' = next + 1
      /\ job' = [job EXCEPT ![t] = next]
      /\ pc' = [pc EXCEPT ![t] = "read"]
      /\ UNCHANGED <<size, request, njobs, finished, gen, stop, failing, failed, err, done,
                     seen, closing, reads, broken>>
  BY DEF Take, Goto
<1>2. /\ \A u \in Threads \ {t}: pc'[u] = pc[u] /\ job'[u] = job[u]
      /\ pc'[t] = "read" /\ job'[t] = next
  BY <1>1 DEF PoolInv, Types
<1>3. Published' = Published /\ Jobs' = Jobs
  BY <1>1 DEF Published, Jobs, JobsOf
<1>4. next \in Nat /\ njobs \in Nat /\ finished \in Nat
  BY DEF PoolInv, Types
<1>5. Ring' /\ Types'
  BY <1>1, <1>3, <1>4 DEF PoolInv, Ring, Types
<1>6. Busy' = Busy \union {t} /\ t \notin Busy
  BY <1>1, <1>2 DEF Busy, Working
<1>7. pc[Server] \notin {"poll", "exited", "spin"}
  BY <1>1, <1>4 DEF PoolInv, Serving
<1>8. Serving'
  BY <1>1, <1>2, <1>3, <1>7 DEF PoolInv, Serving, Threads
<1>9. Sharing'
  <2>1. \A u \in Busy: job[u] < next /\ job[u] \in Nat /\ job'[u] = job[u]
    BY <1>2, <1>6 DEF PoolInv, Sharing, Types, Busy
  <2>2. \A u \in Busy': job'[u] < next'
    BY <1>1, <1>2, <1>4, <1>6, <2>1
  <2>3. \A u, v \in Busy': job'[u] = job'[v] => u = v
    BY <1>2, <1>4, <1>6, <2>1 DEF PoolInv, Sharing
  <2>4. IsFiniteSet(Busy') /\ Cardinality(Busy') = Cardinality(Busy) + 1
    BY <1>6, FS_AddElement DEF PoolInv, Sharing
  <2>5. Cardinality(Busy) \in Nat
    BY FS_CardinalityType DEF PoolInv, Sharing
  <2> QED BY <1>1, <1>4, <2>2, <2>3, <2>4, <2>5 DEF PoolInv, Sharing
<1>10. Reads'
  <2> SUFFICES ASSUME NEW x \in Jobs PROVE Done(x)' <=> Done(x)
    BY <1>1, <1>3 DEF PoolInv, Reads
  <2>1. x[2] \in Nat
    BY JobShape DEF PoolInv
  <2>2. (\A u \in Threads: pc'[u] = "read" => job'[u] # x[2])
        <=> (\A u \in Threads: pc[u] = "read" => job[u] # x[2]) /\ x[2] # next
    BY <1>1, <1>2
  <2>3. x[2] < next' /\ x[2] # next <=> x[2] < next
    BY <1>1, <1>4, <2>1
  <2> QED BY <1>1, <2>2, <2>3 DEF Done
<1>11. Failures'
  <2>1. \A u \in Threads: \A l \in {"fail", "describe", "report"}: pc'[u] = l <=> pc[u] = l
    BY <1>1, <1>2
  <2>2. \A u \in Threads: pc[u] \in {"fail", "describe"} => job'[u] = job[u]
    BY <1>1, <1>2
  <2> QED BY <1>1, <2>1, <2>2 DEF PoolInv, Failures, Telling, Current
<1> QED BY <1>5, <1>8, <1>9, <1>10, <1>11 DEF PoolInv

LEMMA ReadKeeps == ASSUME PoolInv, NEW t \in Threads, Read(t) PROVE PoolInv'
<1>1. /\ pc[t] = "read" /\ reads' = [reads EXCEPT ![Current(t)] = @ + 1]
      /\ UNCHANGED <<size, ssdVars, job, seen, closing>>
  BY DEF Read
<1>2. \/ pc' = [pc EXCEPT ![t] = "count"] /\ broken' = broken
      \/ pc' = [pc EXCEPT ![t] = "fail"] /\ broken' = broken \union {Current(t)}
  BY DEF Read, Goto
<1>3. /\ \A u \in Threads: u # t => pc'[u] = pc[u]
      /\ pc'[t] \in {"count", "fail"}
  BY <1>2 DEF PoolInv, Types
<1>4. OnJob(t)
  BY <1>1, <1>3 DEF OnJob, Working, ssdVars
<1>5. Published' = Published /\ Jobs' = Jobs /\ Ring' /\ Serving' /\ Sharing'
  BY <1>4, OnJobKeeps
<1>6. t \in Busy
  BY <1>1 DEF Busy, Working
<1>7. /\ Current(t) \in Jobs /\ request = done + 1
      /\ Current(t)[1] = request /\ Current(t)[2] = job[t]
  BY <1>6, CurrentIsJob
<1>8. Types'
  <2>1. pc' \in [Threads -> {"poll", "sleep", "take", "read", "fail", "describe", "report",
                             "count", "spin", "exited"}]
    BY <1>2 DEF PoolInv, Types
  <2>2. reads' \in [Jobs -> Nat] /\ broken' \subseteq Jobs
    BY <1>1, <1>2, <1>7 DEF PoolInv, Types
  <2> QED BY <1>1, <1>5, <2>1, <2>2 DEF PoolInv, Types, ssdVars
<1>9. Reads'
  <2> SUFFICES ASSUME NEW x \in Jobs
               PROVE  reads'[x] = IF x[1] <= done \/ Done(x)' THEN 1 ELSE 0
    BY <1>1, <1>5 DEF Reads, ssdVars
  <2>1. x = <<x[1], x[2]>>
    BY JobShape DEF PoolInv
  <2>2. reads[x] = IF x[1] <= done \/ Done(x) THEN 1 ELSE 0
    BY DEF PoolInv, Reads
  <2>3. done \in Nat /\ next \in Nat
    BY DEF PoolInv, Types
  <2>4. CASE x = Current(t)
    <3>1. ~ Done(x) /\ ~ (x[1] <= done)
      BY <1>1, <1>7, <2>3, <2>4 DEF Done
    <3>2. reads'[x] = 1
      BY <1>1, <2>2, <2>4, <3>1 DEF PoolInv, Types
    <3>3. job[t] < next
      BY <1>6 DEF PoolInv, Sharing
    <3>4. \A u \in Threads: pc'[u] = "read" => job[u] # job[t]
      BY <1>3, <1>6 DEF PoolInv, Sharing, Busy, Working
    <3>5. Done(x)'
      BY <1>1, <1>7, <2>4, <3>3, <3>4 DEF Done, ssdVars
    <3> QED BY <3>2, <3>5
  <2>5. CASE x # Current(t)
    <3>1. reads'[x] = reads[x]
      BY <1>1, <2>5 DEF PoolInv, Types
    <3>2. x[1] = request => x[2] # job[t]
      BY <1>7, <2>1, <2>5 DEF Current
    <3>3. Done(x)' <=> Done(x)
      BY <1>1, <1>3, <3>2 DEF Done, ssdVars
    <3> QED BY <2>2, <3>1, <3>3
  <2> QED BY <2>4, <2>5
<1>10. Failures'
  <2>1. \A u \in Threads: Current(u)' = Current(u)
    BY <1>1 DEF Current, ssdVars
  <2>2. \A u \in Threads: \A l \in {"describe", "report"}: pc'[u] = l <=> pc[u] = l
    BY <1>1, <1>3
  <2>3. \A u \in Threads: pc'[u] \in {"fail", "describe"} => Current(u) \in broken'
    BY <1>1, <1>2, <1>3 DEF PoolInv, Failures, Types
  <2>4. broken' # {} => failing \/ \E u \in Threads: pc'[u] = "fail"
    <3>1. CASE broken' = broken /\ pc'[t] = "count"
      BY <1>1, <1>3, <3>1 DEF PoolInv, Failures
    <3>2. CASE pc'[t] = "fail"
      BY <3>2
    <3> QED BY <1>2, <3>1, <3>2 DEF PoolInv, Types
  <2>5. (\E x \in broken': x[1] <= done) => failed
    <3>1. ~ (Current(t)[1] <= done)
      BY <1>7 DEF PoolInv, Types
    <3> QED BY <1>2, <3>1 DEF PoolInv, Failures
  <2>6. broken \subseteq broken'
    BY <1>2
  <2> QED BY <1>1, <2>1, <2>2, <2>3, <2>4, <2>5, <2>6 DEF PoolInv, Failures, Telling, ssdVars
<1> QED BY <1>5, <1>8, <1>9, <1>10 DEF PoolInv

LEMMA FailKeeps == ASSUME PoolInv, NEW t \in Threads, Fail(t) PROVE PoolInv'
<1>1. /\ pc[t] = "fail" /\ failing' = TRUE
      /\ pc' = [pc EXCEPT ![t] = IF failing THEN "count" ELSE "describe"]
      /\ UNCHANGED <<size, request, njobs, next, finished, gen, stop, failed, err, done,
                     job, seen, closing, reads, broken>>
  BY DEF Fail, Goto
<1>2. /\ \A u \in Threads: u # t => pc'[u] = pc[u]
      /\ pc'[t] = IF failing THEN "count" ELSE "describe"
  BY <1>1 DEF PoolInv, Types
<1>3. OnJob(t)
  BY <1>1, <1>2 DEF OnJob, Working
<1>4. Published' = Published /\ Jobs' = Jobs /\ Ring' /\ Serving' /\ Sharing' /\ Reads'
  BY <1>1, <1>2, <1>3, OnJobKeeps
<1>5. Types'
  BY <1>1, <1>4 DEF PoolInv, Types
<1>6. Failures'
  <2>1. \A u \in Threads: Current(u)' = Current(u)
    BY <1>1 DEF Current
  <2>2. CASE failing
    <3>1. \A u \in Threads: pc'[u] \in Telling <=> pc[u] \in Telling
      BY <1>1, <1>2, <2>2 DEF Telling
    <3>2. \A u \in Threads: /\ pc'[u] = "report" <=> pc[u] = "report"
                            /\ pc'[u] \in {"fail", "describe"} => pc[u] \in {"fail", "describe"}
      BY <1>1, <1>2, <2>2
    <3> QED BY <1>1, <2>1, <2>2, <3>1, <3>2 DEF PoolInv, Failures
  <2>3. CASE ~ failing
    <3>1. ~ failed /\ \A u \in Threads: pc[u] \notin Telling
      BY <2>3 DEF PoolInv, Failures
    <3>2. pc'[t] = "describe" /\ \A u \in Threads: pc'[u] \in Telling => u = t
      BY <1>2, <2>3, <3>1
    <3>3. \A u \in Threads: pc'[u] # "report"
      BY <1>2, <3>1, <3>2 DEF Telling
    <3>4. \A u \in Threads: pc'[u] \in {"fail", "describe"} => Current(u) \in broken
      BY <1>1, <1>2 DEF PoolInv, Failures
    <3>5. ~ \E x \in broken: x[1] <= done
      BY <3>1 DEF PoolInv, Failures
    <3> QED BY <1>1, <2>1, <3>1, <3>2, <3>3, <3>4, <3>5 DEF Failures, Telling
  <2> QED BY <2>2, <2>3
<1> QED BY <1>4, <1>5, <1>6 DEF PoolInv

LEMMA DescribeKeeps == ASSUME PoolInv, NEW t \in Threads, Describe(t) PROVE PoolInv'
<1>1. /\ pc[t] = "describe" /\ err' = Current(t)
      /\ pc' = [pc EXCEPT ![t] = "report"]
      /\ UNCHANGED <<size, request, njobs, next, finished, gen, stop, failing, failed, done,
                     job, seen, closing, reads, broken>>
  BY DEF Describe, Goto
<1>2. /\ \A u \in Threads: u # t => pc'[u] = pc[u]
      /\ pc'[t] = "report"
  BY <1>1 DEF PoolInv, Types
<1>3. OnJob(t)
  BY <1>1, <1>2 DEF OnJob, Working
<1>4. Published' = Published /\ Jobs' = Jobs /\ Ring' /\ Serving' /\ Sharing' /\ Reads'
  BY <1>1, <1>2, <1>3, OnJobKeeps
<1>5. Current(t) \in broken
  BY <1>1 DEF PoolInv, Failures
<1>6. Types'
  BY <1>1, <1>4, <1>5 DEF PoolInv, Types
<1>7. Failures'
  <2>1. \A u \in Threads: Current(u)' = Current(u)
    BY <1>1 DEF Current
  <2>2. \A u \in Threads: pc'[u] \in Telling <=> pc[u] \in Telling
    BY <1>1, <1>2 DEF Telling
  <2>3. \A u \in Threads: /\ pc'[u] = "fail" <=> pc[u] = "fail"
                          /\ pc'[u] = "describe" => pc[u] = "describe"
    BY <1>1, <1>2
  <2> QED BY <1>1, <1>5, <2>1, <2>2, <2>3 DEF PoolInv, Failures
<1> QED BY <1>4, <1>6, <1>7 DEF PoolInv

LEMMA ReportKeeps == ASSUME PoolInv, NEW t \in Threads, Report(t) PROVE PoolInv'
<1>1. /\ pc[t] = "report" /\ failed' = TRUE
      /\ pc' = [pc EXCEPT ![t] = "count"]
      /\ UNCHANGED <<size, request, njobs, next, finished, gen, stop, failing, err, done,
                     job, seen, closing, reads, broken>>
  BY DEF Report, Goto
<1>2. /\ \A u \in Threads: u # t => pc'[u] = pc[u]
      /\ pc'[t] = "count"
  BY <1>1 DEF PoolInv, Types
<1>3. OnJob(t)
  BY <1>1, <1>2 DEF OnJob, Working
<1>4. Published' = Published /\ Jobs' = Jobs /\ Ring' /\ Serving' /\ Sharing' /\ Reads'
  BY <1>1, <1>2, <1>3, OnJobKeeps
<1>5. Types'
  BY <1>1, <1>4 DEF PoolInv, Types
<1>6. Failures'
  <2>1. \A u \in Threads: Current(u)' = Current(u)
    BY <1>1 DEF Current
  <2>2. err \in broken /\ failing
    BY <1>1 DEF PoolInv, Failures, Telling
  <2>3. \A u \in Threads: pc'[u] \notin Telling
    BY <1>1, <1>2 DEF PoolInv, Failures, Telling
  <2>4. \A u \in Threads: pc'[u] = "fail" => Current(u) \in broken
    BY <1>2 DEF PoolInv, Failures
  <2> QED BY <1>1, <2>1, <2>2, <2>3, <2>4 DEF Failures, Telling
<1> QED BY <1>4, <1>5, <1>6 DEF PoolInv

LEMMA CountKeeps == ASSUME PoolInv, NEW t \in Threads, Count(t) PROVE PoolInv'
<1>1. /\ pc[t] = "count" /\ finished' = finished + 1
      /\ pc' = [pc EXCEPT ![t] = "take"]
      /\ UNCHANGED <<size, request, njobs, next, gen, stop, failing, failed, err, done,
                     job, seen, closing, reads, broken>>
  BY DEF Count, Goto
<1>2. /\ \A u \in Threads: u # t => pc'[u] = pc[u]
      /\ pc'[t] = "take"
  BY <1>1 DEF PoolInv, Types
<1>3. Published' = Published /\ Jobs' = Jobs
  BY <1>1 DEF Published, Jobs, JobsOf
<1>4. Ring' /\ Types'
  BY <1>1, <1>3 DEF PoolInv, Ring, Types
<1>5. Busy' = Busy \ {t} /\ t \in Busy
  BY <1>1, <1>2 DEF Busy, Working
<1>6. pc[Server] \notin {"poll", "exited"} /\ (pc'[Server] \in {"poll", "spin", "exited", "sleep"}
                                              => pc'[Server] = pc[Server])
  BY <1>2, <1>5 DEF PoolInv, Serving, Threads
<1>7. Serving'
  BY <1>1, <1>2, <1>3, <1>6 DEF PoolInv, Serving, Threads
<1>8. Sharing'
  <2>1. /\ IsFiniteSet(Busy') /\ Cardinality(Busy') = Cardinality(Busy) - 1
        /\ Cardinality(Busy) \in Nat
    BY <1>5, FS_RemoveElement, FS_CardinalityType DEF PoolInv, Sharing
  <2>2. finished' + Cardinality(Busy') = next
    BY <1>1, <2>1 DEF PoolInv, Sharing, Types
  <2> QED BY <1>1, <1>5, <2>1, <2>2 DEF PoolInv, Sharing
<1>9. Reads'
  <2> SUFFICES ASSUME NEW x \in Jobs PROVE Done(x)' <=> Done(x)
    BY <1>1, <1>3 DEF PoolInv, Reads
  <2> QED BY <1>1, <1>2 DEF Done
<1>10. Failures'
  <2>1. \A u \in Threads: \A l \in {"fail", "describe", "report"}: pc'[u] = l <=> pc[u] = l
    BY <1>1, <1>2
  <2> QED BY <1>1, <2>1 DEF PoolInv, Failures, Telling, Current
<1> QED BY <1>4, <1>7, <1>8, <1>9, <1>10 DEF PoolInv

LEMMA ThreadKeeps == ASSUME PoolInv, NEW t \in Threads, ThreadStep(t) PROVE PoolInv'
BY TakeKeeps, NoneLeftKeeps, ReadKeeps, FailKeeps, DescribeKeeps, ReportKeeps, CountKeeps
   DEF ThreadStep

\* PoolInv is inductive.
LEMMA PoolNext == PoolInv /\ [Next]_vars => PoolInv'
<1> SUFFICES ASSUME PoolInv, [Next]_vars PROVE PoolInv'
  OBVIOUS
<1>1. CASE Publish
  BY <1>1, PublishKeeps
<1>2. CASE Stop \/ Join \/ UNCHANGED vars
  BY <1>2, StopKeeps
<1>3. CASE ServerStep
  BY <1>3, ServerStopsKeeps, LoadKeeps, ServeKeeps, ThreadKeeps DEF ServerStep, Threads
<1>4. CASE \E w \in Workers: WorkerStep(w)
  BY <1>4, WakeKeeps, ThreadKeeps DEF WorkerStep, Threads
<1> QED BY <1>1, <1>2, <1>3, <1>4 DEF Next

LEMMA PoolInvariant == Spec => []PoolInv
<1> QED BY PoolInit, PoolNext, PTL DEF Spec

-----------------------------------------------------------------------------
\* No index, counter or generation leaves its range, for any number of workers
\* (store.py:104-108, the state under mu).
THEOREM PoolTypeCorrect == Spec => []TypeOK
<1>1. PoolInv => TypeOK
  <2> SUFFICES ASSUME PoolInv PROVE TypeOK
    OBVIOUS
  <2>1. Cardinality(Busy) \in Nat
    BY FS_CardinalityType DEF PoolInv, Sharing
  <2>2. finished \in 0 .. njobs /\ next \in 0 .. njobs
    BY <2>1 DEF PoolInv, Sharing, Types
  <2> QED BY <2>2 DEF PoolInv, Types, TypeOK
<1> QED BY <1>1, PoolInvariant, PTL

\* However many workers there are and whenever they wake, every job of a served
\* request was read exactly once, and nobody uses the job list while the server
\* polls (store.py:104-105).
THEOREM ServedOnce == Spec => []ServedJobsReadOnce
<1>1. PoolInv => ServedJobsReadOnce
  <2> SUFFICES ASSUME PoolInv PROVE ServedJobsReadOnce
    OBVIOUS
  <2>1. ASSUME NEW x \in Jobs
        PROVE  /\ x[1] <= done => reads[x] = 1
               /\ x[1] > done + 1 => reads[x] = 0
               /\ reads[x] <= 1
    <3>1. reads[x] = IF x[1] <= done \/ Done(x) THEN 1 ELSE 0
      BY DEF PoolInv, Reads
    <3>2. x[1] \in Nat /\ done \in Nat
      BY JobShape DEF PoolInv, Types
    <3>3. request <= done + 1
      BY <3>2 DEF PoolInv, Serving
    <3> QED BY <3>1, <3>2, <3>3 DEF Done
  <2>2. ASSUME pc[Server] = "poll", NEW w \in Workers
        PROVE  pc[w] \notin {"read", "fail", "describe", "report", "count"}
    BY <2>2 DEF PoolInv, Serving, Busy, Working, Threads
  <2> QED BY <2>1, <2>2 DEF ServedJobsReadOnce
<1> QED BY <1>1, PoolInvariant, PTL

\* The failure of a read is there, with the text of a job that failed, before
\* the GPU is released (store.py:246).
THEOREM FailureIsVisible == Spec => []FailureVisibleAtDone
<1>1. PoolInv => FailureVisibleAtDone
  BY DEF PoolInv, Failures, FailureVisibleAtDone
<1> QED BY <1>1, PoolInvariant, PTL

\* Two threads that fail at once do not overwrite each other's text
\* (store.py:127-134).
THEOREM FirstFailureStays == Spec => FirstFailureKept
<1>1. PoolInv /\ [Next]_vars => [failed => failed' /\ err' = err]_vars
  <2> SUFFICES ASSUME PoolInv, Next, failed PROVE failed' /\ err' = err
    OBVIOUS
  <2>1. ASSUME NEW t \in Threads, ThreadStep(t) PROVE failed' /\ err' = err
    <3>1. ~ Describe(t)
      BY DEF Describe, PoolInv, Failures, Telling
    <3> QED BY <2>1, <3>1 DEF ThreadStep, Take, NoneLeft, Read, Fail, Report, Count, ssdVars
  <2>2. ServerStep => failed' /\ err' = err
    BY <2>1 DEF ServerStep, ServerStops, Load, Serve, Threads, ssdVars
  <2>3. (\E w \in Workers: WorkerStep(w)) => failed' /\ err' = err
    BY <2>1 DEF WorkerStep, Wake, Threads, ssdVars
  <2>4. Publish \/ Stop \/ Join => failed' /\ err' = err
    BY DEF Publish, Stop, Join, ssdVars
  <2> QED BY <2>2, <2>3, <2>4 DEF Next
<1> QED BY <1>1, PoolInvariant, PTL DEF Spec, FirstFailureKept
=============================================================================
