------------------------------- MODULE Loader -------------------------------
(***************************************************************************)
(* Starting engines (store.py: Store.__init__ and write; native.py: build; *)
(* experts.py: weight_loader and _expert_pager_setup): the paging file and *)
(* the compiled library, which processes and their restarts share, and the *)
(* staging of the two shards of w13.                                       *)
(*                                                                         *)
(* The checkpoint is the same in every process; a shard stands for its     *)
(* contents.  A row of w13 is the pair of its shards, a row of w2 its      *)
(* shard alone.  The paging file is a function from the places written to  *)
(* the rows there, and as long as the last of them reaches.  The tiers are *)
(* compressed, as they are by default when there is a paging file.         *)
(***************************************************************************)
EXTENDS Integers, FiniteSets, FiniteSetsExt, Functions

CONSTANTS
    Procs,       \* the processes
    Layers, E, R,
    AnyOrder,    \* bound: the processes that get the shards of a layer in any order
    MayLack,     \* bound: the shards one of which the checkpoint may lack
    CacheSlots,  \* CACHE_SLOTS
    RowSize,     \* raw bytes of a row, by name
    PitchSize,   \* bytes of a compressed row, by name
    WorkingRows, \* the values of WORKING_ROWS
    MaxStarts,   \* bound: starts of engines
    MaxShort     \* bound: writes the system cuts short

Names == {"w13", "w2"}
LayerExperts == (0 .. (Layers - 1)) \X (0 .. (E - 1))
Shards == {<<x, kind>>: x \in LayerExperts, kind \in {"w1", "w3", "w2"}}

\* Checked by ExpertPagerRoutedExperts.__init__ and Store.__init__; with R = E
\* there is no paging file.
ASSUME LoaderAssumption ==
    /\ Layers \in Nat \ {0} /\ E \in Nat /\ R \in Nat
    /\ 1 <= R /\ R < E
    /\ AnyOrder \subseteq Procs /\ MayLack \subseteq Shards
    /\ RowSize \in [Names -> Nat \ {0}] /\ PitchSize \in [Names -> Nat \ {0}]
    /\ CacheSlots \in Nat \ {0} /\ WorkingRows \subseteq Nat \ {0}
    /\ MaxStarts \in Nat /\ MaxShort \in Nat

VARIABLES
    \* the environment, which does not change
    working,    \* WORKING_ROWS
    absent,     \* the shards the checkpoint lacks
    \* on disk
    file,       \* the paging file, or NoFile
    lib,        \* the library in the cache: "none", "part" or "whole"
    out,        \* the compiler's output, by process: the same
    \* a process
    phase,      \* "off", "checked", "open", "compiling", "compiled", "replaced",
                \* "loading", "ready", "refused" (the file), "failed" (the setup)
    loaded,     \* the library it runs: "none", "part" or "whole"
    todo,       \* the shards still to come
    stage,      \* the shards of w13 that are in, by layer and expert
    pinned,     \* the rows in the RAM tier, by row and name
    \* history
    starts,     \* engines started
    short,      \* writes cut short
    disturbed,  \* processes whose file was opened by another one meanwhile
    broken      \* the file is not from a load that ended

envVars == <<working, absent>>
libVars == <<lib, out, loaded>>
loadVars == <<todo, stage, pinned>>
vars == <<envVars, file, libVars, loadVars, phase, starts, short, disturbed, broken>>

-----------------------------------------------------------------------------
(* Rows and where they are kept.                                           *)

None == <<>>
Cut == <<>>                     \* a row of which only the beginning was written
NoFile == [i \in {-1} |-> Cut]  \* there is no file of this name

Row(x, name) ==
    IF name = "w13" THEN <<<<x, "w1">>, <<x, "w3">>>> ELSE <<<<x, "w2">>>>

\* Mutants: layers counted from one; both names at the head of a record.
PlaceFromOne(x, name) == 2 * ((x[1] + 1) * E + x[2]) + (IF name = "w2" THEN 1 ELSE 0)
PlaceOfRecord(x, name) == 2 * (x[1] * E + x[2])

\* Where a row is in the paging file.
Place(x, name) == 2 * (x[1] * E + x[2]) + (IF name = "w2" THEN 1 ELSE 0)
Places == 0 .. (2 * Layers * E - 1)

\* Sizes count half rows: a row cut short is a half.
SizeOf(f) ==
    IF DOMAIN f = {} THEN 0
    ELSE LET last == Max(DOMAIN f) IN 2 * last + (IF f[last] = Cut THEN 1 ELSE 2)
FullSize == 2 * Cardinality(Places)

RamRow(x) == x[1] * R + x[2]
RamRows == 0 .. (Layers * R - 1)

\* Mutant: a half is known by its expert alone.
StageOfExpert(x) == <<0, x[2]>>

\* Every layer has its own dict of staged experts.
StageKey(x) == x

NothingStaged == [x \in LayerExperts |-> {}]
NothingPinned == [r \in RamRows |-> [name \in Names |-> None]]

Opened(p) == phase[p] \notin {"off", "checked", "refused"}

Init ==
    /\ working \in WorkingRows
    /\ absent \in {{}} \union {{s}: s \in MayLack}
    /\ file \in {NoFile, [i \in {0} |-> Cut]}
    /\ broken = (file # NoFile)
    /\ lib = "none"
    /\ out = [p \in Procs |-> "none"]
    /\ phase = [p \in Procs |-> "off"]
    /\ loaded = [p \in Procs |-> "none"]
    /\ todo = [p \in Procs |-> {}]
    /\ stage = [p \in Procs |-> NothingStaged]
    /\ pinned = [p \in Procs |-> NothingPinned]
    /\ starts = 0 /\ short = 0 /\ disturbed = {}

-----------------------------------------------------------------------------
(* Store.__init__.                                                         *)

\* A file that is there must have the size of a paging file.
Check(p) ==
    /\ phase[p] = "off" /\ starts < MaxStarts
    /\ starts' = starts + 1
    /\ phase' = [phase EXCEPT ![p] =
                    IF file # NoFile /\ SizeOf(file) # FullSize THEN "refused"
                    ELSE "checked"]
    /\ UNCHANGED <<envVars, file, libVars, loadVars, short, disturbed, broken>>

\* Open the file and cut it to nothing.
Open(p) ==
    /\ phase[p] = "checked"
    /\ phase' = [phase EXCEPT ![p] = "open"]
    /\ file' = [i \in {} |-> Cut]
    /\ broken' = TRUE
    /\ LET others == {q \in Procs \ {p}: Opened(q)}
       IN  disturbed' = (disturbed \ {p}) \union others
                            \union (IF others = {} THEN {} ELSE {p})
    /\ todo' = [todo EXCEPT ![p] = Shards \ absent]
    /\ UNCHANGED <<envVars, libVars, stage, pinned, starts, short>>

-----------------------------------------------------------------------------
(* build.                                                                  *)

\* Mutant: the compiler writes the library in place.
CompileInPlace(p) ==
    /\ phase[p] = "open" /\ lib = "none"
    /\ phase' = [phase EXCEPT ![p] = "compiling"]
    /\ lib' = "part"
    /\ UNCHANGED <<envVars, file, out, loaded, loadVars, starts, short, disturbed, broken>>

\* No library in the cache: compile to a file of this process id.
Compile(p) ==
    /\ phase[p] = "open" /\ lib = "none"
    /\ phase' = [phase EXCEPT ![p] = "compiling"]
    /\ out' = [out EXCEPT ![p] = "part"]
    /\ UNCHANGED <<envVars, file, lib, loaded, loadVars, starts, short, disturbed, broken>>

Compiled(p) ==
    /\ phase[p] = "compiling"
    /\ phase' = [phase EXCEPT ![p] = "compiled"]
    /\ out' = [out EXCEPT ![p] = "whole"]
    /\ UNCHANGED <<envVars, file, lib, loaded, loadVars, starts, short, disturbed, broken>>

\* The rename takes the output to its place at once.
Replace(p) ==
    /\ phase[p] = "compiled"
    /\ phase' = [phase EXCEPT ![p] = "replaced"]
    /\ lib' = out[p]
    /\ out' = [out EXCEPT ![p] = "none"]
    /\ UNCHANGED <<envVars, file, loaded, loadVars, starts, short, disturbed, broken>>

\* Load what is in the cache.
LoadLibrary(p) ==
    /\ phase[p] = "replaced" \/ (phase[p] = "open" /\ lib # "none")
    /\ phase' = [phase EXCEPT ![p] = "loading"]
    /\ loaded' = [loaded EXCEPT ![p] = lib]
    /\ UNCHANGED <<envVars, file, lib, out, loadVars, starts, short, disturbed, broken>>

-----------------------------------------------------------------------------
(* weight_loader and Store.write.                                          *)

\* The layers come one after another.
NextShards(p) ==
    LET Number(s) == 3 * (s[1][1] * E + s[1][2])
                        + (CASE s[2] = "w1" -> 0 [] s[2] = "w3" -> 1 [] s[2] = "w2" -> 2)
        here == {s \in todo[p]: \A t \in todo[p]: s[1][1] <= t[1][1]}
    IN  IF p \in AnyOrder THEN here
        ELSE {s \in here: \A t \in here: Number(s) <= Number(t)}

\* Write a row to the RAM tier, when its expert is one of the first R, and to
\* the file.  The system may write less than asked, and nobody looks: what
\* was there before stays.
Write(p, x, name, row) ==
    LET i == Place(x, name)
        Put(r) == [j \in DOMAIN file \union {i} |-> IF j = i THEN r ELSE file[j]]
    IN  /\ pinned' = IF x[2] < R THEN [pinned EXCEPT ![p][RamRow(x)][name] = row]
                     ELSE pinned
        /\ \/ file' = Put(row) /\ UNCHANGED short
           \/ /\ short < MaxShort /\ short' = short + 1
              /\ file' = IF i \in DOMAIN file THEN file ELSE Put(Cut)

\* A shard of w13 is staged until its expert's other one is in.
LoadW13(p) ==
    /\ phase[p] = "loading"
    /\ \E s \in NextShards(p):
          LET x == s[1]
              staged == stage[p][StageKey(x)] \union {s}
              Shard(kind) == CHOOSE t \in staged: t[2] = kind
          IN  /\ s[2] \in {"w1", "w3"}
              /\ todo' = [todo EXCEPT ![p] = @ \ {s}]
              /\ IF {t[2]: t \in staged} = {"w1", "w3"}
                 THEN /\ stage' = [stage EXCEPT ![p][StageKey(x)] = {}]
                      /\ Write(p, x, "w13", <<Shard("w1"), Shard("w3")>>)
                 ELSE /\ stage' = [stage EXCEPT ![p][StageKey(x)] = staged]
                      /\ UNCHANGED <<pinned, file, short>>
    /\ UNCHANGED <<envVars, libVars, phase, starts, disturbed, broken>>

LoadW2(p) ==
    /\ phase[p] = "loading"
    /\ \E s \in NextShards(p):
          /\ s[2] = "w2"
          /\ todo' = [todo EXCEPT ![p] = @ \ {s}]
          /\ Write(p, s[1], "w2", <<s>>)
    /\ UNCHANGED <<envVars, libVars, stage, phase, starts, disturbed, broken>>

-----------------------------------------------------------------------------
(* _expert_pager_setup, and the end of a process.                          *)

\* Mutant: rounded down.
LeastRoundedDown(name) == (CacheSlots * PitchSize[name]) \div RowSize[name]

\* The rows of the working slab that the decode staging takes.
Least(name) == (CacheSlots * PitchSize[name] + RowSize[name] - 1) \div RowSize[name]

\* Every shard of the checkpoint is in.
Setup(p) ==
    /\ phase[p] = "loading" /\ todo[p] = {}
    /\ phase' = [phase EXCEPT ![p] =
                    IF working < Max({Least(name): name \in Names}) THEN "failed"
                    ELSE "ready"]
    /\ broken' = (disturbed # {} \/ short > 0 \/ absent # {})
    /\ UNCHANGED <<envVars, file, libVars, loadVars, starts, short, disturbed>>

\* A process may crash or be ended at any time; an exception ends it.
Leave(p) ==
    /\ phase[p] # "off"
    /\ phase' = [phase EXCEPT ![p] = "off"]
    /\ loaded' = [loaded EXCEPT ![p] = "none"]
    /\ todo' = [todo EXCEPT ![p] = {}]
    /\ stage' = [stage EXCEPT ![p] = NothingStaged]
    /\ pinned' = [pinned EXCEPT ![p] = NothingPinned]
    /\ disturbed' = disturbed \ {p}
    /\ UNCHANGED <<envVars, file, lib, out, starts, short, broken>>

Next ==
    \E p \in Procs:
       \/ Check(p) \/ Open(p)
       \/ Compile(p) \/ Compiled(p) \/ Replace(p) \/ LoadLibrary(p)
       \/ LoadW13(p) \/ LoadW2(p)
       \/ Setup(p) \/ Leave(p)

Spec == Init /\ [][Next]_vars

-----------------------------------------------------------------------------
(* Properties.                                                             *)

Halves == [LayerExperts -> SUBSET Shards]

TypeOK ==
    /\ working \in WorkingRows /\ absent \subseteq MayLack
    /\ file # NoFile => DOMAIN file \subseteq Places
    /\ lib \in {"none", "part", "whole"}
    /\ \A p \in Procs: /\ out[p] \in {"none", "part", "whole"}
                       /\ todo[p] \subseteq Shards
                       /\ stage[p] \in Halves
    /\ starts \in 0 .. MaxStarts /\ short \in 0 .. MaxShort
    /\ disturbed \subseteq Procs

\* No process runs a library that is not whole, whoever else builds it at the
\* same time or died while building it (native.py: os.replace).
LibraryIsWhole == \A p \in Procs: loaded[p] # "part"

KindsOf(name) == IF name = "w13" THEN {"w1", "w3"} ELSE {"w2"}
Complete(x, name) == \A kind \in KindsOf(name): <<x, kind>> \notin absent

\* When an engine is ready, the rows of the experts below R are in the RAM tier
\* and, unless another process opened the file meanwhile or a write was cut
\* short, every row is at its place in the file (README.md "holds every expert
\* of every layer"), whatever the order of the shards.  Nothing is left in the
\* staging but halves of rows whose other shard never came.
ReadyIsStored ==
    \A p \in Procs, x \in LayerExperts: phase[p] = "ready" =>
        /\ \A name \in Names: Complete(x, name) =>
              /\ x[2] < R => pinned[p][RamRow(x)][name] = Row(x, name)
              /\ p \notin disturbed /\ short = 0 => file[Place(x, name)] = Row(x, name)
        /\ Complete(x, "w13") => stage[p][x] = {}

\* A start is refused only when the file is not from a load that ended
\* (store.py:464 "An existing file is only overwritten if it is a previous paging
\* file"): a file that was loaded undisturbed is taken by every later start.
RefusedOnlyIfBroken ==
    [][\A p \in Procs: phase[p] = "off" /\ phase'[p] = "refused" => broken]_vars

\* An engine that is ready has a working slab that holds the decode staging,
\* and one that failed has not (experts.py: "cannot hold the decode staging").
StagingFits ==
    \A p \in Procs:
        LET fits == \A name \in Names: CacheSlots * PitchSize[name] <= working * RowSize[name]
        IN  /\ phase[p] = "ready" => fits
            /\ phase[p] = "failed" => ~ fits
=============================================================================
