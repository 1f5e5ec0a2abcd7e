--------------------------- MODULE FetchRingProofs ---------------------------
(***************************************************************************)
(* Proofs about FetchRing, for every ring size, every set of forward steps *)
(* and every bound.  First what holds whatever is lost or given up (types, *)
(* and every wait waits for its own request), then how far a give-up can   *)
(* reach, then what holds while fewer than Ring-1 of the requests given up *)
(* are unserved (every accepted request was read, none is read twice).     *)
(***************************************************************************)
EXTENDS MCFetchRing, FiniteSetTheorems, TLAPS

-----------------------------------------------------------------------------
(* Two requests less than Ring apart are in different slots.               *)

LEMMA SlotRange ==
    ASSUME NEW x \in Nat
    PROVE  Slot(x) \in Slots
  BY RingAssumption DEF Slot, Slots

LEMMA SlotsDiffer ==
    ASSUME NEW x \in Nat, NEW y \in Nat, x < y, y - x < Ring
    PROVE  Slot(x) # Slot(y)
<1> DEFINE qx == x \div Ring
           qy == y \div Ring
<1>1. /\ qx \in Int /\ qy \in Int
      /\ x = Ring * qx + Slot(x)
      /\ y = Ring * qy + Slot(y)
  BY RingAssumption DEF Slot
<1>2. SUFFICES ASSUME Slot(x) = Slot(y) PROVE FALSE
  OBVIOUS
<1>3. /\ y - x = Ring * (qy - qx)
      /\ qy - qx \in Int
  BY <1>1, <1>2, RingAssumption, SlotRange DEF Slots
<1> HIDE DEF qx, qy
<1>4. CASE qy - qx <= 0
  BY <1>3, <1>4, RingAssumption
<1>5. CASE qy - qx >= 1
  BY <1>3, <1>5, RingAssumption
<1> QED BY <1>3, <1>4, <1>5

LEMMA ParitiesDiffer ==
    ASSUME NEW x \in Nat
    PROVE  x % 2 # (x + 1) % 2
  OBVIOUS

-----------------------------------------------------------------------------
(* The invariant that needs no patience.                                   *)

\* Where the GPU is in its loop over the chunks.
Control ==
    /\ k <= p /\ p <= k + 2
    /\ gpu \in {"wait", "retry"} => k < n /\ k < p /\ asked[k] # 0
    /\ gpu = "retry" => tries < MaxTries
    /\ gpu = "release" => seq # 0
    /\ \A c \in 0 .. (n - 1): asked[c] <= seq
    /\ \A c \in p .. (n - 1): asked[c] = 0

\* The chunks still to be waited for have their tickets.
Tickets ==
    \A c \in k .. (p - 1):
        asked[c] # 0 => asked[c] = IF n = 1 THEN seq ELSE ticket[TicketWord(c)]

GInv == TypeOK /\ Control /\ Tickets

LEMMA TicketType == ASSUME TypeOK PROVE Ticket \in Seqs
  BY DEF TypeOK, Ticket, TicketWord

LEMMA GInit == Init => GInv
  BY RingAssumption, BoundsAssumption
  DEF Init, GInv, TypeOK, Control, Tickets, Slots, Seqs

LEMMA TypeNext == GInv /\ [Next]_vars => TypeOK'
<1> SUFFICES ASSUME GInv, [Next]_vars PROVE TypeOK'
  OBVIOUS
<1>0. TypeOK /\ Control /\ Ticket \in Seqs
  BY TicketType DEF GInv
<1> USE <1>0, RingAssumption, ForwardsAssumption, BoundsAssumption
<1>1. CASE Start
  BY <1>1 DEF Start, hostVars, memVars, histVars, TypeOK, Seqs
<1>2. CASE Publish
  <2>1. /\ p' \in 0 .. n' /\ seq' \in Seqs
        /\ gpu' \in {"run", "release", "wait", "retry"}
    BY <1>2 DEF Publish, CanPublish, TypeOK, Seqs
  <2>2. asked' \in [0 .. (n' - 1) -> Seqs]
    BY <1>2, <2>1 DEF Publish, CanPublish, TypeOK
  <2>3. ticket' \in [0 .. 1 -> Seqs]
    BY <1>2, <2>1 DEF Publish, TypeOK
  <2>4. body' \in [Slots -> Seqs]
    BY <1>2, <2>1 DEF Publish, TypeOK
  <2> QED
    BY <1>2, <2>1, <2>2, <2>3, <2>4 DEF Publish, hostVars, histVars, TypeOK
<1>3. CASE PublishEmpty
  BY <1>3 DEF PublishEmpty, CanPublish, hostVars, memVars, histVars, TypeOK
<1>4. CASE Release
  <2>1. slotSeq' \in [Slots -> Seqs] /\ lost' \in 0 .. MaxLost
    BY <1>4 DEF Release, Delivered, Dropped, TypeOK
  <2> QED
    BY <1>4, <2>1 DEF Release, hostVars, TypeOK
<1>5. CASE SkipWait
  BY <1>5 DEF SkipWait, CanWait, hostVars, memVars, histVars, TypeOK
<1>6. CASE BeginWait
  BY <1>6 DEF BeginWait, hostVars, memVars, histVars, TypeOK
<1>7. CASE Accept
  <2>1. accepted' \subseteq Seqs /\ k' \in 0 .. n'
    BY <1>7 DEF Accept, TypeOK, Control
  <2> QED
    BY <1>7, <2>1 DEF Accept, hostVars, memVars, TypeOK
<1>8. CASE SpinOut
  BY <1>8 DEF SpinOut, hostVars, memVars, histVars, TypeOK
<1>9. CASE Republish
  <2>1. lost' \in 0 .. MaxLost
    BY <1>9 DEF Republish, Delivered, Dropped, TypeOK
  <2>4. dirty' \in BOOLEAN
    BY <1>9, Zenon DEF Republish, TypeOK
  <2>3. slotSeq' \in [Slots -> Seqs]
    <3>1. \/ slotSeq' = slotSeq
          \/ slotSeq' = [slotSeq EXCEPT ![Slot(Ticket)] = Ticket]
      BY <1>9 DEF Republish
    <3>2. slotSeq \in [Slots -> Seqs]
      BY DEF TypeOK
    <3> QED BY <3>1, <3>2
  <2>2. tries' \in 0 .. MaxTries
    BY <1>9 DEF Republish, TypeOK, Control
  <2> QED
    BY <1>9, <2>1, <2>2, <2>3, <2>4 DEF Republish, hostVars, TypeOK
<1>10. CASE GiveUp
  <2>1. givenUp' \subseteq Seqs /\ k' \in 0 .. n'
    BY <1>10 DEF GiveUp, TypeOK, Control
  <2> QED
    BY <1>10, <2>1 DEF GiveUp, hostVars, memVars, TypeOK
<1>11. CASE See
  <2>1. slotSeq[Watched] \in Seqs
    <3>1. Watched \in Slots
      BY SlotRange DEF Watched, TypeOK, Seqs
    <3> QED BY <3>1 DEF TypeOK
  <2>2. cur' \in Seqs /\ skipped' \subseteq Seqs
    <3>1. last \in Nat /\ skipped \subseteq Seqs
      BY DEF TypeOK, Seqs
    <3>2. /\ cur' = slotSeq[Watched]
          /\ skipped' = skipped \union ((last + 1) .. (slotSeq[Watched] - 1))
      BY <1>11 DEF See
    <3>3. ((last + 1) .. (slotSeq[Watched] - 1)) \subseteq Seqs
      BY <2>1, <3>1 DEF Seqs
    <3> QED BY <2>1, <3>1, <3>2, <3>3
  <2> QED
    BY <1>11, <2>2 DEF See, gpuVars, memVars, TypeOK
<1>12. CASE Take
  <2>1. body[Watched] \in Seqs
    <3>1. Watched \in Slots
      BY SlotRange DEF Watched, TypeOK, Seqs
    <3> QED BY <3>1 DEF TypeOK
  <2> QED
    BY <1>12, <2>1 DEF Take, gpuVars, memVars, histVars, TypeOK
<1>13. CASE Finish
  <2>1. done' \in Seqs /\ lost' \in 0 .. MaxLost /\ served' \subseteq Seqs
    BY <1>13 DEF Finish, StoreDone, Delivered, Dropped, TypeOK
  <2> QED
    BY <1>13, <2>1 DEF Finish, gpuVars, TypeOK
<1>14. CASE Rewrite
  <2>1. done' \in Seqs /\ lost' \in 0 .. MaxLost
    BY <1>14 DEF Rewrite, StoreDone, Delivered, Dropped, TypeOK
  <2> QED
    BY <1>14, <2>1 DEF Rewrite, gpuVars, hostVars, TypeOK
<1>15. CASE UNCHANGED vars
  BY <1>15 DEF vars, gpuVars, hostVars, memVars, histVars, TypeOK
<1> QED
  BY <1>1, <1>2, <1>3, <1>4, <1>5, <1>6, <1>7, <1>8, <1>9, <1>10, <1>11, <1>12,
     <1>13, <1>14, <1>15 DEF Next, GpuStep, HostStep

\* The host never touches the GPU's own state.
LEMMA HostKeepsGpu == HostStep => UNCHANGED gpuVars
  BY DEF HostStep, See, Take, Finish, Rewrite

LEMMA ControlNext == GInv /\ [Next]_vars => Control' /\ Tickets'
<1> SUFFICES ASSUME GInv, [Next]_vars PROVE Control' /\ Tickets'
  OBVIOUS
<1> USE DEF GInv, TypeOK, Control, Tickets, Seqs, TicketWord
<1>1. CASE Start
  BY <1>1, ForwardsAssumption DEF Start
<1>2. CASE Publish
  <2>1. Control'
    BY <1>2 DEF Publish, CanPublish
  <2>2. ASSUME NEW c \in k .. p, asked'[c] # 0
        PROVE  asked'[c] = IF n = 1 THEN seq' ELSE ticket'[TicketWord(c)]
    <3>1. CASE c = p
      BY <1>2, <3>1 DEF Publish, CanPublish
    <3>2. CASE c # p
      <4>1. /\ c = k /\ p = k + 1 /\ n # 1
            /\ asked'[c] = asked[c]
        BY <1>2, <3>2 DEF Publish, CanPublish
      <4>2. c % 2 # p % 2
        BY <4>1, ParitiesDiffer
      <4> QED
        BY <1>2, <2>2, <4>1, <4>2 DEF Publish, CanPublish
    <3> QED BY <3>1, <3>2
  <2> QED
    BY <1>2, <2>1, <2>2 DEF Publish
<1>3. CASE PublishEmpty
  BY <1>3 DEF PublishEmpty, CanPublish
<1>4. CASE Release
  BY <1>4 DEF Release
<1>5. CASE SkipWait
  BY <1>5 DEF SkipWait, CanWait
<1>6. CASE BeginWait
  BY <1>6 DEF BeginWait, CanWait
<1>7. CASE Accept
  BY <1>7 DEF Accept
<1>8. CASE SpinOut
  BY <1>8 DEF SpinOut
<1>9. CASE Republish
  BY <1>9 DEF Republish
<1>10. CASE GiveUp
  BY <1>10 DEF GiveUp
<1>11. CASE HostStep
  BY <1>11, HostKeepsGpu DEF gpuVars
<1>12. CASE UNCHANGED vars
  BY <1>12 DEF vars, gpuVars
<1> QED
  BY <1>1, <1>2, <1>3, <1>4, <1>5, <1>6, <1>7, <1>8, <1>9, <1>10, <1>11, <1>12
  DEF Next, GpuStep

LEMMA GInvariant == Spec => []GInv
<1>1. GInv /\ [Next]_vars => GInv'
  BY TypeNext, ControlNext DEF GInv
<1> QED
  BY GInit, <1>1, PTL DEF Spec

(* Every variable keeps its type, whatever is lost or given up. *)
THEOREM TypeCorrect == Spec => []TypeOK
<1>1. GInv => TypeOK
  BY DEF GInv
<1> QED
  BY GInvariant, <1>1, PTL

(* A wait waits for the request its own chunk published, whatever is lost or
   given up: the two ticket words of prefill never mix up two chunks. *)
THEOREM OwnRequest == Spec => []WaitsForOwnRequest
<1>1. GInv => WaitsForOwnRequest
  BY DEF GInv, TypeOK, Control, Tickets, WaitsForOwnRequest, Ticket, Seqs
<1> QED
  BY GInvariant, <1>1, PTL

-----------------------------------------------------------------------------
(* The words of the ring.                                                  *)

\* A slot holds the body of the newest request that maps to it, and its seq
\* word is one of a request that maps to it.
Bodies == \A s \in 1 .. seq: seq - s < Ring => body[Slot(s)] = s
SeqWords ==
    \A i \in Slots: slotSeq[i] # 0 => slotSeq[i] <= seq /\ Slot(slotSeq[i]) = i

\* The types the steps below need, without the modes of the two sides.
LEMMA Counters ==
    ASSUME GInv
    PROVE  /\ n \in Nat /\ p \in Nat /\ k \in Nat /\ p <= n /\ k <= p /\ p <= k + 2
           /\ asked \in [0 .. (n - 1) -> Nat]
           /\ seq \in Nat /\ done \in Nat /\ last \in Nat /\ cur \in Nat /\ took \in Nat
           /\ slotSeq \in [Slots -> Nat] /\ body \in [Slots -> Nat]
           /\ Ticket \in Nat
           /\ gpu \in {"wait", "retry"} => 
                 k < p /\ Ticket = asked[k] /\ Ticket # 0 /\ Ticket <= seq
           /\ gpu = "release" => seq # 0
<1>1. WaitsForOwnRequest
  BY DEF GInv, TypeOK, Control, Tickets, WaitsForOwnRequest, Ticket, Seqs
<1>2. Ticket \in Nat
  BY TicketType, BoundsAssumption DEF GInv, Seqs
<1>3. Seqs \subseteq Nat
  BY BoundsAssumption DEF Seqs
<1>4. /\ asked \in [0 .. (n - 1) -> Nat]
      /\ slotSeq \in [Slots -> Nat] /\ body \in [Slots -> Nat]
  BY <1>3 DEF GInv, TypeOK
<1>5. seq \in Nat /\ done \in Nat /\ last \in Nat /\ cur \in Nat /\ took \in Nat
  BY <1>3 DEF GInv, TypeOK
<1>6. /\ n \in Nat /\ p \in Nat /\ k \in Nat /\ p <= n /\ k <= p /\ p <= k + 2
      /\ gpu \in {"wait", "retry"} => k < p /\ asked[k] # 0 /\ asked[k] <= seq
      /\ gpu = "release" => seq # 0
  BY DEF GInv, TypeOK, Control
<1> QED
  BY <1>1, <1>2, <1>4, <1>5, <1>6 DEF WaitsForOwnRequest

LEMMA BodiesNext ==
    ASSUME GInv, Bodies, [Next]_vars
    PROVE  Bodies'
<1>1. CASE Publish
  <2>1. ASSUME NEW s \in 1 .. seq', seq' - s < Ring
        PROVE  body'[Slot(s)] = s
    <3>1. CASE s = seq + 1
      BY <1>1, <3>1, Counters, SlotRange DEF Publish
    <3>2. CASE s # seq + 1
      <4>0. seq \in Nat /\ Ring \in Nat /\ seq' = seq + 1
        BY <1>1, Counters, RingAssumption DEF Publish
      <4>1. /\ s \in 1 .. seq /\ seq - s < Ring /\ (seq + 1) - s < Ring
            /\ s \in Nat /\ seq + 1 \in Nat /\ s < seq + 1
        BY <2>1, <3>2, <4>0
      <4>2. PICK t \in Nat : t = seq + 1
        BY <4>1
      <4>3. Slot(s) # Slot(t)
        BY <4>1, <4>2, SlotsDiffer
      <4> QED
        BY <1>1, <4>1, <4>2, <4>3, Counters, SlotRange DEF Publish, Bodies
    <3> QED BY <3>1, <3>2
  <2> QED
    BY <2>1 DEF Bodies
<1>2. CASE ~ Publish
  <2>1. UNCHANGED <<seq, body>>
    BY <1>2 DEF Next, GpuStep, HostStep, Start, PublishEmpty, Release, SkipWait,
       BeginWait, Accept, SpinOut, Republish, GiveUp, See, Take, Finish, Rewrite,
       vars, gpuVars, hostVars, memVars, histVars
  <2> QED
    BY <2>1 DEF Bodies
<1> QED BY <1>1, <1>2

LEMMA SeqWordsNext ==
    ASSUME GInv, SeqWords, [Next]_vars
    PROVE  SeqWords'
<1> USE Counters DEF SeqWords
<1>1. CASE Publish
  <2>1. slotSeq' = slotSeq /\ seq' = seq + 1
    BY <1>1 DEF Publish
  <2>2. seq \in Nat /\ slotSeq \in [Slots -> Nat]
    OBVIOUS
  <2>3. \A i \in Slots: slotSeq[i] \in Nat
    BY <2>2
  <2> QED BY <2>1, <2>2, <2>3
<1>2. CASE Release
  <2>1. \/ slotSeq' = slotSeq
        \/ slotSeq' = [slotSeq EXCEPT ![Slot(seq)] = seq]
    BY <1>2 DEF Release
  <2>2. seq' = seq
    BY <1>2 DEF Release
  <2>3. seq \in Nat /\ slotSeq \in [Slots -> Nat] /\ Slot(seq) \in Slots
    BY SlotRange
  <2>4. CASE slotSeq' = slotSeq
    BY <2>2, <2>4
  <2>5. CASE slotSeq' = [slotSeq EXCEPT ![Slot(seq)] = seq]
    BY <2>2, <2>3, <2>5
  <2> QED
    BY <2>1, <2>4, <2>5
<1>3. CASE Republish
  <2>1. Ticket <= seq
    BY <1>3 DEF Republish
  <2>2. \/ slotSeq' = slotSeq
        \/ slotSeq' = [slotSeq EXCEPT ![Slot(Ticket)] = Ticket]
    BY <1>3 DEF Republish
  <2>3. seq' = seq
    BY <1>3 DEF Republish
  <2> QED
    BY <2>1, <2>2, <2>3, SlotRange
<1>4. CASE ~ (Publish \/ Release \/ Republish)
  <2>1. UNCHANGED <<seq, slotSeq>>
    BY <1>4 DEF Next, GpuStep, HostStep, Start, PublishEmpty, SkipWait,
       BeginWait, Accept, SpinOut, GiveUp, See, Take, Finish, Rewrite,
       vars, gpuVars, hostVars, memVars, histVars
  <2> QED
    BY <2>1
<1> QED BY <1>1, <1>2, <1>3, <1>4

-----------------------------------------------------------------------------
(* Waits are given up.  A request that is neither served nor given up is   *)
(* one that a chunk in flight waits for, and such a request is the newest  *)
(* or the one before.                                                      *)

\* What the host has not served was given up, or a chunk in flight waits for it.
Pending ==
    /\ done <= last /\ last <= seq
    /\ \A s \in (last + 1) .. seq: s \in givenUp \/ \E c \in k .. (p - 1): asked[c] = s

\* Chunks in flight wait for the two newest requests.
InFlight ==
    \A c \in k .. (p - 1): asked[c] # 0 => /\ asked[c] >= seq - 1
                                           /\ c = p - 1 => asked[c] = seq

\* The body in the slot of a request is its own or that of a later one.
NewerBodies ==
    \A s \in 1 .. seq: /\ body[Slot(s)] \in s .. seq
                       /\ Slot(body[Slot(s)]) = Slot(s)

\* The host serves a request of the slot it watches, and the newest with its own body.
HostReads ==
    /\ host # "poll" => cur \in (last + 1) .. seq /\ Slot(cur) = Slot(last + 1)
    /\ host = "reading" => took \in cur .. seq
    /\ last = seq /\ seq # 0 => seq \in served

UInv ==
    /\ Pending /\ InFlight /\ Bodies /\ SeqWords /\ NewerBodies /\ HostReads
    /\ ForeignBodyNeedsGiveUps /\ DecodeAcceptsServed /\ DecodeMissedWasGivenUp

-----------------------------------------------------------------------------
LEMMA PendingNext == ASSUME GInv, UInv, [Next]_vars PROVE Pending'
<1>0. /\ n \in Nat /\ p \in Nat /\ k \in Nat /\ p <= n /\ k <= p
      /\ asked \in [0 .. (n - 1) -> Nat]
      /\ seq \in Nat /\ done \in Nat /\ last \in Nat /\ cur \in Nat /\ Ticket \in Nat
      /\ gpu \in {"wait", "retry"} => k < p /\ Ticket = asked[k]
  BY Counters
<1> USE <1>0
<1>1. CASE Publish
  <2>1. /\ last' = last /\ done' = done /\ givenUp' = givenUp
        /\ seq' = seq + 1 /\ k' = k /\ p' = p + 1 /\ p < n
        /\ asked' = [asked EXCEPT ![p] = seq + 1]
    BY <1>1 DEF Publish, CanPublish, hostVars, histVars
  <2>2. ASSUME NEW s \in (last + 1) .. (seq + 1)
        PROVE  s \in givenUp \/ \E c \in k .. p: asked'[c] = s
    <3>1. CASE s = seq + 1
      <4>1. asked'[p] = seq + 1 /\ p \in k .. p
        BY <2>1
      <4> QED BY <3>1, <4>1
    <3>2. CASE s # seq + 1 /\ s \notin givenUp
      <4>1. PICK c \in k .. (p - 1): asked[c] = s
        BY <2>2, <3>2 DEF UInv, Pending
      <4>2. asked'[c] = asked[c] /\ c \in k .. p
        BY <2>1
      <4> QED BY <4>1, <4>2
    <3> QED BY <3>1, <3>2
  <2>3. done' <= last' /\ last' <= seq'
    BY <2>1 DEF UInv, Pending
  <2> QED BY <2>1, <2>2, <2>3 DEF Pending
<1>2. CASE SkipWait
  BY <1>2 DEF SkipWait, hostVars, memVars, histVars, UInv, Pending
<1>3. CASE Accept
  BY <1>3 DEF Accept, hostVars, memVars, UInv, Pending
<1>4. CASE GiveUp
  BY <1>4 DEF GiveUp, hostVars, memVars, UInv, Pending
<1>5. CASE Finish
  <2>1. last' = cur /\ cur \in (last + 1) .. seq /\ done' \in {done, cur}
    BY <1>5 DEF Finish, StoreDone, UInv, HostReads
  <2> QED BY <1>5, <2>1 DEF Finish, gpuVars, UInv, Pending
<1>6. CASE Rewrite
  BY <1>6 DEF Rewrite, StoreDone, gpuVars, hostVars, UInv, Pending
<1>7. CASE Start
  BY <1>7 DEF Start, hostVars, memVars, histVars, UInv, Pending
<1>8. CASE PublishEmpty
  BY <1>8 DEF PublishEmpty, hostVars, memVars, histVars, UInv, Pending
<1>9. CASE ~ (Publish \/ SkipWait \/ Accept \/ GiveUp \/ Finish \/ Rewrite \/ Start \/ PublishEmpty)
  <2>1. UNCHANGED <<done, last, seq, givenUp, k, p, asked>>
    BY <1>9 DEF Next, GpuStep, HostStep, Release, BeginWait, SpinOut, Republish, See, Take,
       vars, gpuVars, hostVars, memVars, histVars
  <2> QED BY <2>1 DEF UInv, Pending
<1> QED BY <1>1, <1>2, <1>3, <1>4, <1>5, <1>6, <1>7, <1>8, <1>9

LEMMA InFlightNext == ASSUME GInv, UInv, [Next]_vars PROVE InFlight'
<1>0. /\ n \in Nat /\ p \in Nat /\ k \in Nat /\ p <= n /\ k <= p
      /\ asked \in [0 .. (n - 1) -> Nat] /\ seq \in Nat
  BY Counters
<1> USE <1>0
<1>1. CASE Publish
  <2>1. /\ seq' = seq + 1 /\ k' = k /\ p' = p + 1 /\ p < n /\ p <= k + 1
        /\ asked' = [asked EXCEPT ![p] = seq + 1]
    BY <1>1 DEF Publish, CanPublish
  <2> SUFFICES ASSUME NEW c \in k .. p, asked'[c] # 0
               PROVE  asked'[c] >= seq /\ (c = p => asked'[c] = seq + 1)
    BY <2>1 DEF InFlight
  <2>2. CASE c = p
    BY <2>1, <2>2
  <2>3. CASE c # p
    <3>1. c = p - 1 /\ c \in k .. (p - 1) /\ asked'[c] = asked[c]
      BY <2>1, <2>3
    <3> QED BY <2>3, <3>1 DEF UInv, InFlight
  <2> QED BY <2>2, <2>3
<1>2. CASE PublishEmpty
  <2>1. UNCHANGED <<seq, k, asked>> /\ p' = p + 1 /\ p < n
    BY <1>2 DEF PublishEmpty, CanPublish
  <2>2. asked[p] = 0
    BY <2>1 DEF GInv, Control
  <2> QED BY <2>1, <2>2 DEF UInv, InFlight
<1>3. CASE Start
  BY <1>3 DEF Start, InFlight
<1>4. CASE SkipWait \/ Accept \/ GiveUp
  <2>1. k' = k + 1 /\ UNCHANGED <<seq, p, asked>>
    BY <1>4 DEF SkipWait, Accept, GiveUp
  <2> QED BY <2>1 DEF UInv, InFlight
<1>5. CASE ~ (Publish \/ PublishEmpty \/ Start \/ SkipWait \/ Accept \/ GiveUp)
  <2>1. UNCHANGED <<seq, k, p, asked>>
    BY <1>5 DEF Next, GpuStep, HostStep, Release, BeginWait, SpinOut, Republish, See, Take,
       Finish, Rewrite, vars, gpuVars
  <2> QED BY <2>1 DEF UInv, InFlight
<1> QED BY <1>1, <1>2, <1>3, <1>4, <1>5

LEMMA NewerBodiesNext == ASSUME GInv, UInv, [Next]_vars PROVE NewerBodies'
<1>1. CASE Publish
  <2>1. /\ seq \in Nat /\ body \in [Slots -> Nat]
        /\ seq' = seq + 1 /\ body' = [body EXCEPT ![Slot(seq + 1)] = seq + 1]
    BY <1>1, Counters DEF Publish
  <2> SUFFICES ASSUME NEW s \in 1 .. (seq + 1)
               PROVE  body'[Slot(s)] \in s .. (seq + 1) /\ Slot(body'[Slot(s)]) = Slot(s)
    BY <2>1 DEF NewerBodies
  <2>2. Slot(s) \in Slots /\ Slot(seq + 1) \in Slots
    BY <2>1, SlotRange
  <2>3. CASE Slot(s) = Slot(seq + 1)
    BY <2>1, <2>2, <2>3
  <2>4. CASE Slot(s) # Slot(seq + 1)
    <3>1. s \in 1 .. seq /\ body'[Slot(s)] = body[Slot(s)]
      BY <2>1, <2>2, <2>4
    <3> QED BY <2>1, <3>1 DEF UInv, NewerBodies
  <2> QED BY <2>3, <2>4
<1>2. CASE ~ Publish
  <2>1. UNCHANGED <<seq, body>>
    BY <1>2 DEF Next, GpuStep, HostStep, Start, PublishEmpty, Release, SkipWait,
       BeginWait, Accept, SpinOut, Republish, GiveUp, See, Take, Finish, Rewrite,
       vars, gpuVars, hostVars, memVars, histVars
  <2> QED BY <2>1 DEF UInv, NewerBodies
<1> QED BY <1>1, <1>2

LEMMA HostReadsNext == ASSUME GInv, UInv, [Next]_vars PROVE HostReads'
<1>0. /\ seq \in Nat /\ last \in Nat /\ cur \in Nat /\ took \in Nat
      /\ slotSeq \in [Slots -> Nat] /\ Watched \in Slots /\ last <= seq
  <2>1. /\ seq \in Nat /\ last \in Nat /\ cur \in Nat /\ took \in Nat
        /\ slotSeq \in [Slots -> Nat]
    BY Counters
  <2>2. Watched \in Slots
    BY <2>1, SlotRange DEF Watched
  <2> QED BY <2>1, <2>2 DEF UInv, Pending
<1> USE <1>0
<1>1. CASE Publish
  BY <1>1 DEF Publish, hostVars, histVars, UInv, HostReads
<1>2. CASE See
  <2>1. slotSeq[Watched] \in (last + 1) .. seq /\ Slot(slotSeq[Watched]) = Watched
    BY <1>2 DEF See, UInv, SeqWords
  <2> QED BY <1>2, <2>1 DEF See, gpuVars, Watched, UInv, HostReads
<1>3. CASE Take
  <2>1. cur \in 1 .. seq /\ Slot(cur) = Watched /\ cur \in (last + 1) .. seq
    BY <1>3 DEF Take, Watched, UInv, HostReads
  <2>2. body[Watched] \in cur .. seq
    BY <2>1 DEF UInv, NewerBodies
  <2> QED BY <1>3, <2>1, <2>2 DEF Take, gpuVars, histVars, Watched, UInv, HostReads
<1>4. CASE Finish
  <2>1. took \in cur .. seq /\ last' = cur /\ host' = "poll" /\ seq' = seq
        /\ served' = served \union {took}
    BY <1>4 DEF Finish, gpuVars, UInv, HostReads
  <2>2. cur = seq => seq \in served'
    BY <2>1
  <2> QED BY <2>1, <2>2 DEF HostReads
<1>5. CASE ~ (Publish \/ See \/ Take \/ Finish)
  <2>1. UNCHANGED <<seq, host, cur, took, last, served>>
    BY <1>5 DEF Next, GpuStep, HostStep, Start, PublishEmpty, Release, SkipWait,
       BeginWait, Accept, SpinOut, Republish, GiveUp, Rewrite,
       vars, gpuVars, hostVars, memVars, histVars
  <2> QED BY <2>1 DEF UInv, HostReads
<1> QED BY <1>1, <1>2, <1>3, <1>4, <1>5

-----------------------------------------------------------------------------
(* The properties.                                                         *)

\* A request that is neither served nor given up is one of the two newest.
LEMMA PendingIsNew ==
    ASSUME GInv, UInv, NEW s \in (last + 1) .. seq, s \notin givenUp
    PROVE  s >= seq - 1
<1>1. PICK c \in k .. (p - 1): asked[c] = s
  BY DEF UInv, Pending
<1>2. s # 0
  BY Counters
<1> QED BY <1>1, <1>2 DEF UInv, InFlight

\* Of the requests cur .. b - 1, all unserved, at most one is not given up.
LEMMA WaitersAreFew ==
    ASSUME GInv, UInv, NEW a \in Nat, NEW b \in Nat,
           last + 1 <= a, a < b, b <= seq, b - a >= Ring
    PROVE  Cardinality(givenUp \intersect (a .. (b - 1))) >= Ring - 1
<1>0. seq \in Nat /\ last \in Nat /\ Ring \in Nat
  BY Counters, RingAssumption
<1> DEFINE I == a .. (b - 1)
           J == I \ {seq - 1}
<1>1. IsFiniteSet(I) /\ Cardinality(I) = b - a
  <2>1. PICK e \in Int : e = b - 1 /\ a <= e
    OBVIOUS
  <2>2. a \in Int
    OBVIOUS
  <2>3. /\ IsFiniteSet(a .. e)
        /\ Cardinality(a .. e) = IF a > e THEN 0 ELSE e - a + 1
    BY ONLY <2>1, <2>2, FS_Interval, Zenon
  <2>4. ~ (a > e) /\ e - a + 1 = b - a
    BY <2>1
  <2> QED BY <2>1, <2>3, <2>4
<1>2. \A s \in J : s \in givenUp
  <2> SUFFICES ASSUME NEW s \in J, s \notin givenUp PROVE FALSE
    OBVIOUS
  <2>1. s \in Int /\ a <= s /\ s <= b - 1 /\ s # seq - 1
    OBVIOUS
  <2>2. s \in (last + 1) .. seq /\ s < seq - 1
    BY <1>0, <2>1
  <2>3. s >= seq - 1
    BY <2>2, PendingIsNew
  <2> QED BY <1>0, <2>1, <2>2, <2>3
<1> DEFINE G == givenUp \intersect I
<1>3. J \subseteq G /\ G \subseteq I
  BY <1>2
<1>4. /\ IsFiniteSet(J)
      /\ Cardinality(J) = Cardinality(I) - 1 \/ J = I
  <2> HIDE DEF I
  <2> QED BY <1>1, FS_RemoveElement
<1> HIDE DEF I, J, G
<1>5. IsFiniteSet(G) /\ Cardinality(J) <= Cardinality(G)
  BY <1>1, <1>3, FS_Subset
<1>6. Cardinality(I) \in Nat /\ Cardinality(J) \in Nat /\ Cardinality(G) \in Nat
  BY <1>1, <1>4, <1>5, FS_CardinalityType
<1>7. Cardinality(G) >= Ring - 1
  BY <1>0, <1>1, <1>4, <1>5, <1>6
<1> QED BY <1>7 DEF G, I

LEMMA ForeignNext == ASSUME GInv, UInv, [Next]_vars PROVE ForeignBodyNeedsGiveUps'
<1>0. /\ seq \in Nat /\ last \in Nat /\ cur \in Nat /\ took \in Nat
      /\ Ring \in Nat /\ Ring >= 2
  BY Counters, RingAssumption
<1>1. CASE Take
  <2>1. /\ host = "seen" /\ cur' = cur /\ took' = body[Watched] /\ givenUp' = givenUp
    BY <1>1 DEF Take, histVars
  <2>2. cur \in (last + 1) .. seq /\ Slot(cur) = Watched
    BY <2>1 DEF Watched, UInv, HostReads
  <2>3. body[Watched] \in cur .. seq /\ Slot(body[Watched]) = Slot(cur)
    BY <1>0, <2>1, <2>2 DEF UInv, NewerBodies
  <2>4. PICK b \in cur .. seq : b = took' /\ Slot(b) = Slot(cur)
    BY <2>1, <2>3
  <2> SUFFICES ASSUME b # cur
               PROVE  Cardinality(givenUp \intersect (cur .. (b - 1))) >= Ring - 1
    BY <2>1, <2>4 DEF ForeignBodyNeedsGiveUps
  <2>5. b \in Nat /\ cur < b /\ b <= seq /\ last + 1 <= cur
    BY <1>0, <2>2
  <2>6. b - cur >= Ring
    <3>1. SUFFICES ASSUME b - cur < Ring PROVE FALSE
      BY <1>0, <2>5
    <3>2. Slot(cur) # Slot(b)
      BY <1>0, <2>5, <3>1, SlotsDiffer
    <3> QED BY <2>4, <3>2
  <2> QED
    BY <1>0, <2>5, <2>6, WaitersAreFew
<1>2. CASE GiveUp
  <2>1. UNCHANGED <<host, cur, took>> /\ givenUp \subseteq givenUp'
    BY <1>2 DEF GiveUp, hostVars
  <2> SUFFICES ASSUME host = "reading", took # cur
               PROVE  Cardinality(givenUp' \intersect (cur .. (took - 1))) >= Ring - 1
    BY <2>1 DEF ForeignBodyNeedsGiveUps
  <2> DEFINE I == cur .. (took - 1)
             old == givenUp \intersect I
             new == givenUp' \intersect I
  <2>2. Cardinality(old) >= Ring - 1
    BY DEF UInv, ForeignBodyNeedsGiveUps
  <2>3. IsFiniteSet(I) /\ old \subseteq new /\ new \subseteq I
    BY <1>0, <2>1, FS_Interval
  <2> HIDE DEF I, old, new
  <2>4. IsFiniteSet(new) /\ IsFiniteSet(old) /\ Cardinality(old) <= Cardinality(new)
    BY <2>3, FS_Subset
  <2>5. Cardinality(new) >= Ring - 1
    BY <1>0, <2>2, <2>4, FS_CardinalityType
  <2> QED BY <2>5 DEF new, I
<1>3. CASE See \/ Finish
  BY <1>3 DEF See, Finish, ForeignBodyNeedsGiveUps
<1>4. CASE ~ (Take \/ GiveUp \/ See \/ Finish)
  <2>1. UNCHANGED <<host, cur, took, givenUp>>
    BY <1>4 DEF Next, GpuStep, HostStep, Start, Publish, PublishEmpty, Release, SkipWait,
       BeginWait, Accept, SpinOut, Republish, Rewrite,
       vars, gpuVars, hostVars, memVars, histVars
  <2> QED BY <2>1 DEF UInv, ForeignBodyNeedsGiveUps
<1> QED BY <1>1, <1>2, <1>3, <1>4

\* While prefill has published nothing, a chunk in flight waits for the newest.
LEMMA DecodeWaitsNewest ==
    ASSUME GInv, UInv, DecodeOnly, NEW c \in k .. (p - 1), asked[c] # 0
    PROVE  n = 1 /\ asked[c] = seq
<1>1. asked[c] = IF n = 1 THEN seq ELSE ticket[TicketWord(c)]
  BY DEF GInv, Tickets
<1>2. c \in Nat /\ TicketWord(c) \in 0 .. 1
  BY Counters DEF TicketWord
<1> QED BY <1>1, <1>2 DEF DecodeOnly

\* Once prefill has published, it stays so.
LEMMA DecodeOnlyStays == ASSUME GInv, [Next]_vars, DecodeOnly' PROVE DecodeOnly
<1>1. CASE Publish
  <2>1. \/ ticket' = ticket
        \/ ticket' = [ticket EXCEPT ![TicketWord(p)] = seq + 1]
    BY <1>1 DEF Publish
  <2>2. ticket \in [0 .. 1 -> Seqs] /\ seq \in Nat /\ p \in Nat /\ TicketWord(p) \in 0 .. 1
    BY Counters DEF GInv, TypeOK, TicketWord
  <2>3. CASE ticket' = ticket
    BY <2>3 DEF DecodeOnly
  <2>4. CASE ticket' = [ticket EXCEPT ![TicketWord(p)] = seq + 1]
    <3>1. ticket'[TicketWord(p)] = seq + 1
      BY <2>2, <2>4
    <3> QED BY <2>2, <3>1 DEF DecodeOnly
  <2> QED BY <2>1, <2>3, <2>4
<1>2. CASE ~ Publish
  <2>1. UNCHANGED ticket
    BY <1>2 DEF Next, GpuStep, HostStep, Start, PublishEmpty, Release, SkipWait,
       BeginWait, Accept, SpinOut, Republish, GiveUp, See, Take, Finish, Rewrite,
       vars, gpuVars
  <2> QED BY <2>1 DEF DecodeOnly
<1> QED BY <1>1, <1>2

LEMMA DecodeAcceptsNext == ASSUME GInv, UInv, [Next]_vars PROVE DecodeAcceptsServed'
<1> SUFFICES ASSUME DecodeOnly' PROVE AcceptedWasServed'
  BY DEF DecodeAcceptsServed
<1>1. DecodeOnly /\ accepted \subseteq served
  BY DecodeOnlyStays DEF UInv, DecodeAcceptsServed, AcceptedWasServed
<1>2. CASE Accept
  <2>1. gpu = "wait" /\ done >= Ticket /\ accepted' = accepted \union {Ticket}
        /\ served' = served
    BY <1>2 DEF Accept
  <2>2. Ticket = asked[k] /\ Ticket # 0 /\ k \in k .. (p - 1)
    BY <2>1, Counters
  <2>3. Ticket = seq
    BY <1>1, <2>2, DecodeWaitsNewest
  <2>4. last = seq /\ seq # 0
    BY <2>1, <2>2, <2>3, Counters DEF UInv, Pending
  <2>5. seq \in served
    BY <2>4 DEF UInv, HostReads
  <2> QED BY <1>1, <2>1, <2>3, <2>5 DEF AcceptedWasServed
<1>3. CASE ~ Accept
  <2>1. accepted' = accepted /\ served \subseteq served'
    BY <1>3 DEF Next, GpuStep, HostStep, Start, Publish, PublishEmpty, Release, SkipWait,
       BeginWait, SpinOut, Republish, GiveUp, See, Take, Finish, Rewrite,
       vars, gpuVars, hostVars, memVars, histVars
  <2> QED BY <1>1, <2>1 DEF AcceptedWasServed
<1> QED BY <1>2, <1>3

LEMMA DecodeMissedNext == ASSUME GInv, UInv, [Next]_vars PROVE DecodeMissedWasGivenUp'
<1> SUFFICES ASSUME DecodeOnly' PROVE MissedWasGivenUp'
  BY DEF DecodeMissedWasGivenUp
<1>1. DecodeOnly /\ skipped \subseteq givenUp
  BY DecodeOnlyStays DEF UInv, DecodeMissedWasGivenUp, MissedWasGivenUp
<1>2. CASE See
  <2>1. /\ skipped' = skipped \union ((last + 1) .. (slotSeq[Watched] - 1))
        /\ givenUp' = givenUp
    BY <1>2 DEF See
  <2>2. /\ seq \in Nat /\ last \in Nat /\ slotSeq \in [Slots -> Nat]
    BY Counters
  <2>3. Watched \in Slots
    BY <2>2, SlotRange DEF Watched
  <2>4. slotSeq[Watched] \in Nat /\ slotSeq[Watched] <= seq
    BY <2>2, <2>3 DEF UInv, SeqWords
  <2>5. ASSUME NEW s \in (last + 1) .. (slotSeq[Watched] - 1) PROVE s \in givenUp
    <3>1. s \in (last + 1) .. seq /\ s # seq /\ s # 0
      BY <2>2, <2>4
    <3>2. SUFFICES ASSUME s \notin givenUp PROVE FALSE
      OBVIOUS
    <3>3. PICK c \in k .. (p - 1): asked[c] = s
      BY <3>1, <3>2 DEF UInv, Pending
    <3> QED BY <1>1, <3>1, <3>3, DecodeWaitsNewest
  <2> QED BY <1>1, <2>1, <2>5 DEF MissedWasGivenUp
<1>3. CASE ~ See
  <2>1. skipped' = skipped /\ givenUp \subseteq givenUp'
    BY <1>3 DEF Next, GpuStep, HostStep, Start, Publish, PublishEmpty, Release, SkipWait,
       BeginWait, Accept, SpinOut, Republish, GiveUp, Take, Finish, Rewrite,
       vars, gpuVars, hostVars, memVars, histVars
  <2> QED BY <1>1, <2>1 DEF MissedWasGivenUp
<1> QED BY <1>2, <1>3

-----------------------------------------------------------------------------
LEMMA UInit == Init => UInv
<1> SUFFICES ASSUME Init PROVE UInv
  OBVIOUS
<1>1. /\ seq = 0 /\ last = 0 /\ done = 0 /\ k = 0 /\ p = 0 /\ host = "poll"
      /\ accepted = {} /\ skipped = {} /\ slotSeq = [i \in Slots |-> 0]
  BY DEF Init
<1>2. (1 .. 0) = {} /\ (0 .. (-1)) = {}
  OBVIOUS
<1>3. Pending /\ InFlight /\ Bodies /\ SeqWords /\ NewerBodies /\ HostReads
  BY <1>1, <1>2 DEF Pending, InFlight, Bodies, SeqWords, NewerBodies, HostReads
<1> QED
  BY <1>1, <1>3 DEF UInv, ForeignBodyNeedsGiveUps, DecodeAcceptsServed, AcceptedWasServed,
     DecodeMissedWasGivenUp, MissedWasGivenUp

LEMMA UInvariant == Spec => [](GInv /\ UInv)
<1>1. Init => GInv /\ UInv
  BY GInit, UInit
<1>2. GInv /\ UInv /\ [Next]_vars => (GInv /\ UInv)'
  <2> SUFFICES ASSUME GInv, UInv, [Next]_vars PROVE GInv' /\ UInv'
    OBVIOUS
  <2>1. GInv'
    BY TypeNext, ControlNext DEF GInv
  <2>2. Bodies' /\ SeqWords'
    BY BodiesNext, SeqWordsNext DEF UInv
  <2> QED
    BY <2>1, <2>2, PendingNext, InFlightNext, NewerBodiesNext, HostReadsNext, ForeignNext,
       DecodeAcceptsNext, DecodeMissedNext DEF UInv
<1> QED BY <1>1, <1>2, PTL DEF Spec

\* Whatever is lost or given up, the body of a request that may still be waited for
\* is in its slot: the GPU never writes over it (gather.py:212 "up to RING of them
\* can be outstanding").
THEOREM PendingKept == Spec => []PendingBodyKept
<1>1. GInv /\ UInv => PendingBodyKept
  <2> SUFFICES ASSUME GInv, UInv, NEW s \in (last + 1) .. seq, s \notin givenUp
               PROVE  body[Slot(s)] = s
    BY DEF PendingBodyKept
  <2>1. s >= seq - 1
    BY PendingIsNew
  <2>2. seq \in Nat /\ last \in Nat
    BY Counters
  <2>3. s \in 1 .. seq /\ seq - s < Ring
    BY <2>1, <2>2, RingAssumption
  <2> QED BY <2>3 DEF UInv, Bodies
<1> QED BY <1>1, UInvariant, PTL

\* The host serves a request with the list of another only after Ring-1 or more of
\* the requests from one to the other were given up.
THEOREM ForeignNeedsGiveUps == Spec => []ForeignBodyNeedsGiveUps
<1>1. GInv /\ UInv => ForeignBodyNeedsGiveUps
  BY DEF UInv
<1> QED BY <1>1, UInvariant, PTL

\* With decode alone a wait accepts only requests that were read, even after others
\* were given up (gather.py:280 _fetch waits for the newest seq).
THEOREM DecodeAcceptedIsServed == Spec => []DecodeAcceptsServed
<1>1. GInv /\ UInv => DecodeAcceptsServed
  BY DEF UInv
<1> QED BY <1>1, UInvariant, PTL

\* With decode alone the requests the host counts as missed are requests the GPU
\* gave up (store.py:211 "the requests in between were given up by the GPU").
THEOREM DecodeMissedIsGivenUp == Spec => []DecodeMissedWasGivenUp
<1>1. GInv /\ UInv => DecodeMissedWasGivenUp
  BY DEF UInv
<1> QED BY <1>1, UInvariant, PTL
-----------------------------------------------------------------------------
(* While fewer than Ring-1 of the requests that were given up are unserved *)
(* at a time: nothing is jumped over and no slot is used again too early.  *)

\* The host serves the next request, with its own body.
Serving ==
    /\ host # "poll" => cur = last + 1 /\ cur <= seq
    /\ host = "reading" => took = cur
    /\ served = 1 .. last
    /\ accepted \subseteq 1 .. last

\* No more requests are outstanding than the ring has slots: all but the newest
\* two were given up.
LEMMA FewOutstanding ==
    ASSUME GInv, UInv, FewUnserved
    PROVE  seq <= last + Ring
<1>0. /\ seq \in Nat /\ last \in Nat /\ Ring \in Nat /\ Ring >= 2
      /\ givenUp \subseteq 0 .. MaxSeq
  BY Counters, RingAssumption DEF GInv, TypeOK, Seqs
<1> SUFFICES ASSUME seq > last + Ring PROVE FALSE
  BY <1>0
<1>1. PICK a \in Nat, b \in Nat: a = last + 1 /\ b = seq
  BY <1>0
<1> DEFINE old == givenUp \intersect (a .. (b - 1))
           all == {s \in givenUp: s > last}
<1>2. Cardinality(old) >= Ring - 1
  <2>1. last + 1 <= a /\ a < b /\ b <= seq /\ b - a >= Ring
    BY <1>0, <1>1
  <2> HIDE DEF all
  <2> QED BY <2>1, WaitersAreFew
<1>3. old \subseteq all /\ all \subseteq givenUp /\ givenUp \subseteq 0 .. MaxSeq
  <2>1. \A s \in a .. (b - 1): s > last
    BY <1>0, <1>1
  <2> QED BY <1>0, <2>1
<1>4. IsFiniteSet(0 .. MaxSeq)
  BY BoundsAssumption, FS_Interval
<1> HIDE DEF old, all
<1>5. IsFiniteSet(all)
  <2>1. IsFiniteSet(givenUp)
    BY <1>3, <1>4, FS_Subset
  <2> QED BY <1>3, <2>1, FS_Subset
<1>6. IsFiniteSet(old) /\ Cardinality(old) <= Cardinality(all)
  BY <1>3, <1>5, FS_Subset
<1>7. Cardinality(old) \in Nat /\ Cardinality(all) \in Nat
  BY <1>5, <1>6, FS_CardinalityType
<1>8. Cardinality(all) < Ring - 1
  BY DEF FewUnserved, all
<1> QED BY <1>0, <1>2, <1>6, <1>7, <1>8

LEMMA ServingNext ==
    ASSUME GInv, UInv, Serving, FewUnserved, [Next]_vars
    PROVE  Serving'
<1>0. /\ seq \in Nat /\ done \in Nat /\ last \in Nat /\ cur \in Nat /\ took \in Nat
      /\ slotSeq \in [Slots -> Nat] /\ body \in [Slots -> Nat]
      /\ Slot(last + 1) \in Slots
      /\ last <= seq /\ seq <= last + Ring /\ done <= last
  <2>1. /\ seq \in Nat /\ done \in Nat /\ last \in Nat /\ cur \in Nat /\ took \in Nat
        /\ slotSeq \in [Slots -> Nat] /\ body \in [Slots -> Nat]
    BY Counters
  <2>2. Slot(last + 1) \in Slots
    BY <2>1, SlotRange
  <2>3. last <= seq /\ done <= last
    BY DEF UInv, Pending
  <2> QED BY <2>1, <2>2, <2>3, FewOutstanding
<1>1. CASE Publish
  BY <1>0, <1>1 DEF Publish, hostVars, histVars, Serving
<1>2. CASE Accept
  <2>1. Ticket \in 1 .. done
    BY <1>2, Counters DEF Accept
  <2> QED
    BY <1>0, <1>2, <2>1 DEF Accept, hostVars, Serving
<1>3. CASE See
  <2>1. PICK s \in (last + 1) .. seq : s = slotSeq[Watched] /\ Slot(s) = Slot(last + 1)
    BY <1>0, <1>3 DEF See, Watched, UInv, SeqWords
  <2>2. s = last + 1
    <3>1. SUFFICES ASSUME s # last + 1 PROVE FALSE
      OBVIOUS
    <3>2. PICK a \in Nat: a = last + 1
      BY <1>0
    <3>3. s \in Nat /\ a < s /\ s - a < Ring
      BY <1>0, <2>1, <3>1, <3>2, RingAssumption
    <3>4. Slot(a) # Slot(s)
      BY <3>2, <3>3, SlotsDiffer
    <3> QED BY <2>1, <3>2, <3>4
  <2> QED
    BY <1>0, <1>3, <2>1, <2>2 DEF See, gpuVars, Serving
<1>4. CASE Take
  <2>1. cur = last + 1 /\ cur <= seq
    BY <1>4 DEF Take, Serving
  <2>2. last + 1 \in 1 .. seq /\ seq - (last + 1) < Ring
    BY <1>0, <2>1, RingAssumption
  <2>3. body[Watched] = last + 1
    BY <2>2 DEF Watched, UInv, Bodies
  <2> QED
    BY <1>0, <1>4, <2>1, <2>3 DEF Take, gpuVars, histVars, Serving
<1>5. CASE Finish
  <2>1. took = last + 1 /\ served = 1 .. last /\ last' = last + 1
    BY <1>5 DEF Finish, Serving
  <2>2. served' = 1 .. last'
    BY <1>0, <1>5, <2>1 DEF Finish
  <2>3. accepted' \subseteq 1 .. last'
    BY <1>0, <1>5, <2>1 DEF Finish, Serving
  <2> QED
    BY <1>5, <2>2, <2>3 DEF Finish, Serving
<1>6. CASE ~ (Publish \/ Accept \/ See \/ Take \/ Finish)
  <2>1. UNCHANGED <<seq, host, cur, took, last, served, accepted>>
    BY <1>6 DEF Next, GpuStep, HostStep, Start, PublishEmpty, Release, SkipWait,
       BeginWait, SpinOut, Republish, GiveUp, Rewrite, vars, gpuVars, hostVars, memVars,
       histVars
  <2> QED
    BY <2>1 DEF Serving
<1> QED
  BY <1>1, <1>2, <1>3, <1>4, <1>5, <1>6

LEMMA ServingInvariant == Spec /\ []FewUnserved => [](GInv /\ UInv /\ Serving)
<1>1. Init => Serving
  <2> SUFFICES ASSUME Init PROVE Serving
    OBVIOUS
  <2>1. host = "poll" /\ last = 0 /\ served = {} /\ accepted = {} /\ (1 .. 0) = {}
    BY DEF Init
  <2> QED BY <2>1 DEF Serving
<1>2. GInv /\ UInv /\ Serving /\ FewUnserved /\ [Next]_vars => Serving'
  BY ServingNext
<1> QED
  BY UInvariant, <1>1, <1>2, PTL DEF Spec

(* While fewer than Ring-1 of the requests that were given up are unserved, a
   wait that accepts its request does so only after the host read that request,
   whatever stores are lost on the way. *)
THEOREM AcceptedIsServed == Spec /\ []FewUnserved => []AcceptedWasServed
<1>1. Serving => AcceptedWasServed
  BY DEF Serving, AcceptedWasServed
<1> QED
  BY ServingInvariant, <1>1, PTL

(* While fewer than Ring-1 of the requests that were given up are unserved, the
   host never reads a request twice, however often it is published again. *)
THEOREM ReadOnce == Spec /\ []FewUnserved => []NeverReadsTwice
<1>1. GInv /\ Serving => NeverReadsTwice
  BY Counters DEF Serving, NeverReadsTwice
<1> QED
  BY ServingInvariant, <1>1, PTL

(* While fewer than Ring-1 of the requests that were given up are unserved, the
   ring implements the in-order service. *)
THEOREM RingImplementsService == Spec /\ []FewUnserved => ImplementsService
<1>1. Init => Service!Init
  BY DEF Init, Service!Init
<1>2. GInv /\ UInv /\ Serving /\ [Next]_vars => [Service!Next]_(Service!vars)
  <2> SUFFICES ASSUME GInv, UInv, Serving, [Next]_vars
               PROVE  [Service!Next]_(Service!vars)
    OBVIOUS
  <2>0. /\ seq \in Nat /\ last \in Nat /\ done \in Nat /\ done <= last
        /\ served = 1 .. last /\ accepted \subseteq served
    BY Counters DEF UInv, Pending, Serving
  <2>1. CASE Publish
    BY <2>1 DEF Publish, histVars, Service!Next, Service!Issue
  <2>2. CASE Accept
    <3>1. Ticket \in served
      BY <2>0, <2>2, Counters DEF Accept
    <3>2. UNCHANGED <<seq, served>> /\ accepted' = accepted \union {Ticket}
      BY <2>2 DEF Accept
    <3>3. CASE Ticket \in accepted
      BY <3>2, <3>3 DEF Service!vars
    <3>4. CASE Ticket \notin accepted
      BY <3>1, <3>2, <3>4 DEF Service!Next, Service!Return
    <3> QED BY <3>3, <3>4
  <2>3. CASE Finish
    <3>1. took = last + 1 /\ took \in 1 .. seq
      BY <2>0, <2>3, Counters DEF Finish, Serving
    <3>2. served = 1 .. (took - 1) /\ served' = served \union {took}
      BY <2>0, <2>3, <3>1 DEF Finish
    <3>3. UNCHANGED <<seq, accepted>>
      BY <2>3 DEF Finish, gpuVars
    <3> QED
      BY <3>1, <3>2, <3>3 DEF Service!Next, Service!Serve
  <2>4. CASE ~ (Publish \/ Accept \/ Finish)
    BY <2>4 DEF Next, GpuStep, HostStep, Start, PublishEmpty, Release, SkipWait,
       BeginWait, SpinOut, Republish, GiveUp, See, Take, Rewrite,
       vars, gpuVars, hostVars, memVars, histVars, Service!vars
  <2> QED
    BY <2>1, <2>2, <2>3, <2>4
<1> QED
  BY ServingInvariant, <1>1, <1>2, PTL DEF Spec, ImplementsService, Service!Spec
=============================================================================
