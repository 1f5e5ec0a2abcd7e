------------------------------ MODULE FetchRing ------------------------------
(***************************************************************************)
(* The handoff between the GPU's fetch kernels (gather.py: _fetch_publish  *)
(* and _fetch_wait) and the host's server thread (store.py: server_main):  *)
(* a ring of request slots and one done word in pinned memory.             *)
(*                                                                         *)
(* The GPU runs one forward step of one layer after another.  A forward    *)
(* step has n chunks: 1 for decode (one _fetch: publish, then wait), N for *)
(* prefill, whose loop publishes chunk k+1 before it waits for chunk k.  A *)
(* chunk whose list of experts is empty publishes nothing and waits for    *)
(* nothing.                                                                *)
(*                                                                         *)
(* Either side's store may be lost: the other side then never sees that    *)
(* value.  MaxLost bounds how often.  A request's body (layer, experts and *)
(* rows) is abstracted to the number of the request that wrote it.         *)
(***************************************************************************)
EXTENDS Integers, FiniteSets

CONSTANTS
    Ring,        \* slots of the ring (store.py: RING)
    Forwards,    \* the possible numbers of chunks of a forward step
    MaxTries,    \* re-publishes before a wait is given up (_SPIN_GIVEUP)
    MaxSeq,      \* bound: requests published in a behaviour
    MaxLost,     \* bound: stores that get lost
    MaxGiveUps   \* bound: waits given up

\* Prefill has two requests outstanding, so the ring has at least two slots.
ASSUME RingAssumption == Ring \in Nat /\ Ring >= 2
ASSUME ForwardsAssumption == Forwards \subseteq Nat \ {0}
ASSUME BoundsAssumption ==
    /\ MaxTries \in Nat
    /\ MaxSeq \in Nat
    /\ MaxLost \in Nat
    /\ MaxGiveUps \in Nat

VARIABLES
    \* the GPU
    gpu,        \* "run", "release" (body written, seq not), "wait", "retry"
    n,          \* chunks of the current forward step
    p,          \* chunks published: chunk p is the next one to publish
    k,          \* chunks waited for: chunk k is the next one to wait for
    asked,      \* asked[c]: the request chunk c published, 0 if its list is empty
    seq,        \* the sequence number on the device
    ticket,     \* the two ticket words of prefill (ticket_chunk)
    tries,      \* re-publishes of the current wait
    \* pinned memory
    slotSeq,    \* the seq word of every slot, as the host sees it
    body,       \* the request whose layer, experts and rows a slot holds
    done,       \* the done word, as the GPU sees it
    dirty,      \* the re-publish count moved since the host last loaded it
    \* the host
    host,       \* "poll", "seen" (a new seq was loaded), "reading"
    cur,        \* the seq that was seen
    took,       \* the request whose body was copied from the slot
    last,       \* the last seq served
    \* history
    served,     \* requests whose rows were read
    skipped,    \* requests the host counted as missed
    accepted,   \* requests whose wait saw done reach the ticket
    givenUp,    \* requests whose wait was given up
    lost        \* number of stores lost so far

gpuVars == <<gpu, n, p, k, asked, seq, ticket, tries>>
hostVars == <<host, cur, took, last>>
memVars == <<slotSeq, body, done, dirty>>
histVars == <<served, skipped, accepted, givenUp, lost>>
vars == <<gpuVars, hostVars, memVars, histVars>>

\* Mutant: the ring wraps one slot too early.
ShortRingSlot(s) == s % (Ring - 1)

Slot(s) == s % Ring
Slots == 0 .. (Ring - 1)
Seqs == 0 .. MaxSeq

\* Mutant: one ticket word for both chunks in flight.
OneTicketWord(c) == 0

\* Prefill's ticket words alternate.  Ticket is the seq the current wait waits
\* for: decode passes the seq word itself, prefill the word of its chunk's parity.
TicketWord(c) == c % 2

\* Mutant: decode waits on a prefill's ticket word.
StaleTicket == ticket[TicketWord(k)]

Ticket == IF n = 1 THEN seq ELSE ticket[TicketWord(k)]

\* A store reaches the other side, or is lost while the budget lasts.
Delivered == lost' = lost
Dropped == lost < MaxLost /\ lost' = lost + 1

Init ==
    /\ gpu = "run" /\ n = 0 /\ p = 0 /\ k = 0
    /\ asked = [c \in {} |-> 0]
    /\ seq = 0 /\ ticket = [w \in 0 .. 1 |-> 0] /\ tries = 0
    /\ slotSeq = [i \in Slots |-> 0]
    /\ body = [i \in Slots |-> 0]
    /\ done = 0 /\ dirty = FALSE
    /\ host = "poll" /\ cur = 0 /\ took = 0 /\ last = 0
    /\ served = {} /\ skipped = {} /\ accepted = {} /\ givenUp = {}
    /\ lost = 0

-----------------------------------------------------------------------------
(* The GPU: forward_modular and _expert_pager_forward_working.             *)

\* The next forward step, of n chunks.
Start ==
    /\ gpu = "run" /\ k = n
    /\ \E m \in Forwards:
          /\ n' = m
          /\ asked' = [c \in 0 .. (m - 1) |-> 0]
    /\ p' = 0 /\ k' = 0
    /\ UNCHANGED <<gpu, seq, ticket, tries, hostVars, memVars, histVars>>

\* Mutant: the loop publishes past the last chunk.
PublishPastEnd == gpu = "run" /\ p <= k + 1

\* The loop publishes chunk k+1 before it waits for chunk k.
CanPublish == gpu = "run" /\ p < n /\ p <= k + 1
CanWait == gpu = "run" /\ k < n /\ (p = n \/ p = k + 2)

\* Mutant: the body goes to the slot of the sequence number before it advances.
BodyInOldSlot ==
    /\ CanPublish /\ seq < MaxSeq
    /\ p' = p + 1
    /\ seq' = seq + 1
    /\ asked' = [asked EXCEPT ![p] = seq + 1]
    /\ ticket' = IF n = 1 THEN ticket
                 ELSE [ticket EXCEPT ![TicketWord(p)] = seq + 1]
    /\ body' = [body EXCEPT ![Slot(seq)] = seq + 1]
    /\ gpu' = "release"
    /\ UNCHANGED <<n, k, tries, slotSeq, done, dirty, hostVars, histVars>>

\* _fetch_publish of a chunk with experts to read: advance seq, write the
\* ticket and the body.  The seq word of the slot is a later store.
Publish ==
    /\ CanPublish /\ seq < MaxSeq
    /\ p' = p + 1
    /\ seq' = seq + 1
    /\ asked' = [asked EXCEPT ![p] = seq + 1]
    /\ ticket' = IF n = 1 THEN ticket
                 ELSE [ticket EXCEPT ![TicketWord(p)] = seq + 1]
    /\ body' = [body EXCEPT ![Slot(seq + 1)] = seq + 1]
    /\ gpu' = "release"
    /\ UNCHANGED <<n, k, tries, slotSeq, done, dirty, hostVars, histVars>>

\* _fetch_publish of a chunk with nothing to read does nothing.
PublishEmpty ==
    /\ CanPublish
    /\ p' = p + 1
    /\ UNCHANGED <<gpu, n, k, asked, seq, ticket, tries, hostVars, memVars, histVars>>

\* The release store of seq to the slot.
Release ==
    /\ gpu = "release"
    /\ \/ Delivered /\ slotSeq' = [slotSeq EXCEPT ![Slot(seq)] = seq]
       \/ Dropped /\ UNCHANGED slotSeq
    /\ gpu' = "run"
    /\ UNCHANGED <<n, p, k, asked, seq, ticket, tries, body, done, dirty, hostVars,
                   served, skipped, accepted, givenUp>>

\* _fetch_wait of a chunk with nothing to read returns at once.
SkipWait ==
    /\ CanWait /\ asked[k] = 0
    /\ k' = k + 1
    /\ UNCHANGED <<gpu, n, p, asked, seq, ticket, tries, hostVars, memVars, histVars>>

BeginWait ==
    /\ CanWait /\ asked[k] # 0
    /\ gpu' = "wait"
    /\ tries' = 0
    /\ UNCHANGED <<n, p, k, asked, seq, ticket, hostVars, memVars, histVars>>

\* done reached the ticket: the rows are taken as read.
Accept ==
    /\ gpu = "wait" /\ done >= Ticket
    /\ accepted' = accepted \union {Ticket}
    /\ k' = k + 1
    /\ gpu' = "run"
    /\ UNCHANGED <<n, p, asked, seq, ticket, tries, hostVars, memVars,
                   served, skipped, givenUp, lost>>

\* _SPIN_RETRY loads of done without an answer.
SpinOut ==
    /\ gpu = "wait" /\ done < Ticket /\ tries < MaxTries
    /\ gpu' = "retry"
    /\ UNCHANGED <<n, p, k, asked, seq, ticket, tries, hostVars, memVars, histVars>>

\* Publish the same request again and move the re-publish count.  done may
\* have arrived since it was last loaded.
Republish ==
    /\ gpu = "retry"
    /\ tries' = tries + 1
    /\ \/ /\ Delivered
          /\ slotSeq' = [slotSeq EXCEPT ![Slot(Ticket)] = Ticket]
          /\ dirty' = TRUE
       \/ /\ Dropped
          /\ UNCHANGED <<slotSeq, dirty>>
    /\ gpu' = "wait"
    /\ UNCHANGED <<n, p, k, asked, seq, ticket, body, done, hostVars,
                   served, skipped, accepted, givenUp>>

\* Every re-publish went unanswered: count it and move on with stale rows.
GiveUp ==
    /\ gpu = "wait" /\ done < Ticket /\ tries = MaxTries
    /\ Cardinality(givenUp) < MaxGiveUps
    /\ givenUp' = givenUp \union {Ticket}
    /\ k' = k + 1
    /\ gpu' = "run"
    /\ UNCHANGED <<n, p, asked, seq, ticket, tries, hostVars, memVars,
                   served, skipped, accepted, lost>>

-----------------------------------------------------------------------------
(* The host: server_main.                                                  *)

\* Mutants: the host looks at the slot of the last request, or at the newest.
WatchesLast == Slot(last)
WatchesNewest == CHOOSE i \in Slots: \A j \in Slots: slotSeq[j] <= slotSeq[i]

\* The slot the host looks at is the one of the next request, and no other.
Watched == Slot(last + 1)

\* Mutant: the request that is served counts as missed too.
CountsServedAsMissed ==
    /\ host = "poll" /\ slotSeq[Watched] > last
    /\ cur' = slotSeq[Watched]
    /\ skipped' = skipped \union ((last + 1) .. slotSeq[Watched])
    /\ host' = "seen"
    /\ UNCHANGED <<took, last, gpuVars, memVars, served, accepted, givenUp, lost>>

\* A seq beyond the last one served is in the watched slot; the requests it
\* jumps over are counted as missed.
See ==
    /\ host = "poll" /\ slotSeq[Watched] > last
    /\ cur' = slotSeq[Watched]
    /\ skipped' = skipped \union ((last + 1) .. (slotSeq[Watched] - 1))
    /\ host' = "seen"
    /\ UNCHANGED <<took, last, gpuVars, memVars, served, accepted, givenUp, lost>>

\* Copy layer, experts and rows out of the slot.  The GPU's writes of a body
\* and this copy are one step each: a copy that overlaps a write differs from
\* the request that was seen, and so does a copy after the write.
Take ==
    /\ host = "seen"
    /\ took' = body[Watched]
    /\ host' = "reading"
    /\ UNCHANGED <<cur, last, gpuVars, memVars, histVars>>

\* Mutant: done says which request comes next.
StoreNext(s) ==
    \/ Delivered /\ done' = s + 1
    \/ Dropped /\ UNCHANGED done

\* The host's store to the done word.
StoreDone(s) ==
    \/ Delivered /\ done' = s
    \/ Dropped /\ UNCHANGED done

\* All rows are read (or a read failed: the GPU is released all the same).
\* Re-publishes made meanwhile are absorbed before done is stored.
Finish ==
    /\ host = "reading"
    /\ served' = served \union {took}
    /\ dirty' = FALSE
    /\ StoreDone(cur)
    /\ last' = cur
    /\ host' = "poll"
    /\ UNCHANGED <<cur, took, gpuVars, slotSeq, body, skipped, accepted, givenUp>>

\* Mutant: a re-publish makes the host go back to the request before.
ServesAgain ==
    /\ host = "poll" /\ slotSeq[Watched] <= last
    /\ dirty' = FALSE
    /\ last' = IF dirty /\ last > 0 THEN last - 1 ELSE last
    /\ StoreDone(last)
    /\ UNCHANGED <<gpuVars, host, cur, took, slotSeq, body, served, skipped, accepted, givenUp>>

\* Nothing new in the watched slot, and the re-publish count moved or nothing
\* arrived for a long time: store done again.
Rewrite ==
    /\ host = "poll" /\ slotSeq[Watched] <= last
    /\ dirty' = FALSE
    /\ StoreDone(last)
    /\ UNCHANGED <<gpuVars, hostVars, slotSeq, body, served, skipped, accepted, givenUp>>

-----------------------------------------------------------------------------
GpuStep == \/ Publish \/ PublishEmpty \/ Release \/ SkipWait \/ BeginWait
           \/ Accept \/ SpinOut \/ Republish \/ GiveUp

HostStep == See \/ Take \/ Finish \/ Rewrite

Next == Start \/ GpuStep \/ HostStep

Spec == Init /\ [][Next]_vars

\* A launched kernel runs to its end and the server thread never sleeps; when
\* the next forward step comes is up to vLLM.
FairSpec == Spec /\ WF_vars(GpuStep) /\ WF_vars(HostStep)

-----------------------------------------------------------------------------
(* Properties.                                                             *)

TypeOK ==
    /\ gpu \in {"run", "release", "wait", "retry"}
    /\ n \in Nat /\ p \in 0 .. n /\ k \in 0 .. n
    /\ asked \in [0 .. (n - 1) -> Seqs]
    /\ seq \in Seqs
    /\ ticket \in [0 .. 1 -> Seqs]
    /\ tries \in 0 .. MaxTries
    /\ slotSeq \in [Slots -> Seqs]
    /\ body \in [Slots -> Seqs]
    /\ done \in Seqs
    /\ dirty \in BOOLEAN
    /\ host \in {"poll", "seen", "reading"}
    /\ cur \in Seqs /\ took \in Seqs /\ last \in Seqs
    /\ served \subseteq Seqs /\ skipped \subseteq Seqs
    /\ accepted \subseteq Seqs /\ givenUp \subseteq Seqs
    /\ lost \in 0 .. MaxLost

\* A wait waits for the request its own chunk published, although prefill has
\* two chunks in flight, only two ticket words, and chunks that publish nothing
\* (experts.py: ticket(k); gather.py: _fetch_publish).
WaitsForOwnRequest == gpu \in {"wait", "retry"} => Ticket = asked[k]

\* Fewer than Ring-1 of the requests that were given up are still unserved.  As
\* long as that is so, the ring has a slot for every outstanding request; from
\* Ring-1 on, the host may jump over a request that is still waited for.
FewUnserved == Cardinality({s \in givenUp: s > last}) < Ring - 1

\* When a wait accepts a request, the rows of that very request were read
\* (store.py:28 "waiting for a seq also covers every request before it").
AcceptedWasServed == accepted \subseteq served

\* A slot is not reused while its request may still be served to a waiter: the
\* body of a request that is neither served nor given up is still in its slot
\* (gather.py:212 "up to RING of them can be outstanding").
PendingBodyKept ==
    \A s \in (last + 1) .. seq: s \notin givenUp => body[Slot(s)] = s

\* The host reads a request at most once, whatever is published again
\* (gather.py:40 "Re-publishing never reads twice").
NeverReadsTwice == host = "reading" => took \notin served

\* The host serves a request with another request's list only after the GPU
\* gave up all but one of the requests that separate the two uses of the slot.
ForeignBodyNeedsGiveUps ==
    host = "reading" /\ took # cur
        => Cardinality(givenUp \intersect (cur .. (took - 1))) >= Ring - 1

\* A request the host counts as missed was given up by the GPU
\* (store.py:211 "the requests in between were given up by the GPU").
MissedWasGivenUp == skipped \subseteq givenUp

\* Every wait ends: a lost publish is recovered by the re-publish and a lost
\* done by the rewritten done, or the wait is given up.
EveryWaitEnds == gpu = "wait" ~> gpu = "run"

\* The ring implements the service FetchService describes: in order, one at a
\* time, and no wait returns before its own request was read.
Service == INSTANCE FetchService WITH issued <- seq, returned <- accepted
ImplementsService == Service!Spec
=============================================================================
