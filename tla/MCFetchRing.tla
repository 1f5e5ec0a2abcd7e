---------------------------- MODULE MCFetchRing ----------------------------
(***************************************************************************)
(* FetchRing for TLC with waits given up.  The ticket words tell a run in  *)
(* which no prefill has published anything, which is decode alone, from    *)
(* one that mixes both; the first can be followed further (CONSTRAINT).    *)
(***************************************************************************)
EXTENDS FetchRing

CONSTANTS
    MixedSeq,    \* bound: requests published when there are prefills too
    MixedLost    \* bound: stores lost then

DecodeOnly == \A w \in 0 .. 1: ticket[w] = 0

Explored == DecodeOnly \/ (seq <= MixedSeq /\ lost <= MixedLost)

\* With decode alone a wait accepts only requests whose rows were read, even
\* after others were given up: it waits for the newest seq (gather.py:280 _fetch
\* passes seq itself; store.py:28 "waiting for a seq also covers every request
\* before it").
DecodeAcceptsServed == DecodeOnly => AcceptedWasServed

\* With decode alone a request the host counts as missed was given up (store.py:211
\* "the requests in between were given up by the GPU"); with prefill a request
\* may also be jumped over while its wait goes on.
DecodeMissedWasGivenUp == DecodeOnly => MissedWasGivenUp
=============================================================================
