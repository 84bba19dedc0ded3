------------------------------- MODULE Watcher -------------------------------
(***************************************************************************)
(* What a relayer's watcher and event handler promise together (spec 4.6  *)
(* and 4.7), stated without tasks, acks or the contract.                  *)
(*                                                                         *)
(* Per relayer, `acked` is the number of blocks it has acknowledged and   *)
(* `relayed` the requests it has relayed: its vote is on chain, or the    *)
(* request is processed and needs no vote.  Relaying never comes undone.  *)
(* A relayer acknowledges the next block only once every request of that  *)
(* block is relayed, one block at a time; a restart, whose cursor is not  *)
(* persisted, starts it over from FromBlock.                              *)
(***************************************************************************)
EXTENDS Naturals, Sequences, Functions

CONSTANTS
    Relayers,   \* the relayers
    Blocks,     \* the peer bridge's blocks of request events
    FromBlock   \* where the watcher starts

VARIABLES acked, relayed

watcherVars == <<acked, relayed>>

\* Every event the peer bridge emitted.
Events == UNION {Range(Blocks[b]) : b \in DOMAIN Blocks}

WatcherInit ==
    /\ acked = [g \in Relayers |-> FromBlock]
    /\ relayed = [g \in Relayers |-> {}]

\* Requests become relayed, for any number of relayers at once (the vote
\* that processes a request relays it for everyone).
Grow ==
    /\ relayed' \in [Relayers -> SUBSET Events]
    /\ \A g \in Relayers : relayed[g] \subseteq relayed'[g]

Relay == Grow /\ UNCHANGED acked

\* Relayer g acknowledges the block after its cursor, all of whose events
\* it has relayed.
Advance(g) ==
    /\ acked[g] < Len(Blocks)
    /\ Range(Blocks[acked[g] + 1]) \subseteq relayed[g]
    /\ acked' = [acked EXCEPT ![g] = @ + 1]
    /\ UNCHANGED relayed

\* Relayer g restarts from FromBlock; a vote it had in flight may land.
Restart(g) ==
    /\ acked' = [acked EXCEPT ![g] = FromBlock]
    /\ Grow

WatcherNext == Relay \/ \E g \in Relayers : Advance(g) \/ Restart(g)

WatcherSpec == WatcherInit /\ [][WatcherNext]_watcherVars
=============================================================================
