------------------------------- MODULE Relayer -------------------------------
(***************************************************************************)
(* The guardians' relayers (src/relayer/relayer2/src/handlers/eth.rs)     *)
(* composed with the Most contract they vote on.                          *)
(*                                                                         *)
(* The peer bridge's event stream is a fixed sequence of blocks, each a   *)
(* sequence of CrosschainTransferRequest events.  Per relayer, a watcher  *)
(* hands one block at a time to EthHandler::run together with a one-shot  *)
(* ack channel, and advances its cursor only when the ack arrives; when   *)
(* the ack channel closes, or the ack times out, it hands the same block  *)
(* over again.  The watcher is not in this repository (the listener in    *)
(* src/relayer/src is a stub) and is modelled from spec 4.6.              *)
(*                                                                         *)
(* EthHandler::run spawns one task per block.  A task handles the block's *)
(* events one after the other, each a receive_request call awaited with   *)
(* `?`, and sends the ack only after the last one: any Err, and any panic *)
(* in the task, ends it without an ack.  A task is a record of the block  *)
(* it handles, the position of its next event, and whether its ack is     *)
(* still awaited (`current`; a timed-out emission's ack goes nowhere).    *)
(*                                                                         *)
(* Faults: an RPC submission whose outcome is lost (the transaction may   *)
(* or may not have been included, the task sees Err), an ack timeout      *)
(* while the task still runs, and a restart of the relayer process, which *)
(* kills its tasks and starts the watcher again from ETH_FROM_BLOCK: the  *)
(* cursor is not persisted (config.rs).  All are bounded by MaxFaults.    *)
(***************************************************************************)
EXTENDS Most, Sequences

CONSTANTS
    Relayers,   \* honest guardians that run a relayer
    EthBlocks,  \* the peer bridge's blocks of CrosschainTransferRequest events
    FromBlock,  \* Config.eth_from_block: blocks the watcher skips at start
    MaxFaults   \* bound: lost RPC outcomes, ack timeouts and restarts

\* Every event of the peer bridge.
EthEvents == UNION {Range(EthBlocks[b]) : b \in DOMAIN EthBlocks}

\* The U256 fields of an event that `as_u128` converts without panicking.
U128Fits(e) ==
    /\ e.committee_id <= U128Max
    /\ e.amount <= U128Max
    /\ e.request_nonce <= U128Max

ASSUME /\ Relayers \subseteq Guardians \ Byzantine
       /\ EthRequests = {e \in EthEvents : U128Fits(e)}
       /\ FromBlock \in 0..Len(EthBlocks)

VARIABLES
    cursor,   \* relayer -> number of acknowledged blocks (watcher cursor)
    waiting,  \* relayer -> the watcher awaits the ack of its last emission
    tasks,    \* relayer -> set of running handle_events tasks
    faults    \* number of faults so far

relayerVars == <<cursor, waiting, tasks, faults>>
allVars == <<vars, relayerVars>>

Tasks == [block : DOMAIN EthBlocks, pos : Nat \ {0}, current : BOOLEAN]

\* The event a task handles next, and whether it handled them all.
EventOf(t) == EthBlocks[t.block][t.pos]
Done(t) == t.pos > Len(EthBlocks[t.block])

\* The task leaves the set (returns, fails or panics), or moves past its event.
Drop(g, t) == tasks' = [tasks EXCEPT ![g] = @ \ {t}]
Advance(g, t) == tasks' = [tasks EXCEPT ![g] = (@ \ {t}) \cup {[t EXCEPT !.pos = @ + 1]}]

RelayerInit ==
    /\ Init
    /\ cursor = [g \in Relayers |-> FromBlock]
    /\ waiting = [g \in Relayers |-> FALSE]
    /\ tasks = [g \in Relayers |-> {}]
    /\ faults = 0

-----------------------------------------------------------------------------
\* Mutant: the watcher emits past the head of the stream.
WatchPastHead(g) ==
    /\ ~waiting[g]
    /\ tasks' = [tasks EXCEPT ![g] =
                    @ \cup {[block |-> cursor[g] + 1, pos |-> 1, current |-> TRUE]}]
    /\ waiting' = [waiting EXCEPT ![g] = TRUE]
    /\ UNCHANGED <<vars, cursor, faults>>

\* The watcher emits the block after its cursor and EthHandler::run
\* (lines 75-82) receives it and spawns handle_events for it.
Watch(g) ==
    /\ ~waiting[g]
    /\ cursor[g] < Len(EthBlocks)
    /\ tasks' = [tasks EXCEPT ![g] =
                    @ \cup {[block |-> cursor[g] + 1, pos |-> 1, current |-> TRUE]}]
    /\ waiting' = [waiting EXCEPT ![g] = TRUE]
    /\ UNCHANGED <<vars, cursor, faults>>

\* Mutant: an Ok that only emitted SignedProcessedRequest or
\* RequestAlreadySigned is taken for a failure.
HandleEventNoopFails(g, t) ==
    LET e == EventOf(t)
        h == Digest[e]
    IN  /\ ~Done(t)
        /\ \/ ~U128Fits(e) /\ Drop(g, t) /\ UNCHANGED vars
           \/ U128Fits(e) /\ ReceiveRequest(g, h, e) /\ Advance(g, t)
           \/ U128Fits(e) /\ ReceiveRequestNoop(g, h, e) /\ Drop(g, t) /\ UNCHANGED vars
           \/ U128Fits(e) /\ ReceiveRequestFails(g, h, e) /\ Drop(g, t) /\ UNCHANGED vars
        /\ UNCHANGED <<cursor, waiting, faults>>

\* Mutant: an Err of receive_request is ignored and the task moves on.
HandleEventIgnoreError(g, t) ==
    LET e == EventOf(t)
        h == Digest[e]
    IN  /\ ~Done(t)
        /\ \/ ~U128Fits(e) /\ Drop(g, t) /\ UNCHANGED vars
           \/ U128Fits(e) /\ ReceiveRequest(g, h, e) /\ Advance(g, t)
           \/ U128Fits(e) /\ ReceiveRequestNoop(g, h, e) /\ Advance(g, t) /\ UNCHANGED vars
           \/ U128Fits(e) /\ ReceiveRequestFails(g, h, e) /\ Advance(g, t) /\ UNCHANGED vars
        /\ UNCHANGED <<cursor, waiting, faults>>

\* handle_event (lines 109-169) awaited with `?` by handle_events (99-101):
\* as_u128 panics on a wide field and ends the task; otherwise the hash is
\* computed and receive_request is called as guardian g.  Ok, with or
\* without a write, moves to the next event; Err ends the task.
HandleEvent(g, t) ==
    LET e == EventOf(t)
        h == Digest[e]
    IN  /\ ~Done(t)
        /\ \/ ~U128Fits(e) /\ Drop(g, t) /\ UNCHANGED vars
           \/ U128Fits(e) /\ ReceiveRequest(g, h, e) /\ Advance(g, t)
           \/ U128Fits(e) /\ ReceiveRequestNoop(g, h, e) /\ Advance(g, t) /\ UNCHANGED vars
           \/ U128Fits(e) /\ ReceiveRequestFails(g, h, e) /\ Drop(g, t) /\ UNCHANGED vars
        /\ UNCHANGED <<cursor, waiting, faults>>

\* The receive_request submission fails at the transport (lines 155-165):
\* the transaction was or was not executed, and the task sees Err.
RpcFault(g, t) ==
    LET e == EventOf(t) IN
    /\ ~Done(t)
    /\ U128Fits(e)
    /\ faults < MaxFaults
    /\ ReceiveRequest(g, Digest[e], e) \/ UNCHANGED vars
    /\ Drop(g, t)
    /\ faults' = faults + 1
    /\ UNCHANGED <<cursor, waiting>>

\* Mutant: the watcher takes the ack of any emission of the block, also
\* one whose ack timed out.
AckAnyEmission(g, t) ==
    /\ Done(t)
    /\ Drop(g, t)
    /\ cursor' = [cursor EXCEPT ![g] = @ + 1]
    /\ waiting' = [waiting EXCEPT ![g] = FALSE]
    /\ UNCHANGED <<vars, faults>>

\* After the last event the task sends the ack (lines 103-106), ignoring
\* a closed channel; the watcher, if it still awaits this ack, advances.
Ack(g, t) ==
    /\ Done(t)
    /\ Drop(g, t)
    /\ IF t.current
       THEN /\ cursor' = [cursor EXCEPT ![g] = @ + 1]
            /\ waiting' = [waiting EXCEPT ![g] = FALSE]
       ELSE UNCHANGED <<cursor, waiting>>
    /\ UNCHANGED <<vars, faults>>

\* The ack channel closed (the task failed or panicked): the watcher will
\* emit the same block again.
Redeliver(g) ==
    /\ waiting[g]
    /\ \A t \in tasks[g] : ~t.current
    /\ waiting' = [waiting EXCEPT ![g] = FALSE]
    /\ UNCHANGED <<vars, cursor, tasks, faults>>

\* The ack times out while the task still runs: the watcher stops awaiting
\* it and will emit the block again, next to the running task.
AckTimeout(g) ==
    /\ waiting[g]
    /\ \E t \in tasks[g] : t.current
    /\ faults < MaxFaults
    /\ tasks' = [tasks EXCEPT ![g] = {[t EXCEPT !.current = FALSE] : t \in @}]
    /\ waiting' = [waiting EXCEPT ![g] = FALSE]
    /\ faults' = faults + 1
    /\ UNCHANGED <<vars, cursor>>

\* The relayer process restarts (a crash, a deployment): its tasks die, an
\* in-flight receive_request of one of them may still be included, and
\* Config::load reads ETH_FROM_BLOCK again (config.rs 31-33), from which
\* the watcher starts over.
Restart(g) ==
    /\ faults < MaxFaults
    /\ \/ UNCHANGED vars
       \/ \E t \in tasks[g] :
             /\ ~Done(t)
             /\ U128Fits(EventOf(t))
             /\ ReceiveRequest(g, Digest[EventOf(t)], EventOf(t))
    /\ cursor' = [cursor EXCEPT ![g] = FromBlock]
    /\ waiting' = [waiting EXCEPT ![g] = FALSE]
    /\ tasks' = [tasks EXCEPT ![g] = {}]
    /\ faults' = faults + 1

RelayerNext ==
    \/ ChainNext /\ UNCHANGED relayerVars
    \/ \E g \in Relayers :
          \/ Watch(g)
          \/ \E t \in tasks[g] : HandleEvent(g, t) \/ RpcFault(g, t) \/ Ack(g, t)
          \/ Redeliver(g)
          \/ AckTimeout(g)
          \/ Restart(g)

\* Tokio polls every runnable task and the watcher keeps re-emitting, so
\* each relayer's own steps are weakly fair.  The owner, users, Byzantine
\* guardians and faults get no fairness.
RelayerFairness ==
    \A g \in Relayers :
        /\ WF_allVars(Watch(g))
        /\ WF_allVars(\E t \in tasks[g] : HandleEvent(g, t))
        /\ WF_allVars(\E t \in tasks[g] : Ack(g, t))
        /\ WF_allVars(Redeliver(g))

RelayerSpec == RelayerInit /\ [][RelayerNext]_allVars /\ RelayerFairness

-----------------------------------------------------------------------------
(* Properties.                                                             *)

RelayerTypeOK ==
    /\ cursor \in [Relayers -> FromBlock..Len(EthBlocks)]
    /\ waiting \in [Relayers -> BOOLEAN]
    /\ \A g \in Relayers : tasks[g] \subseteq Tasks
    /\ faults \in 0..MaxFaults

\* Spec 4.7: a block is acknowledged only once all its events are handled.
\* Every request of a block below a relayer's cursor carries that
\* guardian's signature or is processed, whatever halts, lost RPC
\* outcomes, timeouts, restarts and duplicate tasks happened on the way.
AckedBlocksSigned ==
    \A g \in Relayers : \A b \in FromBlock + 1..cursor[g] :
        \A e \in Range(EthBlocks[b]) :
            \/ Digest[e] \in processed_requests
            \/ <<Digest[e], g>> \in signatures

\* The requests relayer g has relayed: its vote is on chain, or the
\* request is processed.
Relayed(g) ==
    {e \in EthRequests : Digest[e] \in processed_requests \/ <<Digest[e], g>> \in signatures}

Abstract == INSTANCE Watcher WITH Blocks <- EthBlocks, acked <- cursor,
                                  relayed <- [g \in Relayers |-> Relayed(g)]

\* Spec 4.6 and 4.7: the relayers implement the abstract watcher.  A
\* cursor moves one block at a time, only over a block all of whose
\* requests the relayer has relayed, and back only to ETH_FROM_BLOCK on a
\* restart; nothing relayed is ever undone, whatever acks arrive late,
\* duplicate tasks run, or votes are lost.
WatcherRefinement == Abstract!WatcherSpec

\* The bridge is operational: not halted, the minter of every token, and
\* it has installed the committee of every request the peer bridge emitted
\* (the owner mirrors the peer bridge's rotations).
Operational ==
    /\ ~is_halted
    /\ \A t \in Tokens : minter[t] = MostAccount
    /\ \A e \in EthEvents : e.committee_id <= committee_id

\* Spec 1 (eventual at-least-once relay): once the bridge stays
\* operational, every request the peer bridge emitted is processed.
RequestsEventuallyProcessed ==
    <>[]Operational =>
        \A r \in EthRequests : <>(Digest[r] \in processed_requests)

\* Spec 4.6: once the bridge stays operational, every relayer acknowledges
\* every block, so its cursor reaches the head of the stream.
BlocksEventuallyAcked ==
    <>[]Operational => \A g \in Relayers : <>(cursor[g] = Len(EthBlocks))
=============================================================================
