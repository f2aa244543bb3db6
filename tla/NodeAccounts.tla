---------------------------- MODULE NodeAccounts ----------------------------
(***************************************************************************)
(* The part of a BandChain node that its clients meet when they send a     *)
(* transaction: the committed sequence number of each account, and the     *)
(* mempool.  It is Tendermint's and the SDK's, modelled from how the       *)
(* oracle daemon and the client library use it: GetAccount reads the       *)
(* committed sequence, CheckTx compares the one that was signed with the   *)
(* committed one plus the account's transactions in the mempool, and a     *)
(* delivered transaction uses up its number whether its messages fail or   *)
(* not.                                                                    *)
(***************************************************************************)
EXTENDS Naturals, Sequences, FiniteSets

VARIABLES
  mempool,     \* transactions accepted by CheckTx, in order: [key, seq, ...]
  committedSeq \* the sequence number of each account in the committed state

InMempool(key) == {i \in 1 .. Len(mempool) : mempool[i].key = key}

CheckTxAccepts(tx) == tx.seq = committedSeq[tx.key] + Cardinality(InMempool(tx.key))

(* The first transaction of the mempool is in a committed block.            *)
CommitFirst ==
  /\ mempool # << >>
  /\ mempool' = Tail(mempool)
  /\ committedSeq' = [committedSeq EXCEPT ![Head(mempool).key] = @ + 1]

(* The node restarts: its mempool is not kept.                              *)
DropMempool ==
  /\ mempool # << >>
  /\ mempool' = << >>
  /\ UNCHANGED committedSeq
=============================================================================
