--------------------------- MODULE BatchingClient ---------------------------
(***************************************************************************)
(* The client library (src/chain/bandlib): calls of SendTransaction from   *)
(* any number of goroutines put their messages on a channel; one loop      *)
(* collects them into a transaction, sends it and answers the calls.       *)
(*                                                                         *)
(* A call carries one message, which it stands for.  The node, and how its *)
(* mempool treats sequence numbers, is NodeAccounts.                       *)
(***************************************************************************)
EXTENDS NodeAccounts, SequencesExt

CONSTANTS
  Calls,          \* calls of SendTransaction with well-formed fees
  Gas,            \* the gas of each; with none at all the node is asked for it
  MsgCap,         \* capacity of msgChan
  MaximumMsgPerTx

ASSUME ClientAssumption ==
  /\ Gas \in [Calls -> Nat \ {0}]
  /\ MsgCap \in Nat \ {0}
  /\ MaximumMsgPerTx \in Nat \ {0}

VARIABLES
  call,     \* the stage of each call: "new", "waiting", or what it returned
  msgChan,  \* BandStatefulClient.msgChan
  msgs,     \* BandStatefulClient.msgs
  totalGas, \* BandStatefulClient.totalGas; totalFees is summed alike
  chans,    \* the calls with channels in txChans and errChans
  mode,     \* "read" while readMode is the closed channel; with readMode nil
            \* "send", "prepare", "broadcast", "wait" and "answer"
  tx,       \* the transaction being sent
  outcome,  \* what the provider's SendTransaction returned
  committed \* transactions in blocks, with whether their messages succeeded

node == <<mempool, committedSeq, committed>>
batch == <<msgs, totalGas, chans>>
vars == <<call, msgChan, batch, mode, tx, outcome, node>>

Sender == "sender"
NoTx == [key |-> Sender, seq |-> 0, msgs |-> << >>, gas |-> 0]

Init ==
  /\ call = [c \in Calls |-> "new"]
  /\ msgChan = << >>
  /\ msgs = << >> /\ totalGas = 0 /\ chans = << >>
  /\ mode = "read"
  /\ tx = NoTx
  /\ outcome = "none"
  /\ committed = {}
  /\ mempool = << >>
  /\ committedSeq = [key \in {Sender} |-> 0]

-----------------------------------------------------------------------------
(* A call puts its message on the channel, once there is room, and waits.   *)
SendTransaction(c) ==
  /\ call[c] = "new"
  /\ Len(msgChan) < MsgCap
  /\ msgChan' = Append(msgChan, c)
  /\ call' = [call EXCEPT ![c] = "waiting"]
  /\ UNCHANGED <<batch, mode, tx, outcome, node>>

(* The loop takes a message; a full batch ends the reading.                 *)
ReadMsg ==
  /\ mode = "read"
  /\ msgChan # << >>
  /\ msgChan' = Tail(msgChan)
  /\ msgs' = Append(msgs, Head(msgChan))
  /\ totalGas' = totalGas + Gas[Head(msgChan)]
  /\ chans' = Append(chans, Head(msgChan))
  /\ mode' = IF Len(msgs') = MaximumMsgPerTx THEN "send" ELSE "read"
  /\ UNCHANGED <<call, tx, outcome, node>>

(* Mutant: only a full batch is sent. *)
TimerFull ==
  /\ mode = "read"
  /\ msgChan = << >>
  /\ Len(msgs) = MaximumMsgPerTx
  /\ mode' = "send"
  /\ UNCHANGED <<call, msgChan, batch, tx, outcome, node>>

(* No message came for a while; what there is will be sent.                 *)
Timer ==
  /\ mode = "read"
  /\ msgChan = << >>
  /\ Len(msgs) # 0
  /\ mode' = "send"
  /\ UNCHANGED <<call, msgChan, batch, tx, outcome, node>>

(* The committed sequence number is read for the transaction.  If it cannot *)
(* be read the loop tries again, which changes nothing.                     *)
GetSequence ==
  /\ mode = "send"
  /\ tx' = [key |-> Sender, seq |-> committedSeq[Sender], msgs |-> msgs, gas |-> totalGas]
  /\ mode' = "prepare"
  /\ UNCHANGED <<call, msgChan, batch, outcome, node>>

(* A sequence number 0 is taken for none and read again, the transaction    *)
(* then signed.                                                             *)
PrepareTxBuilder ==
  /\ mode = "prepare"
  /\ tx' = [tx EXCEPT !.seq = IF @ = 0 THEN committedSeq[Sender] ELSE @]
  /\ mode' = "broadcast"
  /\ UNCHANGED <<call, msgChan, batch, outcome, node>>

(* The transaction reaches the node: CheckTx accepts or refuses it.  That   *)
(* it was refused is a response, not an error.                              *)
Broadcast ==
  /\ mode = "broadcast"
  /\ IF CheckTxAccepts(tx)
     THEN /\ mempool' = Append(mempool, tx)
          /\ mode' = "wait"
          /\ UNCHANGED outcome
     ELSE /\ outcome' = "refused"
          /\ mode' = "answer"
          /\ UNCHANGED mempool
  /\ UNCHANGED <<call, msgChan, batch, tx, committedSeq, committed>>

(* The account cannot be read, or the transaction does not reach the node,  *)
(* or is not in a block within the node's time.                             *)
BroadcastFails ==
  /\ mode \in {"prepare", "broadcast", "wait"}
  /\ outcome' = "error"
  /\ mode' = "answer"
  /\ UNCHANGED <<call, msgChan, batch, tx, node>>

(* A transaction is in a block, its messages executed together.  If it is   *)
(* the one the loop waits for, the loop has its response.                   *)
CommitTx ==
  /\ CommitFirst
  /\ \E result \in {"ok", "failed"} :
       /\ committed' = committed \cup {[tx |-> Head(mempool), result |-> result]}
       /\ IF mode = "wait" /\ Head(mempool) = tx
          THEN outcome' = result /\ mode' = "answer"
          ELSE UNCHANGED <<outcome, mode>>
  /\ UNCHANGED <<call, msgChan, batch, tx>>

NodeRestarts ==
  /\ DropMempool
  /\ UNCHANGED <<call, msgChan, batch, mode, tx, outcome, committed>>

(* The next call of the batch gets the response, or the error, in order:    *)
(* the channels are not buffered.                                           *)
Answer ==
  /\ mode = "answer"
  /\ \E i \in DOMAIN chans :
       /\ call[chans[i]] = "waiting"
       /\ \A j \in 1 .. i - 1 : call[chans[j]] # "waiting"
       /\ call' = [call EXCEPT ![chans[i]] = outcome]
  /\ UNCHANGED <<msgChan, batch, mode, tx, outcome, node>>

(* Mutants: the messages are kept; the gas is kept. *)
ClearKeepsMsgs ==
  /\ mode = "answer"
  /\ \A i \in DOMAIN chans : call[chans[i]] # "waiting"
  /\ mode' = "read"
  /\ totalGas' = 0 /\ chans' = << >>
  /\ UNCHANGED <<call, msgChan, msgs, tx, outcome, node>>

ClearKeepsGas ==
  /\ mode = "answer"
  /\ \A i \in DOMAIN chans : call[chans[i]] # "waiting"
  /\ mode' = "read"
  /\ msgs' = << >> /\ chans' = << >>
  /\ UNCHANGED <<call, msgChan, totalGas, tx, outcome, node>>

(* All calls are answered: the batch is cleared and reading goes on.        *)
Clear ==
  /\ mode = "answer"
  /\ \A i \in DOMAIN chans : call[chans[i]] # "waiting"
  /\ mode' = "read"
  /\ msgs' = << >> /\ totalGas' = 0 /\ chans' = << >>
  /\ UNCHANGED <<call, msgChan, tx, outcome, node>>

Loop ==
  \/ ReadMsg
  \/ Timer
  \/ GetSequence
  \/ PrepareTxBuilder
  \/ Broadcast
  \/ BroadcastFails
  \/ Answer
  \/ Clear

Next ==
  \/ \E c \in Calls : SendTransaction(c)
  \/ Loop
  \/ CommitTx
  \/ NodeRestarts

Spec == Init /\ [][Next]_vars

(* The loop's goroutine runs, the node can be asked for the sequence in the *)
(* end, and its answer comes or the time it waits runs out.                 *)
FairSpec == Spec /\ WF_vars(Loop)

-----------------------------------------------------------------------------
Transactions == Range(mempool) \cup {t.tx : t \in committed}
Carries(t, c) == \E i \in DOMAIN t.msgs : t.msgs[i] = c

(* What a call returns is true of the message it carried, not only of the   *)
(* batch: a message is in one transaction at most, in one place; a call     *)
(* told "ok" or "failed" has it in a block, with that result; a call told   *)
(* that it was refused can be repeated, for the message is nowhere.  After  *)
(* an error it may be in a block, or come to be.                            *)
AnswersAreTrue ==
  \A c \in Calls :
    /\ Cardinality({t \in Transactions : Carries(t, c)}) <= 1
    /\ call[c] \in {"ok", "failed"} =>
         \E t \in committed : Carries(t.tx, c) /\ t.result = call[c]
    /\ call[c] = "refused" => \A t \in Transactions : ~Carries(t, c)

(* Every transaction pays for its own messages, each once and at most       *)
(* MaximumMsgPerTx of them, however many batches were sent, refused or lost *)
(* before it.                                                               *)
GasCoversMessages ==
  \A t \in Transactions :
    /\ Len(t.msgs) \in 1 .. MaximumMsgPerTx
    /\ IsInjective(t.msgs)
    /\ t.gas = SumFunctionOnSet(Gas, Range(t.msgs))

(* A call whose message is on the channel returns, through full batches,    *)
(* refusals, timeouts and restarts of the node, whether or not others call. *)
EveryCallReturns == \A c \in Calls : call[c] = "waiting" ~> call[c] # "waiting"
=============================================================================
