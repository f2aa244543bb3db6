---------------------------- MODULE OracleDaemon ----------------------------
(***************************************************************************)
(* The oracle daemon of a validator (src/chain/cmd/bandoracled2): one      *)
(* goroutine per transaction event, one per request in it, one per raw     *)
(* request, and a channel of keys that limits how many reports are being   *)
(* submitted at a time.                                                    *)
(*                                                                         *)
(* A transaction is a result code and the logs of its messages.  What a    *)
(* data source answers and the exit codes are left out; what is kept of    *)
(* its executable is whether the node's answer has the 32 bytes that       *)
(* GetExecutable logs.                                                     *)
(***************************************************************************)
EXTENDS NodeAccounts, SequencesExt

CONSTANTS
  KeyList,      \* the reporter keys, as keybase.List gives them
  Transactions, \* their events reach the daemon: name -> [code, logs]; a log
                \* is [action, id, hasMe, raws], id 0 without a request, and a
                \* raw request is [eid, executable]
  MaxRestarts,  \* bound: how often the daemon is started again
  MaxDrops      \* bound: how often the node loses its mempool

Txs  == DOMAIN Transactions
Keys == ToSet(KeyList)
Logs(tx) == Transactions[tx].logs
RequestLogs == {log \in UNION {ToSet(Logs(tx)) : tx \in Txs} : log.id # 0}
RequestIDs  == {log.id : log \in RequestLogs}
LogOf(id)   == CHOOSE log \in RequestLogs : log.id = id

(* A key is a positive number; the keybase has no key twice. *)
ASSUME KeysAssumption ==
  KeyList \in Seq(Nat \ {0}) /\ Len(KeyList) > 0 /\ IsInjective(KeyList)

(* What the daemon reads of the logs; other fields are left out. *)
RawRequest == [eid : Int, executable : {"whole", "short"}]
MessageLog == [action : {"request", "packet", "other"}, id : Nat, hasMe : BOOLEAN,
               raws : Seq(RawRequest)]

ASSUME TransactionsAssumption == \A tx \in Txs : Logs(tx) \in Seq(MessageLog)

(* PrepareRequest gives every request an ID of its own. *)
ASSUME RequestsAssumption ==
  \A tx1, tx2 \in Txs : \A i \in 1 .. Len(Logs(tx1)), j \in 1 .. Len(Logs(tx2)) :
    Logs(tx1)[i].id = Logs(tx2)[j].id /\ Logs(tx1)[i].id # 0 => tx1 = tx2 /\ i = j

ASSUME BoundsAssumption == MaxRestarts \in Nat /\ MaxDrops \in Nat

NoKey == 0

(* What SubmitReport or an early return leaves of a request.                *)
Outcomes == {"skipped", "invalid", "no_account", "rejected", "no_answer",
             "tx_failed", "reported", "lost"}

VARIABLES
  up,        \* the daemon is running
  restarts,
  drops,
  handler,   \* tx -> next log of handleTransaction; 0 before the event
  job,       \* request -> its goroutine
  keys,      \* the channel of keys
  delivered, \* request -> outcome of its report in a block
  abandoned  \* keys of which a transaction was given up after it was sent

daemonVars == <<handler, job, keys>>
nodeVars   == <<mempool, committedSeq, delivered>>
vars == <<up, restarts, drops, handler, job, keys, delivered, abandoned,
          mempool, committedSeq>>

NoJob == [stage |-> "none", running |-> {}, reports |-> << >>, key |-> NoKey, seq |-> 0]

Init ==
  /\ up = TRUE
  /\ restarts = 0
  /\ drops = 0
  /\ handler = [tx \in Txs |-> 0]
  /\ job = [id \in RequestIDs |-> NoJob]
  /\ keys = KeyList
  /\ delivered = << >>
  /\ abandoned = {}
  /\ mempool = << >>
  /\ committedSeq = [key \in Keys |-> 0]

-----------------------------------------------------------------------------
(* The loops of runImpl and handleTransaction. *)

Done(tx) == Len(Logs(tx)) + 1

(* runImpl starts a goroutine for the event; one with a code is skipped.    *)
ReceiveEvent(tx) ==
  /\ up
  /\ handler[tx] = 0
  /\ handler' = [handler EXCEPT ![tx] =
                   IF Transactions[tx].code = 0 THEN 1 ELSE Done(tx)]
  /\ UNCHANGED <<up, restarts, drops, job, keys, abandoned, nodeVars>>

(* Nobody subscribes while the daemon is down; an event is not sent again.  *)
MissEvent(tx) ==
  /\ ~up
  /\ handler[tx] = 0
  /\ handler' = [handler EXCEPT ![tx] = Done(tx)]
  /\ UNCHANGED <<up, restarts, drops, job, keys, abandoned, nodeVars>>

(* The start of handleRequestLog: a request that does not ask this          *)
(* validator is skipped, else a goroutine is started per raw request.       *)
StartRequest(id) ==
  job' = [job EXCEPT ![id] =
            IF LogOf(id).hasMe
            THEN [@ EXCEPT !.stage = "collect",
                           !.running = 1 .. Len(LogOf(id).raws)]
            ELSE [@ EXCEPT !.stage = "skipped"]]

(* Mutant: every log that is no request ends the handling of the            *)
(* transaction.                                                             *)
HandleLogReturns(tx) ==
  /\ up
  /\ handler[tx] \in 1 .. Len(Logs(tx))
  /\ LET log == Logs(tx)[handler[tx]]
     IN  IF log.action \in {"request", "packet"} /\ log.id # 0
         THEN /\ StartRequest(log.id)
              /\ handler' = [handler EXCEPT ![tx] = @ + 1]
         ELSE handler' = [handler EXCEPT ![tx] = Done(tx)] /\ UNCHANGED job
  /\ UNCHANGED <<up, restarts, drops, keys, abandoned, nodeVars>>

(* One log of handleTransaction.  A packet without a request returns, and   *)
(* the logs after it are not looked at; a request without an ID is logged   *)
(* by its goroutine and left.                                               *)
HandleLog(tx) ==
  /\ up
  /\ handler[tx] \in 1 .. Len(Logs(tx))
  /\ LET log == Logs(tx)[handler[tx]]
     IN  \/ /\ log.action \in {"request", "packet"}
            /\ log.id # 0
            /\ StartRequest(log.id)
            /\ handler' = [handler EXCEPT ![tx] = @ + 1]
         \/ /\ log.action = "packet"
            /\ log.id = 0
            /\ handler' = [handler EXCEPT ![tx] = Done(tx)]
            /\ UNCHANGED job
         \/ /\ log.action # "packet"
            /\ log.action = "request" => log.id = 0
            /\ handler' = [handler EXCEPT ![tx] = @ + 1]
            /\ UNCHANGED job
  /\ UNCHANGED <<up, restarts, drops, keys, abandoned, nodeVars>>

-----------------------------------------------------------------------------
(* The goroutine of a raw request. *)

(* It puts one report on the channel: of the failure to load the executable *)
(* if the query fails, else of what the executor returned.                  *)
RunRawRequest(id, i) ==
  /\ up
  /\ job[id].stage = "collect"
  /\ i \in job[id].running
  /\ job' = [job EXCEPT
       ![id].running = @ \ {i},
       ![id].reports = Append(@, LogOf(id).raws[i].eid)]
  /\ UNCHANGED <<up, restarts, drops, handler, keys, abandoned, nodeVars>>

(* What the end of the process leaves: the chain, the mempool and the keys  *)
(* in the keybase.                                                          *)
Stop ==
  /\ up' = FALSE
  /\ handler' = [tx \in Txs |-> IF handler[tx] = 0 THEN 0 ELSE Done(tx)]
  /\ job' = [id \in RequestIDs |->
       IF job[id].stage \notin Outcomes
            /\ \E tx \in Txs : handler[tx] # 0 /\ \E i \in 1 .. Len(Logs(tx)) :
                                                     Logs(tx)[i].id = id
       THEN [NoJob EXCEPT !.stage = "lost"] ELSE job[id]]
  /\ keys' = << >>
  /\ abandoned' = abandoned \cup {mempool[i].key : i \in 1 .. Len(mempool)}

(* GetExecutable slices 32 bytes of the answer for its log line, at every   *)
(* log level, in a goroutine that does not recover: the process ends.  A    *)
(* short answer may still have the capacity for the slice.                  *)
GetExecutablePanics(id, i) ==
  /\ up
  /\ job[id].stage = "collect"
  /\ i \in job[id].running
  /\ LogOf(id).raws[i].executable = "short"
  /\ Stop
  /\ UNCHANGED <<restarts, drops, nodeVars>>

(* The operator starts the daemon again. *)
Restart ==
  /\ ~up
  /\ restarts < MaxRestarts
  /\ restarts' = restarts + 1
  /\ up' = TRUE
  /\ keys' = KeyList
  /\ UNCHANGED <<drops, handler, job, abandoned, nodeVars>>

-----------------------------------------------------------------------------
(* SubmitReport. *)

ReturnKey(id) == keys' = Append(keys, job[id].key)

End(id, outcome) == job' = [job EXCEPT ![id].stage = outcome, ![id].key = NoKey]

(* MsgReportData.ValidateBasic: reports, and no external ID twice.          *)
ValidateBasic(reports) == reports # << >> /\ IsInjective(reports)

(* Mutant: the key is put back only once the message is valid. *)
TakeKeyKeptIfInvalid(id) ==
  /\ up
  /\ job[id].stage = "collect"
  /\ job[id].running = {}
  /\ keys # << >>
  /\ keys' = Tail(keys)
  /\ IF ValidateBasic(job[id].reports)
     THEN job' = [job EXCEPT ![id].stage = "account", ![id].key = Head(keys)]
     ELSE End(id, "invalid")
  /\ UNCHANGED <<up, restarts, drops, handler, abandoned, nodeVars>>

(* Mutant: the reports are submitted before all of them are there. *)
TakeKeyEarly(id) ==
  /\ up
  /\ job[id].stage = "collect"
  /\ job[id].reports # << >>
  /\ keys # << >>
  /\ job' = [job EXCEPT ![id].stage = "account", ![id].key = Head(keys)]
  /\ keys' = Tail(keys)
  /\ UNCHANGED <<up, restarts, drops, handler, abandoned, nodeVars>>

(* All reports are there: a key is taken from the channel, and put back at  *)
(* once if the message is not valid.                                        *)
TakeKey(id) ==
  /\ up
  /\ job[id].stage = "collect"
  /\ job[id].running = {}
  /\ keys # << >>
  /\ IF ValidateBasic(job[id].reports)
     THEN /\ job' = [job EXCEPT ![id].stage = "account", ![id].key = Head(keys)]
          /\ keys' = Tail(keys)
     ELSE /\ End(id, "invalid")
          /\ keys' = Append(Tail(keys), Head(keys))
  /\ UNCHANGED <<up, restarts, drops, handler, abandoned, nodeVars>>

(* The account is read from the committed state; the query may fail.        *)
GetAccount(id) ==
  /\ up
  /\ job[id].stage = "account"
  /\ \/ /\ job' = [job EXCEPT ![id].stage = "broadcast",
                              ![id].seq = committedSeq[job[id].key]]
        /\ UNCHANGED keys
     \/ /\ End(id, "no_account")
        /\ ReturnKey(id)
  /\ UNCHANGED <<up, restarts, drops, handler, abandoned, nodeVars>>

Tx(id) == [key |-> job[id].key, seq |-> job[id].seq, id |-> id, reports |-> job[id].reports]

(* Mutant: the key is put back once the transaction is accepted. *)
BroadcastReturnsKey(id) ==
  /\ up
  /\ job[id].stage = "broadcast"
  /\ \/ /\ CheckTxAccepts(Tx(id))
        /\ mempool' = Append(mempool, Tx(id))
        /\ End(id, "wait")
     \/ /\ ~CheckTxAccepts(Tx(id))
        /\ End(id, "rejected")
        /\ UNCHANGED mempool
  /\ ReturnKey(id)
  /\ UNCHANGED <<up, restarts, drops, handler, abandoned, committedSeq, delivered>>

(* BroadcastTxCommit: CheckTx refuses a sequence number that is not the     *)
(* next one; an accepted transaction is waited for.                         *)
Broadcast(id) ==
  /\ up
  /\ job[id].stage = "broadcast"
  /\ \/ /\ CheckTxAccepts(Tx(id))
        /\ mempool' = Append(mempool, Tx(id))
        /\ job' = [job EXCEPT ![id].stage = "wait"]
        /\ UNCHANGED keys
     \/ /\ ~CheckTxAccepts(Tx(id))
        /\ End(id, "rejected")
        /\ ReturnKey(id)
        /\ UNCHANGED mempool
  /\ UNCHANGED <<up, restarts, drops, handler, abandoned, committedSeq, delivered>>

(* The transaction is in a block and the wait ends with its code.           *)
BroadcastAnswered(id) ==
  /\ up
  /\ job[id].stage = "wait"
  /\ id \in DOMAIN delivered
  /\ End(id, delivered[id])
  /\ ReturnKey(id)
  /\ UNCHANGED <<up, restarts, drops, handler, abandoned, nodeVars>>

(* The transaction cannot be signed or sent, or the wait for it times out   *)
(* or breaks, before it is in a block or after it.  There is no retry.      *)
BroadcastFails(id) ==
  /\ up
  /\ job[id].stage \in {"broadcast", "wait"}
  /\ End(id, "no_answer")
  /\ ReturnKey(id)
  /\ abandoned' = abandoned \cup {key \in {job[id].key} : job[id].stage = "wait"}
  /\ UNCHANGED <<up, restarts, drops, handler, nodeVars>>

-----------------------------------------------------------------------------
(* The node (external). *)

CommitReport ==
  /\ CommitFirst
  /\ \E outcome \in {"reported", "tx_failed"} :
       delivered' = [id \in DOMAIN delivered \cup {Head(mempool).id} |->
                       IF id = Head(mempool).id THEN outcome ELSE delivered[id]]
  /\ UNCHANGED <<up, restarts, drops, handler, job, keys, abandoned>>

NodeRestarts ==
  /\ drops < MaxDrops
  /\ drops' = drops + 1
  /\ DropMempool
  /\ UNCHANGED <<up, restarts, handler, job, keys, abandoned, delivered>>

-----------------------------------------------------------------------------
SubmitReport(id) ==
  \/ TakeKey(id)
  \/ GetAccount(id)
  \/ Broadcast(id)
  \/ BroadcastAnswered(id)
  \/ BroadcastFails(id)

RawIndices == UNION {1 .. Len(log.raws) : log \in RequestLogs}

Next ==
  \/ \E tx \in Txs : ReceiveEvent(tx) \/ MissEvent(tx) \/ HandleLog(tx)
  \/ \E id \in RequestIDs, i \in RawIndices :
        RunRawRequest(id, i) \/ GetExecutablePanics(id, i)
  \/ \E id \in RequestIDs : SubmitReport(id)
  \/ Restart
  \/ CommitReport
  \/ NodeRestarts

Spec == Init /\ [][Next]_vars

(* Goroutines run, queries and executions return (the executor's client has *)
(* no time limit of its own, but the lambda stops what it runs), and        *)
(* BroadcastTxCommit returns with an answer or without one.  Events,    *)
(* blocks and restarts are not promised.  Receivers of a Go channel are     *)
(* served in the order they came, so that nobody waits for a key for ever   *)
(* while keys are put back.                                                 *)
FairSpec ==
  /\ Spec
  /\ \A tx \in Txs : WF_vars(HandleLog(tx))
  /\ \A id \in RequestIDs :
       /\ \A i \in RawIndices : WF_vars(RunRawRequest(id, i))
       /\ SF_vars(TakeKey(id))
       /\ WF_vars(GetAccount(id))
       /\ WF_vars(Broadcast(id))
       /\ WF_vars(BroadcastAnswered(id) \/ BroadcastFails(id))

-----------------------------------------------------------------------------
Holders(key) == {id \in RequestIDs : job[id].key = key}

(* The channel of keys and SubmitReport's defer: while the daemon runs,     *)
(* each key is in the channel once or in the hands of one goroutine, on     *)
(* every path out of SubmitReport.                                          *)
KeysConserved ==
  up => \A key \in Keys :
          Cardinality({i \in 1 .. Len(keys) : keys[i] = key})
            + Cardinality(Holders(key)) = 1

(* A report is refused for its sequence number only if an earlier           *)
(* transaction of the key was given up while it could still be included:    *)
(* as long as every broadcast is answered, concurrent reports do not        *)
(* disturb each other.                                                      *)
RejectedOnlyAfterAbandon ==
  \A id \in RequestIDs :
     job[id].stage = "broadcast" /\ job[id].key \notin abandoned
       => CheckTxAccepts(Tx(id))

(* A report that is sent has every external ID of its request, and each     *)
(* once, in whatever order the goroutines of the raw requests end.          *)
ReportsComplete ==
  \A i \in 1 .. Len(mempool) :
     LET raws == LogOf(mempool[i].id).raws
     IN  /\ Len(mempool[i].reports) = Len(raws)
         /\ ToSet(mempool[i].reports) = {raws[j].eid : j \in 1 .. Len(raws)}

(* No packet without a request comes before the log in its transaction.     *)
Reached(tx, i) ==
  /\ Transactions[tx].code = 0
  /\ \A j \in 1 .. i - 1 : Logs(tx)[j].action = "packet" => Logs(tx)[j].id # 0

(* Every request in an event that the daemon received comes to an end: it   *)
(* is reported, or given up at a known place; no goroutine is left waiting  *)
(* for a key, whatever the others do.  Requests behind a packet without a   *)
(* request are never started.                                               *)
EveryRequestHandled ==
  \A tx \in Txs : \A i \in 1 .. Len(Logs(tx)) :
     LET id == Logs(tx)[i].id
     IN  id # 0 /\ Reached(tx, i) =>
           ((handler[tx] = 1) ~> (job[id].stage \in Outcomes))
=============================================================================
