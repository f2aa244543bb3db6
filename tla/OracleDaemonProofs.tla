------------------------- MODULE OracleDaemonProofs -------------------------
(***************************************************************************)
(* Proofs about OracleDaemon, for any number of keys, transactions, raw    *)
(* requests, restarts of the daemon and lost mempools.                     *)
(***************************************************************************)
EXTENDS OracleDaemon, SequenceTheorems, FiniteSetTheorems, TLAPS

-----------------------------------------------------------------------------
(* Types. *)

Active == {"account", "broadcast", "wait"}
Stages == {"none", "collect"} \cup Active \cup Outcomes

Job == [stage : Stages, running : SUBSET Nat, reports : Seq(Int),
        key : Keys \cup {NoKey}, seq : Nat]

ReportTx == [key : Keys, seq : Nat, id : RequestIDs, reports : Seq(Int)]

DaemonType ==
  /\ handler \in [Txs -> Nat]
  /\ job \in [RequestIDs -> Job]
  /\ \A id \in RequestIDs :
       /\ job[id].running \subseteq 1 .. Len(LogOf(id).raws)
       /\ job[id].stage \in Active <=> job[id].key # NoKey
  /\ keys \in Seq(Keys)
  /\ mempool \in Seq(ReportTx)
  /\ committedSeq \in [Keys -> Nat]
  /\ DOMAIN delivered \subseteq RequestIDs
  /\ \A id \in DOMAIN delivered : delivered[id] \in {"reported", "tx_failed"}

LEMMA KeysAreNat == Keys \subseteq Nat \ {0} /\ KeyList \in Seq(Keys)
<1>1. /\ KeyList \in Seq(Nat \ {0}) /\ Len(KeyList) \in Nat
      /\ DOMAIN KeyList = 1 .. Len(KeyList)
  BY KeysAssumption, LenProperties
<1>2. \A i \in 1 .. Len(KeyList) : KeyList[i] \in Nat \ {0}
  BY <1>1, ElementOfSeq
<1>3. Keys = {KeyList[i] : i \in 1 .. Len(KeyList)}
  BY <1>1 DEF Keys, ToSet
<1>4. KeyList \in [1 .. Len(KeyList) -> Keys]
  BY <1>1, <1>3
<1> QED
  BY <1>1, <1>2, <1>3, <1>4

(* The log of a request, and its place among the events. *)
LEMMA PlaceOfLog ==
  ASSUME NEW tx \in Txs, NEW i \in 1 .. Len(Logs(tx)), Logs(tx)[i].id # 0
  PROVE  Logs(tx)[i].id \in RequestIDs /\ LogOf(Logs(tx)[i].id) = Logs(tx)[i]
<1> DEFINE log == Logs(tx)[i]
<1>1. \A t \in Txs : DOMAIN Logs(t) = 1 .. Len(Logs(t))
  BY TransactionsAssumption, LenProperties
<1>2. log \in RequestLogs
  BY <1>1 DEF RequestLogs, ToSet
<1>3. ASSUME NEW other \in RequestLogs, other.id = log.id PROVE other = log
  <2>1. PICK t \in Txs : \E j \in 1 .. Len(Logs(t)) : other = Logs(t)[j]
    BY <1>1, <1>3 DEF RequestLogs, ToSet
  <2> QED
    BY <1>3, <2>1, RequestsAssumption
<1>4. LogOf(log.id) \in RequestLogs /\ LogOf(log.id).id = log.id
  BY <1>2 DEF LogOf
<1> QED
  BY <1>2, <1>3, <1>4 DEF RequestIDs

LEMMA RequestPlaced ==
  ASSUME NEW id \in RequestIDs
  PROVE  \E tx \in Txs : \E i \in 1 .. Len(Logs(tx)) : Logs(tx)[i].id = id
<1>1. PICK tx \in Txs : \E log \in ToSet(Logs(tx)) : log.id = id
  BY DEF RequestIDs, RequestLogs
<1>2. DOMAIN Logs(tx) = 1 .. Len(Logs(tx))
  BY TransactionsAssumption, LenProperties
<1> QED
  BY <1>1, <1>2 DEF ToSet

LEMMA LogOfType ==
  ASSUME NEW id \in RequestIDs
  PROVE  /\ LogOf(id) \in RequestLogs /\ LogOf(id).id = id /\ id # 0
         /\ LogOf(id).raws \in Seq(RawRequest) /\ Len(LogOf(id).raws) \in Nat
         /\ \A i \in 1 .. Len(LogOf(id).raws) : LogOf(id).raws[i].eid \in Int
<1>1. LogOf(id) \in RequestLogs /\ LogOf(id).id = id /\ id # 0
  BY DEF LogOf, RequestIDs, RequestLogs
<1>2. PICK tx \in Txs : LogOf(id) \in ToSet(Logs(tx))
  BY <1>1 DEF RequestLogs
<1>3. Logs(tx) \in Seq(MessageLog) /\ DOMAIN Logs(tx) = 1 .. Len(Logs(tx))
  BY TransactionsAssumption, LenProperties
<1>4. \A i \in 1 .. Len(Logs(tx)) : Logs(tx)[i] \in MessageLog
  BY <1>3, ElementOfSeq
<1>5. LogOf(id) \in MessageLog
  BY <1>2, <1>3, <1>4 DEF ToSet
<1>6. LogOf(id).raws \in Seq(RawRequest)
  BY <1>5 DEF MessageLog
<1>7. \A i \in 1 .. Len(LogOf(id).raws) : LogOf(id).raws[i] \in RawRequest
  BY <1>6, ElementOfSeq
<1>8. \A i \in 1 .. Len(LogOf(id).raws) : LogOf(id).raws[i].eid \in Int
  BY <1>7 DEF RawRequest
<1> QED
  BY <1>1, <1>6, <1>8, LenProperties

-----------------------------------------------------------------------------
(* What the actions do to a goroutine. *)

OthersKept(id) == \A k \in RequestIDs : k # id => job'[k] = job[k]

(* The goroutine of id moves on to a stage. *)
Moves(id, stage) ==
  /\ job' \in [RequestIDs -> Job] /\ OthersKept(id)
  /\ job'[id].stage = stage /\ job'[id].reports = job[id].reports
  /\ job'[id].running = job[id].running

LEMMA EndEffect ==
  ASSUME DaemonType, NEW id \in RequestIDs, NEW outcome \in Outcomes, End(id, outcome)
  PROVE  Moves(id, outcome) /\ job'[id].key = NoKey
<1>1. job[id] \in Job /\ job \in [RequestIDs -> Job]
  BY DEF DaemonType
<1> DEFINE new == [job[id] EXCEPT !.stage = outcome, !.key = NoKey]
<1>2. job' = [job EXCEPT ![id] = new]
  BY <1>1 DEF End
<1>3. /\ new \in Job /\ new.stage = outcome /\ new.key = NoKey
      /\ new.reports = job[id].reports /\ new.running = job[id].running
  BY <1>1 DEF Job, Stages
<1> HIDE DEF new
<1> QED
  BY <1>1, <1>2, <1>3 DEF Moves, OthersKept

(* handleTransaction goes on, or starts the goroutine of a request. *)
LEMMA HandleLogEffect ==
  ASSUME DaemonType, NEW tx \in Txs, HandleLog(tx)
  PROVE  /\ up /\ handler' \in [Txs -> Nat]
         /\ \A t \in Txs : handler'[t] >= handler[t]
         /\ UNCHANGED <<up, keys, abandoned, mempool, committedSeq, delivered>>
         /\ \/ UNCHANGED job
            \/ \E id \in RequestIDs :
                 /\ handler[tx] \in 1 .. Len(Logs(tx)) /\ Logs(tx)[handler[tx]].id = id
                 /\ handler'[tx] = handler[tx] + 1
                 /\ job' \in [RequestIDs -> Job] /\ OthersKept(id)
                 /\ job'[id].stage \in {"collect", "skipped"}
                 /\ job'[id].key = job[id].key /\ job'[id].reports = job[id].reports
                 /\ job'[id].running =
                      IF job'[id].stage = "collect" THEN 1 .. Len(LogOf(id).raws)
                                                    ELSE job[id].running
<1> DEFINE i == handler[tx]
           log == Logs(tx)[i]
<1>1. /\ up /\ i \in 1 .. Len(Logs(tx)) /\ i \in Nat
      /\ UNCHANGED <<up, keys, abandoned, mempool, committedSeq, delivered>>
  BY DEF HandleLog, nodeVars, DaemonType
<1>2. Len(Logs(tx)) \in Nat /\ Done(tx) = Len(Logs(tx)) + 1
  BY TransactionsAssumption, LenProperties DEF Done
<1>3. \/ log.id # 0 /\ StartRequest(log.id) /\ handler' = [handler EXCEPT ![tx] = i + 1]
      \/ UNCHANGED job /\ handler' = [handler EXCEPT ![tx] = Done(tx)]
      \/ UNCHANGED job /\ handler' = [handler EXCEPT ![tx] = i + 1]
  BY DEF HandleLog
<1>4. /\ handler' \in [Txs -> Nat]
      /\ \A t \in Txs : handler'[t] >= handler[t]
  <2>1. handler \in [Txs -> Nat]
    BY DEF DaemonType
  <2>2. PICK n \in Nat : handler' = [handler EXCEPT ![tx] = n] /\ n >= i
    BY <1>1, <1>2, <1>3
  <2> QED
    BY <2>1, <2>2
<1>5. ASSUME log.id # 0, StartRequest(log.id)
      PROVE  \E id \in RequestIDs :
                 /\ log.id = id
                 /\ job' \in [RequestIDs -> Job] /\ OthersKept(id)
                 /\ job'[id].stage \in {"collect", "skipped"}
                 /\ job'[id].key = job[id].key /\ job'[id].reports = job[id].reports
                 /\ job'[id].running =
                      IF job'[id].stage = "collect" THEN 1 .. Len(LogOf(id).raws)
                                                    ELSE job[id].running
  <2>1. PICK id \in RequestIDs : id = log.id
    BY <1>1, <1>5, PlaceOfLog
  <2>2. job[id] \in Job /\ job \in [RequestIDs -> Job]
    BY DEF DaemonType
  <2> DEFINE started == [job[id] EXCEPT !.stage = "collect",
                                        !.running = 1 .. Len(LogOf(id).raws)]
             skipped == [job[id] EXCEPT !.stage = "skipped"]
  <2>3. /\ started \in Job /\ started.stage = "collect"
        /\ started.running = 1 .. Len(LogOf(id).raws)
        /\ started.key = job[id].key /\ started.reports = job[id].reports
    <3>1. 1 .. Len(LogOf(id).raws) \in SUBSET Nat /\ "collect" \in Stages
      BY LogOfType DEF Stages
    <3> QED
      BY <2>2, <3>1 DEF Job
  <2>4. /\ skipped \in Job /\ skipped.stage = "skipped"
        /\ skipped.key = job[id].key /\ skipped.reports = job[id].reports
        /\ skipped.running = job[id].running
    BY <2>2 DEF Job, Stages, Outcomes
  <2>5. \E new \in {started, skipped} : job' = [job EXCEPT ![id] = new]
    BY <1>5, <2>1 DEF StartRequest
  <2> HIDE DEF started, skipped
  <2>6. PICK new \in {started, skipped} : job' = [job EXCEPT ![id] = new]
    BY <2>5
  <2>7. new \in Job /\ job'[id] = new /\ OthersKept(id) /\ job' \in [RequestIDs -> Job]
    BY <2>2, <2>3, <2>4, <2>6 DEF OthersKept
  <2> QED
    BY <2>1, <2>3, <2>4, <2>6, <2>7
<1>6. handler' = [handler EXCEPT ![tx] = i + 1] => handler'[tx] = handler[tx] + 1
  BY DEF DaemonType
<1> QED
  BY <1>1, <1>3, <1>4, <1>5, <1>6

(* A raw request is answered: its report is the last one. *)
LEMMA RunRawRequestEffect ==
  ASSUME DaemonType, NEW id \in RequestIDs, NEW i, RunRawRequest(id, i)
  PROVE  /\ up /\ job[id].stage = "collect"
         /\ i \in job[id].running /\ i \in 1 .. Len(LogOf(id).raws)
         /\ job' \in [RequestIDs -> Job] /\ OthersKept(id)
         /\ job'[id].stage = "collect" /\ job'[id].key = job[id].key
         /\ job'[id].running = job[id].running \ {i}
         /\ job'[id].reports = Append(job[id].reports, LogOf(id).raws[i].eid)
         /\ UNCHANGED <<up, handler, keys, abandoned, mempool, committedSeq, delivered>>
<1>1. job[id] \in Job /\ job \in [RequestIDs -> Job]
  BY DEF DaemonType
<1> DEFINE eid == LogOf(id).raws[i].eid
           new == [job[id] EXCEPT !.running = job[id].running \ {i},
                                  !.reports = Append(job[id].reports, eid)]
<1>2. /\ up /\ job[id].stage = "collect" /\ i \in job[id].running
      /\ job' = [job EXCEPT ![id] = new]
      /\ UNCHANGED <<up, handler, keys, abandoned, mempool, committedSeq, delivered>>
  BY <1>1 DEF RunRawRequest, nodeVars
<1>3. i \in 1 .. Len(LogOf(id).raws)
  BY <1>2 DEF DaemonType
<1>4. eid \in Int
  BY <1>3, LogOfType
<1>5. Append(job[id].reports, eid) \in Seq(Int) /\ job[id].running \ {i} \in SUBSET Nat
  BY <1>1, <1>4, AppendProperties DEF Job
<1>6. /\ new \in Job /\ new.stage = job[id].stage /\ new.key = job[id].key
      /\ new.running = job[id].running \ {i}
      /\ new.reports = Append(job[id].reports, eid)
  BY <1>1, <1>5 DEF Job
<1> HIDE DEF new
<1> QED
  BY <1>1, <1>2, <1>3, <1>6 DEF OthersKept

(* The process ends: every goroutine is lost that was started and had not   *)
(* come to its end.                                                         *)
LEMMA StopEffect ==
  ASSUME DaemonType, Stop
  PROVE  /\ ~up' /\ keys' = << >>
         /\ handler' \in [Txs -> Nat]
         /\ \A tx \in Txs : handler'[tx] = IF handler[tx] = 0 THEN 0 ELSE Done(tx)
         /\ job' \in [RequestIDs -> Job]
         /\ \A id \in RequestIDs :
              \/ job'[id] = job[id]
                 /\ \/ job[id].stage \in Outcomes
                    \/ \A tx \in Txs : \A i \in 1 .. Len(Logs(tx)) :
                         Logs(tx)[i].id = id => handler[tx] = 0
              \/ /\ job'[id] = [NoJob EXCEPT !.stage = "lost"]
                 /\ job[id].stage \notin Outcomes
                 /\ \E tx \in Txs : handler[tx] # 0 /\ \E i \in 1 .. Len(Logs(tx)) :
                                                        Logs(tx)[i].id = id
         /\ abandoned' = abandoned \cup {mempool[i].key : i \in 1 .. Len(mempool)}
<1> DEFINE Begun(id) == \E tx \in Txs : handler[tx] # 0 /\ \E i \in 1 .. Len(Logs(tx)) :
                                                              Logs(tx)[i].id = id
           lostJob == [NoJob EXCEPT !.stage = "lost"]
<1>1. lostJob \in Job
  <2>1. << >> \in Seq(Int)
    BY EmptySeq
  <2> QED
    BY <2>1 DEF Job, NoJob, Stages, Outcomes
<1>2. job' = [id \in RequestIDs |->
                IF job[id].stage \notin Outcomes /\ Begun(id) THEN lostJob ELSE job[id]]
  BY DEF Stop
<1> HIDE DEF lostJob, Begun
<1>3. job' \in [RequestIDs -> Job]
  BY <1>1, <1>2 DEF DaemonType
<1>4. \A tx \in Txs : Done(tx) \in Nat
  BY TransactionsAssumption, LenProperties DEF Done
<1>5. /\ handler' \in [Txs -> Nat]
      /\ \A tx \in Txs : handler'[tx] = IF handler[tx] = 0 THEN 0 ELSE Done(tx)
  BY <1>4 DEF Stop
<1>6. ASSUME NEW id \in RequestIDs
      PROVE  \/ job'[id] = job[id] /\ (job[id].stage \in Outcomes \/ ~Begun(id))
             \/ job'[id] = lostJob /\ job[id].stage \notin Outcomes /\ Begun(id)
  BY <1>2
<1>7. ~up' /\ keys' = << >>
      /\ abandoned' = abandoned \cup {mempool[i].key : i \in 1 .. Len(mempool)}
  BY DEF Stop
<1> QED
  BY <1>3, <1>5, <1>6, <1>7 DEF lostJob, Begun

(* SubmitReport: the ways its goroutine goes on. *)
KeyTaken(id) ==
  /\ job[id].stage = "collect" /\ job[id].running = {} /\ keys # << >>
  /\ Moves(id, "account")
  /\ job'[id].key = Head(keys) /\ keys' = Tail(keys)
  /\ UNCHANGED <<abandoned, mempool>>

ReportInvalid(id) ==
  /\ job[id].stage = "collect" /\ keys # << >>
  /\ Moves(id, "invalid")
  /\ job'[id].key = NoKey /\ keys' = Append(Tail(keys), Head(keys))
  /\ UNCHANGED <<abandoned, mempool>>

AccountRead(id) ==
  /\ job[id].stage = "account"
  /\ Moves(id, "broadcast")
  /\ job'[id].key = job[id].key /\ job'[id].seq = committedSeq[job[id].key]
  /\ UNCHANGED <<keys, abandoned, mempool>>

Sent(id) ==
  /\ job[id].stage = "broadcast" /\ CheckTxAccepts(Tx(id))
  /\ Moves(id, "wait")
  /\ job'[id].key = job[id].key /\ job'[id].seq = job[id].seq
  /\ mempool' = Append(mempool, Tx(id))
  /\ UNCHANGED <<keys, abandoned>>

KeyReturned(id) ==
  /\ job[id].stage \in Active
  /\ \E outcome \in Outcomes : Moves(id, outcome)
  /\ job'[id].key = NoKey /\ keys' = Append(keys, job[id].key)
  /\ abandoned \subseteq abandoned'
  /\ job[id].stage = "wait" => id \in DOMAIN delivered \/ job[id].key \in abandoned'
  /\ UNCHANGED mempool

LEMMA SubmitReportEffect ==
  ASSUME DaemonType, NEW id \in RequestIDs, SubmitReport(id)
  PROVE  /\ up /\ UNCHANGED <<up, handler, committedSeq, delivered>>
         /\ \/ KeyTaken(id) \/ ReportInvalid(id) \/ AccountRead(id)
            \/ Sent(id) \/ KeyReturned(id)
<1>1. job[id] \in Job /\ job \in [RequestIDs -> Job]
  BY DEF DaemonType
<1>2. CASE TakeKey(id)
  <2>1. /\ up /\ job[id].stage = "collect" /\ job[id].running = {} /\ keys # << >>
        /\ UNCHANGED <<up, handler, abandoned, mempool, committedSeq, delivered>>
        /\ \/ /\ job' = [job EXCEPT ![id].stage = "account", ![id].key = Head(keys)]
              /\ keys' = Tail(keys)
           \/ End(id, "invalid") /\ keys' = Append(Tail(keys), Head(keys))
    BY <1>2 DEF TakeKey, nodeVars
  <2>2. CASE End(id, "invalid") /\ keys' = Append(Tail(keys), Head(keys))
    BY <2>1, <2>2, EndEffect DEF ReportInvalid, Outcomes
  <2>3. ASSUME job' = [job EXCEPT ![id].stage = "account", ![id].key = Head(keys)],
               keys' = Tail(keys)
        PROVE  KeyTaken(id)
    <3> DEFINE new == [job[id] EXCEPT !.stage = "account", !.key = Head(keys)]
    <3>1. Head(keys) \in Keys
      BY <2>1, HeadTailProperties DEF DaemonType
    <3>2. /\ new \in Job /\ new.stage = "account" /\ new.key = Head(keys)
          /\ new.reports = job[id].reports /\ new.running = job[id].running
      BY <1>1, <3>1 DEF Job, Stages, Active
    <3>3. job' = [job EXCEPT ![id] = new]
      BY <1>1, <2>3
    <3> HIDE DEF new
    <3> QED
      BY <1>1, <2>1, <2>3, <3>2, <3>3 DEF KeyTaken, Moves, OthersKept
  <2> QED
    BY <2>1, <2>2, <2>3
<1>3. CASE GetAccount(id)
  <2>1. /\ up /\ job[id].stage = "account"
        /\ UNCHANGED <<up, handler, abandoned, mempool, committedSeq, delivered>>
        /\ \/ /\ job' = [job EXCEPT ![id].stage = "broadcast",
                                    ![id].seq = committedSeq[job[id].key]]
              /\ UNCHANGED keys
           \/ End(id, "no_account") /\ keys' = Append(keys, job[id].key)
    BY <1>3 DEF GetAccount, ReturnKey, nodeVars
  <2>2. CASE End(id, "no_account") /\ keys' = Append(keys, job[id].key)
    BY <2>1, <2>2, EndEffect DEF KeyReturned, Outcomes, Active
  <2>3. ASSUME job' = [job EXCEPT ![id].stage = "broadcast",
                                  ![id].seq = committedSeq[job[id].key]],
               UNCHANGED keys
        PROVE  AccountRead(id)
    <3> DEFINE n == committedSeq[job[id].key]
               new == [job[id] EXCEPT !.stage = "broadcast", !.seq = n]
    <3>1. n \in Nat
      BY <1>1, <2>1 DEF DaemonType, Job, Active
    <3>2. /\ new \in Job /\ new.stage = "broadcast" /\ new.key = job[id].key
          /\ new.seq = n
          /\ new.reports = job[id].reports /\ new.running = job[id].running
      BY <1>1, <3>1 DEF Job, Stages, Active
    <3>3. job' = [job EXCEPT ![id] = new]
      BY <1>1, <2>3
    <3> HIDE DEF new
    <3> QED
      BY <1>1, <2>1, <2>3, <3>2, <3>3 DEF AccountRead, Moves, OthersKept
  <2> QED
    BY <2>1, <2>2, <2>3
<1>4. CASE Broadcast(id)
  <2>1. /\ up /\ job[id].stage = "broadcast"
        /\ UNCHANGED <<up, handler, abandoned, committedSeq, delivered>>
        /\ \/ /\ CheckTxAccepts(Tx(id))
              /\ mempool' = Append(mempool, Tx(id))
              /\ job' = [job EXCEPT ![id].stage = "wait"]
              /\ UNCHANGED keys
           \/ End(id, "rejected") /\ keys' = Append(keys, job[id].key) /\ UNCHANGED mempool
    BY <1>4 DEF Broadcast, ReturnKey
  <2>2. CASE End(id, "rejected") /\ keys' = Append(keys, job[id].key) /\ UNCHANGED mempool
    BY <2>1, <2>2, EndEffect DEF KeyReturned, Outcomes, Active
  <2>3. ASSUME CheckTxAccepts(Tx(id)), mempool' = Append(mempool, Tx(id)),
               job' = [job EXCEPT ![id].stage = "wait"], UNCHANGED keys
        PROVE  Sent(id)
    <3> DEFINE new == [job[id] EXCEPT !.stage = "wait"]
    <3>2. /\ new \in Job /\ new.stage = "wait" /\ new.key = job[id].key
          /\ new.seq = job[id].seq
          /\ new.reports = job[id].reports /\ new.running = job[id].running
      BY <1>1 DEF Job, Stages, Active
    <3>3. job' = [job EXCEPT ![id] = new]
      BY <1>1, <2>3
    <3> HIDE DEF new
    <3> QED
      BY <1>1, <2>1, <2>3, <3>2, <3>3 DEF Sent, Moves, OthersKept
  <2> QED
    BY <2>1, <2>2, <2>3
<1>5. CASE BroadcastAnswered(id)
  <2>1. /\ up /\ job[id].stage = "wait" /\ id \in DOMAIN delivered
        /\ UNCHANGED <<up, handler, abandoned, mempool, committedSeq, delivered>>
        /\ End(id, delivered[id]) /\ keys' = Append(keys, job[id].key)
    BY <1>5 DEF BroadcastAnswered, ReturnKey, nodeVars
  <2>2. delivered[id] \in Outcomes
    BY <2>1 DEF DaemonType, Outcomes
  <2> QED
    BY <2>1, <2>2, EndEffect DEF KeyReturned, Active
<1>6. CASE BroadcastFails(id)
  <2>1. /\ up /\ job[id].stage \in {"broadcast", "wait"}
        /\ UNCHANGED <<up, handler, mempool, committedSeq, delivered>>
        /\ End(id, "no_answer") /\ keys' = Append(keys, job[id].key)
        /\ abandoned' = abandoned \cup {key \in {job[id].key} : job[id].stage = "wait"}
    BY <1>6 DEF BroadcastFails, ReturnKey, nodeVars
  <2> QED
    BY <2>1, EndEffect DEF KeyReturned, Outcomes, Active
<1> QED
  BY <1>2, <1>3, <1>4, <1>5, <1>6 DEF SubmitReport

(* A report is in a block. *)
LEMMA CommitReportEffect ==
  ASSUME DaemonType, CommitReport
  PROVE  /\ mempool # << >> /\ mempool' = Tail(mempool)
         /\ mempool[1] \in ReportTx /\ 1 \in 1 .. Len(mempool)
         /\ Len(mempool') = Len(mempool) - 1 /\ Len(mempool) \in Nat
         /\ \A i \in 1 .. Len(mempool') : mempool'[i] = mempool[i + 1]
         /\ committedSeq' \in [Keys -> Nat]
         /\ \A key \in Keys : key # mempool[1].key => committedSeq'[key] = committedSeq[key]
         /\ DOMAIN delivered' = DOMAIN delivered \cup {mempool[1].id}
         /\ \A id \in DOMAIN delivered' : delivered'[id] \in {"reported", "tx_failed"}
         /\ UNCHANGED <<up, handler, job, keys, abandoned>>
<1>1. mempool \in Seq(ReportTx) /\ mempool # << >> /\ mempool' = Tail(mempool)
  BY DEF CommitReport, CommitFirst, DaemonType
<1>2. /\ Len(mempool') = Len(mempool) - 1 /\ Len(mempool) \in Nat /\ Len(mempool) > 0
      /\ Head(mempool) = mempool[1] /\ mempool[1] \in ReportTx
      /\ \A i \in 1 .. Len(mempool') : mempool'[i] = mempool[i + 1]
  BY <1>1, HeadTailProperties, EmptySeq, LenProperties
<1>3. committedSeq' = [committedSeq EXCEPT ![mempool[1].key] = committedSeq[mempool[1].key] + 1]
  BY <1>2 DEF CommitReport, CommitFirst
<1>4. /\ committedSeq' \in [Keys -> Nat]
      /\ \A key \in Keys : key # mempool[1].key => committedSeq'[key] = committedSeq[key]
  BY <1>2, <1>3 DEF ReportTx, DaemonType
<1>5. PICK outcome \in {"reported", "tx_failed"} :
        delivered' = [id \in DOMAIN delivered \cup {mempool[1].id} |->
                        IF id = mempool[1].id THEN outcome ELSE delivered[id]]
  BY <1>2 DEF CommitReport
<1>6. /\ DOMAIN delivered' = DOMAIN delivered \cup {mempool[1].id}
      /\ \A id \in DOMAIN delivered' : delivered'[id] \in {"reported", "tx_failed"}
  BY <1>5 DEF DaemonType
<1>7. UNCHANGED <<up, handler, job, keys, abandoned>>
  BY DEF CommitReport
<1> QED
  BY <1>1, <1>2, <1>4, <1>6, <1>7

(* The steps of the daemon and the node. *)
LEMMA DaemonCases ==
  ASSUME DaemonType, [Next]_vars
  PROVE  \/ \E tx \in Txs : HandleLog(tx)
         \/ \E id \in RequestIDs, i \in RawIndices : RunRawRequest(id, i)
         \/ \E id \in RequestIDs : SubmitReport(id)
         \/ /\ up /\ Stop
            /\ UNCHANGED <<mempool, committedSeq, delivered>>
         \/ /\ ~up /\ up' = TRUE /\ keys' = KeyList
            /\ UNCHANGED <<handler, job, abandoned, mempool, committedSeq, delivered>>
         \/ CommitReport
         \/ /\ mempool' = << >>
            /\ UNCHANGED <<up, handler, job, keys, abandoned, committedSeq, delivered>>
         \/ /\ handler' \in [Txs -> Nat] /\ \A tx \in Txs : handler'[tx] >= handler[tx]
            /\ UNCHANGED <<up, job, keys, abandoned, mempool, committedSeq, delivered>>
<1>1. ASSUME NEW tx \in Txs, ReceiveEvent(tx) \/ MissEvent(tx)
      PROVE  /\ handler' \in [Txs -> Nat] /\ \A t \in Txs : handler'[t] >= handler[t]
             /\ UNCHANGED <<up, job, keys, abandoned, mempool, committedSeq, delivered>>
  <2>1. Done(tx) \in Nat
    BY TransactionsAssumption, LenProperties DEF Done
  <2>2. PICK n \in Nat : handler' = [handler EXCEPT ![tx] = n]
    BY <1>1, <2>1 DEF ReceiveEvent, MissEvent
  <2>3. handler[tx] = 0 /\ UNCHANGED <<up, job, keys, abandoned, mempool, committedSeq, delivered>>
    BY <1>1 DEF ReceiveEvent, MissEvent, nodeVars
  <2> QED
    BY <2>2, <2>3 DEF DaemonType
<1>2. ASSUME NEW id \in RequestIDs, NEW i \in RawIndices, GetExecutablePanics(id, i)
      PROVE  up /\ Stop /\ UNCHANGED <<mempool, committedSeq, delivered>>
  BY <1>2 DEF GetExecutablePanics, nodeVars
<1>3. CASE Restart
  BY <1>3 DEF Restart, nodeVars
<1>4. CASE NodeRestarts
  BY <1>4 DEF NodeRestarts, DropMempool
<1>5. CASE UNCHANGED vars
  BY <1>5 DEF vars, DaemonType
<1> QED
  BY <1>1, <1>2, <1>3, <1>4, <1>5 DEF Next

-----------------------------------------------------------------------------
(* A goroutine is started once. *)

Started ==
  \A id \in RequestIDs : job[id].stage # "none" =>
    \A tx \in Txs : \A i \in 1 .. Len(Logs(tx)) : Logs(tx)[i].id = id => handler[tx] > i

TypeInv == DaemonType /\ Started

LEMMA StartsOnce ==
  ASSUME TypeInv, NEW tx \in Txs, NEW id \in RequestIDs,
         handler[tx] \in 1 .. Len(Logs(tx)), Logs(tx)[handler[tx]].id = id
  PROVE  job[id].stage = "none" /\ job[id].key = NoKey
<1>1. ~(handler[tx] > handler[tx])
  BY DEF TypeInv, DaemonType
<1>2. job[id].stage = "none"
  BY <1>1 DEF TypeInv, Started
<1> QED
  BY <1>2 DEF TypeInv, DaemonType, Active

(* Most steps change one goroutine that is started, and no event is handled *)
(* twice.                                                                   *)
LEMMA StartedKept ==
  ASSUME TypeInv, handler' \in [Txs -> Nat], \A tx \in Txs : handler'[tx] >= handler[tx],
         \A id \in RequestIDs : job'[id].stage # "none" => job[id].stage # "none"
  PROVE  Started'
<1> SUFFICES ASSUME NEW id \in RequestIDs, job'[id].stage # "none", NEW tx \in Txs,
                    NEW i \in 1 .. Len(Logs(tx)), Logs(tx)[i].id = id
             PROVE  handler'[tx] > i
  BY DEF Started
<1>1. handler[tx] > i
  BY DEF TypeInv, Started
<1>2. handler[tx] \in Nat /\ handler'[tx] \in Nat /\ handler'[tx] >= handler[tx] /\ i \in Nat
  BY DEF TypeInv, DaemonType
<1> QED
  BY <1>1, <1>2

LEMMA DaemonTypeStep == TypeInv /\ [Next]_vars => TypeInv'
<1> SUFFICES ASSUME TypeInv, [Next]_vars PROVE TypeInv'
  OBVIOUS
<1>0. DaemonType
  BY DEF TypeInv
<1>1. ASSUME NEW tx \in Txs, HandleLog(tx) PROVE TypeInv'
  <2>1. /\ handler' \in [Txs -> Nat] /\ \A t \in Txs : handler'[t] >= handler[t]
        /\ UNCHANGED <<keys, mempool, committedSeq, delivered>>
    BY <1>0, <1>1, HandleLogEffect
  <2>2. CASE UNCHANGED job
    BY <1>0, <2>1, <2>2, StartedKept DEF TypeInv, DaemonType
  <2>3. CASE ~UNCHANGED job
    <3>1. PICK id \in RequestIDs :
             /\ handler[tx] \in 1 .. Len(Logs(tx)) /\ Logs(tx)[handler[tx]].id = id
             /\ handler'[tx] = handler[tx] + 1
             /\ job' \in [RequestIDs -> Job] /\ OthersKept(id)
             /\ job'[id].stage \in {"collect", "skipped"} /\ job'[id].key = job[id].key
             /\ job'[id].running = IF job'[id].stage = "collect"
                                   THEN 1 .. Len(LogOf(id).raws) ELSE job[id].running
      BY <1>0, <1>1, <2>3, HandleLogEffect
    <3>2. job[id].key = NoKey /\ job'[id].stage \notin Active
      BY <3>1, StartsOnce DEF Active
    <3>3. ASSUME NEW k \in RequestIDs
          PROVE  /\ job'[k].running \subseteq 1 .. Len(LogOf(k).raws)
                 /\ job'[k].stage \in Active <=> job'[k].key # NoKey
      BY <1>0, <3>1, <3>2 DEF OthersKept, DaemonType
    <3>4. DaemonType'
      BY <1>0, <2>1, <3>1, <3>3 DEF DaemonType
    <3>5. ASSUME NEW k \in RequestIDs, job'[k].stage # "none", NEW t \in Txs,
                 NEW i \in 1 .. Len(Logs(t)), Logs(t)[i].id = k
          PROVE  handler'[t] > i
      <4>1. CASE k = id
        <5>1. id # 0
          BY LogOfType
        <5>2. t = tx /\ i = handler[tx]
          BY <3>1, <3>5, <4>1, <5>1, RequestsAssumption
        <5> QED
          BY <1>0, <3>1, <5>2 DEF DaemonType
      <4>2. CASE k # id
        <5>1. handler[t] > i
          BY <3>1, <3>5, <4>2 DEF OthersKept, TypeInv, Started
        <5> QED
          BY <1>0, <2>1, <5>1 DEF DaemonType
      <4> QED
        BY <4>1, <4>2
    <3> QED
      BY <3>4, <3>5 DEF TypeInv, Started
  <2> QED
    BY <2>2, <2>3
<1>2. ASSUME NEW id \in RequestIDs, NEW i \in RawIndices, RunRawRequest(id, i) PROVE TypeInv'
  <2>1. /\ job[id].stage = "collect"
        /\ job' \in [RequestIDs -> Job] /\ OthersKept(id)
        /\ job'[id].stage = "collect" /\ job'[id].key = job[id].key
        /\ job'[id].running = job[id].running \ {i}
        /\ UNCHANGED <<handler, keys, mempool, committedSeq, delivered>>
    BY <1>0, <1>2, RunRawRequestEffect
  <2>2. ASSUME NEW k \in RequestIDs
        PROVE  /\ job'[k].running \subseteq 1 .. Len(LogOf(k).raws)
               /\ job'[k].stage \in Active <=> job'[k].key # NoKey
               /\ job'[k].stage # "none" => job[k].stage # "none"
    BY <1>0, <2>1 DEF OthersKept, DaemonType
  <2>3. DaemonType'
    BY <1>0, <2>1, <2>2 DEF DaemonType
  <2>4. handler' \in [Txs -> Nat] /\ \A tx \in Txs : handler'[tx] >= handler[tx]
    BY <1>0, <2>1 DEF DaemonType
  <2> QED
    BY <2>2, <2>3, <2>4, StartedKept DEF TypeInv
<1>3. ASSUME NEW id \in RequestIDs, SubmitReport(id) PROVE TypeInv'
  <2>1. UNCHANGED <<handler, committedSeq, delivered>>
    BY <1>0, <1>3, SubmitReportEffect
  <2>2. /\ keys \in Seq(Keys) /\ mempool \in Seq(ReportTx) /\ job[id] \in Job
        /\ job[id].stage \in Active => job[id].key \in Keys
    BY <1>0 DEF DaemonType, Job
  <2>3. \/ KeyTaken(id) \/ ReportInvalid(id) \/ AccountRead(id) \/ Sent(id) \/ KeyReturned(id)
    BY <1>0, <1>3, SubmitReportEffect
  <2>4. /\ job[id].stage # "none"
        /\ job' \in [RequestIDs -> Job] /\ OthersKept(id)
        /\ job'[id].running = job[id].running
    BY <2>3 DEF KeyTaken, ReportInvalid, AccountRead, Sent, KeyReturned, Moves, Active
  <2>5. job'[id].stage \in Active <=> job'[id].key # NoKey
    <3>1. CASE KeyTaken(id)
      <4>1. Head(keys) \in Nat \ {0}
        BY <2>2, <3>1, KeysAreNat, HeadTailProperties DEF KeyTaken
      <4> QED
        BY <3>1, <4>1 DEF KeyTaken, Moves, Active, NoKey
    <3>2. CASE ReportInvalid(id)
      BY <3>2 DEF ReportInvalid, Moves, Active
    <3>3. CASE AccountRead(id) \/ Sent(id)
      BY <1>0, <3>3 DEF AccountRead, Sent, Moves, Active, DaemonType
    <3>4. CASE KeyReturned(id)
      BY <3>4 DEF KeyReturned, Moves, Active, Outcomes
    <3> QED
      BY <2>3, <3>1, <3>2, <3>3, <3>4
  <2>6. keys' \in Seq(Keys)
    <3>1. keys # << >> => Head(keys) \in Keys /\ Tail(keys) \in Seq(Keys)
      BY <2>2, HeadTailProperties
    <3>5. CASE KeyTaken(id)
      BY <3>1, <3>5 DEF KeyTaken
    <3>2. CASE ReportInvalid(id)
      <4>1. keys # << >> /\ keys' = Append(Tail(keys), Head(keys))
        BY <3>2 DEF ReportInvalid
      <4> QED
        BY <3>1, <4>1, AppendProperties
    <3>3. CASE AccountRead(id) \/ Sent(id)
      BY <2>2, <3>3 DEF AccountRead, Sent
    <3>4. CASE KeyReturned(id)
      BY <2>2, <3>4, AppendProperties DEF KeyReturned
    <3> QED
      BY <2>3, <3>2, <3>3, <3>4, <3>5
  <2>7. mempool' \in Seq(ReportTx)
    <3>1. CASE Sent(id)
      <4>1. Tx(id) \in ReportTx
        BY <2>2, <3>1 DEF Sent, Tx, ReportTx, Job, Active
      <4> QED
        BY <2>2, <3>1, <4>1, AppendProperties DEF Sent
    <3>2. CASE ~Sent(id)
      BY <2>2, <2>3, <3>2 DEF KeyTaken, ReportInvalid, AccountRead, KeyReturned
    <3> QED
      BY <3>1, <3>2
  <2>8. ASSUME NEW k \in RequestIDs
        PROVE  /\ job'[k].running \subseteq 1 .. Len(LogOf(k).raws)
               /\ job'[k].stage \in Active <=> job'[k].key # NoKey
               /\ job'[k].stage # "none" => job[k].stage # "none"
    BY <1>0, <2>4, <2>5 DEF OthersKept, DaemonType
  <2>9. DaemonType'
    BY <1>0, <2>1, <2>4, <2>6, <2>7, <2>8 DEF DaemonType
  <2>10. handler' \in [Txs -> Nat] /\ \A tx \in Txs : handler'[tx] >= handler[tx]
    BY <1>0, <2>1 DEF DaemonType
  <2> QED
    BY <2>8, <2>9, <2>10, StartedKept DEF TypeInv
<1>4. CASE Stop /\ UNCHANGED <<mempool, committedSeq, delivered>>
  <2>1. /\ keys' = << >>
        /\ handler' \in [Txs -> Nat]
        /\ \A tx \in Txs : handler'[tx] = IF handler[tx] = 0 THEN 0 ELSE Done(tx)
        /\ job' \in [RequestIDs -> Job]
        /\ \A id \in RequestIDs :
             \/ job'[id] = job[id]
             \/ /\ job'[id] = [NoJob EXCEPT !.stage = "lost"]
                /\ \E tx \in Txs : handler[tx] # 0 /\ \E i \in 1 .. Len(Logs(tx)) :
                                                       Logs(tx)[i].id = id
    BY <1>0, <1>4, StopEffect
  <2>2. ASSUME NEW k \in RequestIDs
        PROVE  /\ job'[k].running \subseteq 1 .. Len(LogOf(k).raws)
               /\ job'[k].stage \in Active <=> job'[k].key # NoKey
    <3>1. CASE job'[k] = job[k]
      BY <1>0, <3>1 DEF DaemonType
    <3>2. CASE job'[k] = [NoJob EXCEPT !.stage = "lost"]
      <4>1. job'[k].running = {} /\ job'[k].stage = "lost" /\ job'[k].key = NoKey
        BY <3>2 DEF NoJob
      <4> QED
        BY <4>1 DEF Active
    <3> QED
      BY <2>1, <3>1, <3>2
  <2>3. DaemonType'
    BY <1>0, <1>4, <2>1, <2>2, EmptySeq DEF DaemonType
  <2>4. ASSUME NEW id \in RequestIDs, job'[id].stage # "none", NEW tx \in Txs,
               NEW i \in 1 .. Len(Logs(tx)), Logs(tx)[i].id = id
        PROVE  handler'[tx] > i
    <3>1. handler[tx] # 0
      <4>1. CASE job'[id] = job[id]
        BY <1>0, <2>4, <4>1 DEF TypeInv, Started, DaemonType
      <4>2. CASE job'[id] # job[id]
        <5>1. PICK t \in Txs : handler[t] # 0 /\ \E j \in 1 .. Len(Logs(t)) : Logs(t)[j].id = id
          BY <2>1, <4>2
        <5> QED
          BY <2>4, <5>1, LogOfType, RequestsAssumption
      <4> QED
        BY <4>1, <4>2
    <3>2. Len(Logs(tx)) \in Nat /\ handler'[tx] = Len(Logs(tx)) + 1
      BY <2>1, <3>1, TransactionsAssumption, LenProperties DEF Done
    <3> QED
      BY <3>2
  <2> QED
    BY <2>3, <2>4 DEF TypeInv, Started
<1>5. CASE keys' = KeyList /\ UNCHANGED <<handler, job, mempool, committedSeq, delivered>>
  BY <1>0, <1>5, KeysAreNat DEF TypeInv, DaemonType, Started
<1>6. CASE CommitReport
  <2>1. /\ mempool # << >> /\ mempool' = Tail(mempool) /\ mempool[1] \in ReportTx
        /\ committedSeq' \in [Keys -> Nat]
        /\ DOMAIN delivered' = DOMAIN delivered \cup {mempool[1].id}
        /\ \A id \in DOMAIN delivered' : delivered'[id] \in {"reported", "tx_failed"}
        /\ UNCHANGED <<handler, job, keys>>
    BY <1>0, <1>6, CommitReportEffect
  <2>2. mempool' \in Seq(ReportTx) /\ mempool[1].id \in RequestIDs
    BY <1>0, <2>1, HeadTailProperties DEF DaemonType, ReportTx
  <2>3. DaemonType'
    BY <1>0, <2>1, <2>2 DEF DaemonType
  <2> QED
    BY <2>1, <2>3 DEF TypeInv, Started
<1>7. CASE mempool' = << >> /\ UNCHANGED <<handler, job, keys, committedSeq, delivered>>
  BY <1>0, <1>7, EmptySeq DEF TypeInv, DaemonType, Started
<1>8. CASE /\ handler' \in [Txs -> Nat] /\ \A tx \in Txs : handler'[tx] >= handler[tx]
           /\ UNCHANGED <<job, keys, mempool, committedSeq, delivered>>
  BY <1>0, <1>8, StartedKept DEF TypeInv, DaemonType
<1> QED
  BY <1>0, <1>1, <1>2, <1>3, <1>4, <1>5, <1>6, <1>7, <1>8, DaemonCases

LEMMA DaemonTyped == Spec => []TypeInv
<1>1. Init => TypeInv
  <2> SUFFICES ASSUME Init PROVE TypeInv
    OBVIOUS
  <2>1. NoJob \in Job /\ NoJob.running = {} /\ NoJob.stage = "none" /\ NoJob.key = NoKey
    BY EmptySeq DEF NoJob, Job, Stages
  <2>2. job = [id \in RequestIDs |-> NoJob]
    BY DEF Init
  <2>3. /\ job \in [RequestIDs -> Job]
        /\ \A id \in RequestIDs : /\ job[id].running = {} /\ job[id].stage = "none"
                                  /\ job[id].key = NoKey
    BY <2>1, <2>2
  <2>4. << >> \in Seq(ReportTx) /\ DOMAIN delivered = {}
    BY EmptySeq DEF Init
  <2>5. DaemonType
    BY <2>3, <2>4, KeysAreNat DEF Init, DaemonType, Active
  <2> QED
    BY <2>3, <2>5 DEF TypeInv, Started
<1> QED
  BY <1>1, DaemonTypeStep, PTL DEF Spec

-----------------------------------------------------------------------------
(* The channel of keys. *)

Once(s)  == \A i, j \in 1 .. Len(s) : s[i] = s[j] => i = j
In(s, x) == \E i \in 1 .. Len(s) : s[i] = x

LEMMA AppendOnce ==
  ASSUME NEW S, NEW s \in Seq(S), NEW x \in S, Once(s), ~In(s, x)
  PROVE  Once(Append(s, x)) /\ \A y : In(Append(s, x), y) <=> In(s, y) \/ y = x
<1> DEFINE n == Len(s) + 1
           t == Append(s, x)
<1>1. /\ Len(s) \in Nat /\ Len(t) = n /\ t[n] = x
      /\ \A i \in 1 .. Len(s) : t[i] = s[i]
  BY AppendProperties, LenProperties
<1>2. /\ \A i \in 1 .. n : i \in 1 .. Len(s) \/ i = n
      /\ n \in 1 .. n /\ \A i \in 1 .. Len(s) : i \in 1 .. n
  BY <1>1
<1> HIDE DEF n, t
<1>3. Once(t)
  BY <1>1, <1>2 DEF Once, In
<1>4. \A y : In(t, y) <=> In(s, y) \/ y = x
  BY <1>1, <1>2 DEF In
<1> QED
  BY <1>3, <1>4 DEF t

LEMMA TailOnce ==
  ASSUME NEW S, NEW s \in Seq(S), s # << >>, Once(s)
  PROVE  /\ Head(s) \in S /\ Tail(s) \in Seq(S)
         /\ Once(Tail(s)) /\ ~In(Tail(s), Head(s))
         /\ \A y : In(s, y) <=> In(Tail(s), y) \/ y = Head(s)
<1> DEFINE t == Tail(s)
<1>1. /\ Len(s) \in Nat /\ Len(s) > 0 /\ Len(t) = Len(s) - 1 /\ Head(s) = s[1]
      /\ Head(s) \in S /\ t \in Seq(S)
      /\ \A i \in 1 .. Len(t) : t[i] = s[i + 1]
  BY HeadTailProperties, LenProperties, EmptySeq
<1>2. /\ \A i \in 1 .. Len(t) : i + 1 \in 1 .. Len(s) /\ i + 1 # 1 /\ i \in Nat
      /\ \A i \in 1 .. Len(s) : i = 1 \/ (i - 1 \in 1 .. Len(t) /\ (i - 1) + 1 = i)
      /\ 1 \in 1 .. Len(s)
  BY <1>1
<1> HIDE DEF t
<1>3. Once(t)
  <2> SUFFICES ASSUME NEW i \in 1 .. Len(t), NEW j \in 1 .. Len(t), t[i] = t[j] PROVE i = j
    BY DEF Once
  <2>1. i + 1 = j + 1
    BY <1>1, <1>2 DEF Once
  <2> QED
    BY <1>2, <2>1
<1>4. ~In(t, Head(s))
  BY <1>1, <1>2 DEF In, Once
<1>5. \A y : In(s, y) <=> In(t, y) \/ y = Head(s)
  <2>1. ASSUME NEW y, In(s, y) PROVE In(t, y) \/ y = Head(s)
    <3>1. PICK i \in 1 .. Len(s) : s[i] = y
      BY <2>1 DEF In
    <3> QED
      BY <1>1, <1>2, <3>1 DEF In
  <2>2. ASSUME NEW y, In(t, y) \/ y = Head(s) PROVE In(s, y)
    BY <1>1, <1>2, <2>2 DEF In
  <2> QED
    BY <2>1, <2>2
<1> QED
  BY <1>1, <1>3, <1>4, <1>5 DEF t

LEMMA KeyListOnce == Once(KeyList) /\ \A key \in Keys : In(KeyList, key)
<1>1. DOMAIN KeyList = 1 .. Len(KeyList)
  BY KeysAssumption, LenProperties
<1> QED
  BY <1>1, KeysAssumption DEF Once, In, Keys, ToSet, IsInjective

(* KeysConserved without counting: a key is in the channel exactly if no    *)
(* goroutine has it, and neither has it twice.  A daemon that is down has   *)
(* no keys, so that a new one may start with all of them.                   *)
Held(key) == \E id \in RequestIDs : job[id].key = key

HeldOnce ==
  \A id1, id2 \in RequestIDs :
    job[id1].key = job[id2].key /\ job[id1].key # NoKey => id1 = id2

KeyInv ==
  /\ ~up => \A id \in RequestIDs : job[id].key = NoKey
  /\ up => Once(keys) /\ HeldOnce /\ \A key \in Keys : In(keys, key) <=> ~Held(key)

LEMMA KeyStep == TypeInv /\ KeyInv /\ [Next]_vars => KeyInv'
<1> SUFFICES ASSUME TypeInv, KeyInv, [Next]_vars PROVE KeyInv'
  OBVIOUS
<1>0. /\ DaemonType /\ keys \in Seq(Keys) /\ NoKey \notin Keys
      /\ \A id \in RequestIDs : job[id].key # NoKey => job[id].key \in Keys
      /\ \A id \in RequestIDs : job[id].stage \in Active <=> job[id].key # NoKey
  BY KeysAreNat DEF TypeInv, DaemonType, Job, NoKey
<1>1. ASSUME UNCHANGED <<up, keys>>, \A id \in RequestIDs : job'[id].key = job[id].key
      PROVE  KeyInv'
  <2>1. \A key : Held(key)' <=> Held(key)
    BY <1>1 DEF Held
  <2> QED
    BY <1>1, <2>1 DEF KeyInv, HeldOnce
<1>2. ASSUME NEW tx \in Txs, HandleLog(tx) PROVE KeyInv'
  <2>1. UNCHANGED <<up, keys>> /\ \A id \in RequestIDs : job'[id].key = job[id].key
    BY <1>0, <1>2, HandleLogEffect DEF OthersKept
  <2> QED
    BY <1>1, <2>1
<1>3. ASSUME NEW id \in RequestIDs, NEW i \in RawIndices, RunRawRequest(id, i) PROVE KeyInv'
  <2>1. UNCHANGED <<up, keys>> /\ \A k \in RequestIDs : job'[k].key = job[k].key
    BY <1>0, <1>3, RunRawRequestEffect DEF OthersKept
  <2> QED
    BY <1>1, <2>1
<1>4. ASSUME NEW id \in RequestIDs, SubmitReport(id) PROVE KeyInv'
  <2>1. up /\ up'
    BY <1>0, <1>4, SubmitReportEffect
  <2>2. Once(keys) /\ HeldOnce /\ \A key \in Keys : In(keys, key) <=> ~Held(key)
    BY <2>1 DEF KeyInv
  <2>3. CASE KeyTaken(id)
    <3>1. /\ keys # << >> /\ keys' = Tail(keys) /\ OthersKept(id)
          /\ job'[id].key = Head(keys) /\ job[id].key = NoKey
      BY <1>0, <2>3 DEF KeyTaken, Moves, Active
    <3>2. /\ Head(keys) \in Keys /\ Once(keys') /\ ~In(keys', Head(keys))
          /\ \A y : In(keys, y) <=> In(keys', y) \/ y = Head(keys)
      BY <1>0, <2>2, <3>1, TailOnce
    <3>3. ~Held(Head(keys)) /\ Head(keys) # NoKey
      BY <1>0, <2>2, <3>2
    <3>4. \A key \in Keys : Held(key)' <=> Held(key) \/ key = Head(keys)
      BY <1>0, <3>1 DEF Held, OthersKept
    <3>5. HeldOnce'
      BY <2>2, <3>1, <3>3 DEF HeldOnce, Held, OthersKept
    <3> QED
      BY <2>1, <2>2, <3>2, <3>3, <3>4, <3>5 DEF KeyInv
  <2>4. CASE ReportInvalid(id)
    <3>1. /\ keys # << >> /\ keys' = Append(Tail(keys), Head(keys))
          /\ \A k \in RequestIDs : job'[k].key = job[k].key
      BY <1>0, <2>4 DEF ReportInvalid, Moves, Active, OthersKept
    <3>2. /\ Head(keys) \in Keys /\ Tail(keys) \in Seq(Keys)
          /\ Once(Tail(keys)) /\ ~In(Tail(keys), Head(keys))
          /\ \A y : In(keys, y) <=> In(Tail(keys), y) \/ y = Head(keys)
      BY <1>0, <2>2, <3>1, TailOnce
    <3>3. /\ Once(keys') /\ \A y : In(keys', y) <=> In(Tail(keys), y) \/ y = Head(keys)
      BY <3>1, <3>2, AppendOnce
    <3>4. HeldOnce' /\ \A key : Held(key)' <=> Held(key)
      BY <2>2, <3>1 DEF HeldOnce, Held
    <3> QED
      BY <2>1, <2>2, <3>2, <3>3, <3>4 DEF KeyInv
  <2>5. CASE AccountRead(id) \/ Sent(id)
    <3>1. UNCHANGED <<up, keys>> /\ \A k \in RequestIDs : job'[k].key = job[k].key
      BY <2>1, <2>5 DEF AccountRead, Sent, Moves, OthersKept
    <3> QED
      BY <1>1, <3>1
  <2>6. CASE KeyReturned(id)
    <3>1. /\ keys' = Append(keys, job[id].key) /\ OthersKept(id)
          /\ job'[id].key = NoKey /\ job[id].key # NoKey
      BY <1>0, <2>6 DEF KeyReturned, Moves
    <3>2. job[id].key \in Keys /\ ~In(keys, job[id].key)
      BY <1>0, <2>2, <3>1 DEF Held
    <3>3. Once(keys') /\ \A y : In(keys', y) <=> In(keys, y) \/ y = job[id].key
      BY <1>0, <2>2, <3>1, <3>2, AppendOnce
    <3>4. \A key \in Keys : Held(key)' <=> Held(key) /\ key # job[id].key
      BY <1>0, <2>2, <3>1, <3>2 DEF Held, HeldOnce, OthersKept
    <3>5. HeldOnce'
      BY <2>2, <3>1 DEF HeldOnce, OthersKept
    <3> QED
      BY <2>1, <2>2, <3>2, <3>3, <3>4, <3>5 DEF KeyInv
  <2> QED
    BY <1>0, <1>4, <2>3, <2>4, <2>5, <2>6, SubmitReportEffect
<1>5. CASE Stop
  <2>1. ~up' /\ \A id \in RequestIDs :
           \/ job'[id] = job[id]
              /\ \/ job[id].stage \in Outcomes
                 \/ \A tx \in Txs : \A i \in 1 .. Len(Logs(tx)) :
                      Logs(tx)[i].id = id => handler[tx] = 0
           \/ job'[id] = [NoJob EXCEPT !.stage = "lost"]
    BY <1>0, <1>5, StopEffect
  <2>2. ASSUME NEW id \in RequestIDs PROVE job'[id].key = NoKey
    <3>1. CASE job'[id] = [NoJob EXCEPT !.stage = "lost"]
      BY <3>1 DEF NoJob
    <3>2. CASE job'[id] = job[id] /\ job[id].stage \in Outcomes
      BY <1>0, <3>2 DEF Outcomes, Active
    <3>3. CASE /\ job'[id] = job[id]
               /\ \A tx \in Txs : \A i \in 1 .. Len(Logs(tx)) :
                    Logs(tx)[i].id = id => handler[tx] = 0
      <4>1. PICK tx \in Txs : \E i \in 1 .. Len(Logs(tx)) : Logs(tx)[i].id = id
        BY RequestPlaced
      <4>2. PICK i \in 1 .. Len(Logs(tx)) : Logs(tx)[i].id = id
        BY <4>1
      <4>3. ~(handler[tx] > i)
        BY <3>3, <4>2
      <4>4. job[id].stage = "none"
        BY <4>2, <4>3 DEF TypeInv, Started
      <4> QED
        BY <1>0, <3>3, <4>4 DEF Active
    <3> QED
      BY <2>1, <3>1, <3>2, <3>3
  <2> QED
    BY <2>1, <2>2 DEF KeyInv
<1>6. CASE ~up /\ up' = TRUE /\ keys' = KeyList /\ UNCHANGED job
  <2>1. \A id \in RequestIDs : job'[id].key = NoKey
    BY <1>6 DEF KeyInv
  <2>2. HeldOnce' /\ \A key \in Keys : ~Held(key)'
    BY <1>0, <2>1 DEF HeldOnce, Held
  <2>3. Once(keys') /\ \A key \in Keys : In(keys', key)
    BY <1>6, KeyListOnce
  <2> QED
    BY <1>6, <2>2, <2>3 DEF KeyInv
<1>7. CASE UNCHANGED <<up, keys, job>>
  BY <1>1, <1>7
<1>8. CASE CommitReport
  BY <1>0, <1>7, <1>8, CommitReportEffect
<1> QED
  BY <1>0, <1>2, <1>3, <1>4, <1>5, <1>6, <1>7, <1>8, DaemonCases

LEMMA KeysInductive == Spec => [](TypeInv /\ KeyInv)
<1>1. Init => KeyInv
  <2> SUFFICES ASSUME Init PROVE KeyInv
    OBVIOUS
  <2>1. \A id \in RequestIDs : job[id].key = NoKey
    BY DEF Init, NoJob
  <2>2. up = TRUE /\ keys = KeyList
    BY DEF Init
  <2>3. HeldOnce /\ \A key \in Keys : ~Held(key)
    BY <2>1, KeysAreNat DEF HeldOnce, Held, NoKey
  <2> QED
    BY <2>2, <2>3, KeyListOnce DEF KeyInv
<1> QED
  BY <1>1, DaemonTyped, KeyStep, PTL DEF Spec

LEMMA KeysConservedFromInv == TypeInv /\ KeyInv => KeysConserved
<1> SUFFICES ASSUME TypeInv, KeyInv, up, NEW key \in Keys
             PROVE  Cardinality({i \in 1 .. Len(keys) : keys[i] = key})
                      + Cardinality(Holders(key)) = 1
  BY DEF KeysConserved
<1> DEFINE places == {i \in 1 .. Len(keys) : keys[i] = key}
<1>1. /\ Once(keys) /\ HeldOnce /\ (In(keys, key) <=> ~Held(key)) /\ key # NoKey
  BY KeysAreNat DEF KeyInv, NoKey
<1>2. CASE Held(key)
  <2>1. places = {}
    BY <1>1, <1>2 DEF In
  <2>2. PICK id \in RequestIDs : job[id].key = key
    BY <1>2 DEF Held
  <2>3. Holders(key) = {id}
    BY <1>1, <2>2 DEF HeldOnce, Holders
  <2>4. Cardinality(places) = 0 /\ Cardinality(Holders(key)) = 1
    BY <2>1, <2>3, FS_EmptySet, FS_Singleton
  <2> QED
    BY <2>4
<1>3. CASE ~Held(key)
  <2>1. Holders(key) = {}
    BY <1>3 DEF Held, Holders
  <2>2. PICK i \in 1 .. Len(keys) : keys[i] = key
    BY <1>1, <1>3 DEF In
  <2>3. places = {i}
    BY <1>1, <2>2 DEF Once
  <2>4. Cardinality(places) = 1 /\ Cardinality(Holders(key)) = 0
    BY <2>1, <2>3, FS_EmptySet, FS_Singleton
  <2> QED
    BY <2>4
<1> QED
  BY <1>2, <1>3

(* SubmitReport's defer, for any number of keys, requests and restarts: a   *)
(* key is never lost nor handed to two goroutines.                          *)
THEOREM KeysAreConserved == Spec => []KeysConserved
  BY KeysInductive, KeysConservedFromInv, PTL

-----------------------------------------------------------------------------
(* Sequence numbers. *)

(* RejectedOnlyAfterAbandon needs to know whose the transactions in the     *)
(* mempool are.  A transaction of a key that was not abandoned has a        *)
(* goroutine that waits for it and has the key; no request is sent twice,   *)
(* nor is there one in the mempool that is in a block; and a number that    *)
(* was read is still the committed one.                                     *)
AwaitedInMempool ==
  \A i \in 1 .. Len(mempool) : mempool[i].key \notin abandoned =>
    job[mempool[i].id].stage = "wait" /\ job[mempool[i].id].key = mempool[i].key

SentOnce ==
  /\ \A i, j \in 1 .. Len(mempool) : mempool[i].id = mempool[j].id => i = j
  /\ \A i \in 1 .. Len(mempool) :
       /\ mempool[i].id \notin DOMAIN delivered
       /\ job[mempool[i].id].stage \in {"wait"} \cup Outcomes
  /\ \A id \in DOMAIN delivered : job[id].stage \in {"wait"} \cup Outcomes

SeqIsCommitted ==
  \A id \in RequestIDs : job[id].stage = "broadcast" /\ job[id].key \notin abandoned =>
    job[id].seq = committedSeq[job[id].key]

SentInv == AwaitedInMempool /\ SentOnce /\ SeqIsCommitted

LEMMA MempoolTyped ==
  ASSUME DaemonType
  PROVE  /\ mempool \in Seq(ReportTx) /\ Len(mempool) \in Nat
         /\ \A i \in 1 .. Len(mempool) : mempool[i].id \in RequestIDs /\ mempool[i].key \in Keys
<1>1. mempool \in Seq(ReportTx)
  BY DEF DaemonType
<1>2. \A i \in 1 .. Len(mempool) : mempool[i] \in ReportTx
  BY <1>1, ElementOfSeq
<1>3. \A i \in 1 .. Len(mempool) : mempool[i].id \in RequestIDs /\ mempool[i].key \in Keys
  BY <1>2 DEF ReportTx
<1> QED
  BY <1>1, <1>3, LenProperties

(* A goroutine that has a key and does not wait is alone with it. *)
LEMMA NothingInMempool ==
  ASSUME TypeInv, KeyInv, AwaitedInMempool, NEW id \in RequestIDs,
         job[id].stage \in {"account", "broadcast"}, job[id].key \notin abandoned
  PROVE  \A i \in 1 .. Len(mempool) : mempool[i].key # job[id].key
<1> SUFFICES ASSUME NEW i \in 1 .. Len(mempool), mempool[i].key = job[id].key PROVE FALSE
  OBVIOUS
<1>1. job[id].key # NoKey
  BY DEF TypeInv, DaemonType, Active
<1>2. up /\ HeldOnce
  BY <1>1 DEF KeyInv
<1>3. mempool[i].id \in RequestIDs
  BY MempoolTyped DEF TypeInv
<1>4. job[mempool[i].id].stage = "wait" /\ job[mempool[i].id].key = job[id].key
  BY DEF AwaitedInMempool
<1> QED
  BY <1>1, <1>2, <1>3, <1>4 DEF HeldOnce

(* Steps that leave the mempool, and the goroutines that sent or read a     *)
(* sequence number.                                                         *)
LEMMA SentKept ==
  ASSUME SentInv, DaemonType, UNCHANGED <<mempool, committedSeq, delivered>>,
         abandoned \subseteq abandoned',
         \A id \in RequestIDs :
           /\ job[id].stage \in {"wait"} \cup Outcomes => job'[id].stage \in {"wait"} \cup Outcomes
           /\ job[id].stage = "wait" /\ job[id].key \notin abandoned'
                 /\ id \notin DOMAIN delivered =>
                job'[id].stage = "wait" /\ job'[id].key = job[id].key
           /\ job'[id].stage = "broadcast" /\ job'[id].key \notin abandoned' =>
                \/ job'[id].seq = committedSeq[job'[id].key]
                \/ job'[id] = job[id]
  PROVE  SentInv'
<1>1. \A i \in 1 .. Len(mempool) : mempool[i].id \in RequestIDs
  BY MempoolTyped
<1>2. AwaitedInMempool'
  <2> SUFFICES ASSUME NEW i \in 1 .. Len(mempool), mempool[i].key \notin abandoned'
               PROVE  /\ job'[mempool[i].id].stage = "wait"
                      /\ job'[mempool[i].id].key = mempool[i].key
    BY DEF AwaitedInMempool
  <2>1. job[mempool[i].id].stage = "wait" /\ job[mempool[i].id].key = mempool[i].key
    BY DEF SentInv, AwaitedInMempool
  <2>2. mempool[i].id \notin DOMAIN delivered
    BY DEF SentInv, SentOnce
  <2> QED
    BY <1>1, <2>1, <2>2
<1>3. SentOnce'
  BY <1>1 DEF SentInv, SentOnce, DaemonType
<1>4. SeqIsCommitted'
  BY DEF SentInv, SeqIsCommitted
<1> QED
  BY <1>2, <1>3, <1>4 DEF SentInv

LEMMA SentStep == TypeInv /\ KeyInv /\ SentInv /\ [Next]_vars => SentInv'
<1> SUFFICES ASSUME TypeInv, KeyInv, SentInv, [Next]_vars PROVE SentInv'
  OBVIOUS
<1>0. /\ DaemonType /\ mempool \in Seq(ReportTx) /\ Len(mempool) \in Nat
      /\ \A i \in 1 .. Len(mempool) : mempool[i].id \in RequestIDs /\ mempool[i].key \in Keys
      /\ \A id \in RequestIDs : job[id].stage \in Active => job[id].key \in Keys
  <2>1. \A id \in RequestIDs : job[id].stage \in Active => job[id].key \in Keys
    BY DEF TypeInv, DaemonType, Job
  <2> QED
    BY <2>1, MempoolTyped DEF TypeInv
<1>1. ASSUME NEW tx \in Txs, HandleLog(tx) PROVE SentInv'
  <2>1. UNCHANGED <<abandoned, mempool, committedSeq, delivered>>
    BY <1>0, <1>1, HandleLogEffect
  <2>2. CASE UNCHANGED job
    BY <1>0, <2>1, <2>2, SentKept
  <2>3. CASE ~UNCHANGED job
    <3>1. PICK id \in RequestIDs :
             /\ handler[tx] \in 1 .. Len(Logs(tx)) /\ Logs(tx)[handler[tx]].id = id
             /\ OthersKept(id) /\ job'[id].stage \in {"collect", "skipped"}
      BY <1>0, <1>1, <2>3, HandleLogEffect
    <3>2. job[id].stage = "none"
      BY <3>1, StartsOnce
    <3>3. job[id].stage \notin {"wait"} \cup Outcomes /\ job'[id].stage # "broadcast"
      BY <3>1, <3>2 DEF Outcomes
    <3> QED
      BY <1>0, <2>1, <3>1, <3>3, SentKept DEF OthersKept
  <2> QED
    BY <2>2, <2>3
<1>2. ASSUME NEW id \in RequestIDs, NEW i \in RawIndices, RunRawRequest(id, i) PROVE SentInv'
  <2>1. /\ job[id].stage = "collect" /\ job'[id].stage = "collect" /\ OthersKept(id)
        /\ UNCHANGED <<abandoned, mempool, committedSeq, delivered>>
    BY <1>0, <1>2, RunRawRequestEffect
  <2>2. job[id].stage \notin {"wait"} \cup Outcomes /\ job'[id].stage # "broadcast"
    BY <2>1 DEF Outcomes
  <2> QED
    BY <1>0, <2>1, <2>2, SentKept DEF OthersKept
<1>3. ASSUME NEW id \in RequestIDs, SubmitReport(id) PROVE SentInv'
  <2>0. UNCHANGED <<committedSeq, delivered>>
    BY <1>0, <1>3, SubmitReportEffect
  <2>1. CASE KeyTaken(id) \/ ReportInvalid(id)
    <3>1. /\ job[id].stage = "collect" /\ job'[id].stage \in {"account", "invalid"}
          /\ OthersKept(id) /\ UNCHANGED <<abandoned, mempool>>
      BY <2>1 DEF KeyTaken, ReportInvalid, Moves
    <3>2. job[id].stage \notin {"wait"} \cup Outcomes /\ job'[id].stage # "broadcast"
      BY <3>1 DEF Outcomes
    <3> QED
      BY <1>0, <2>0, <3>1, <3>2, SentKept DEF OthersKept
  <2>2. CASE AccountRead(id)
    <3>1. /\ job[id].stage = "account" /\ job'[id].stage = "broadcast"
          /\ job'[id].key = job[id].key /\ job'[id].seq = committedSeq[job[id].key]
          /\ OthersKept(id) /\ UNCHANGED <<abandoned, mempool>>
      BY <2>2 DEF AccountRead, Moves
    <3>2. job[id].stage \notin {"wait"} \cup Outcomes
      BY <3>1 DEF Outcomes
    <3> QED
      BY <1>0, <2>0, <3>1, <3>2, SentKept DEF OthersKept
  <2>3. CASE KeyReturned(id)
    <3>1. /\ job[id].stage \in Active /\ job'[id].stage \in Outcomes /\ OthersKept(id)
          /\ abandoned \subseteq abandoned' /\ UNCHANGED mempool
          /\ job[id].stage = "wait" => id \in DOMAIN delivered \/ job[id].key \in abandoned'
      BY <2>3 DEF KeyReturned, Moves
    <3>2. job'[id].stage # "broadcast"
      BY <3>1 DEF Outcomes
    <3> QED
      BY <1>0, <2>0, <3>1, <3>2, SentKept DEF OthersKept
  <2>4. CASE Sent(id)
    <3>1. /\ job[id].stage = "broadcast" /\ job'[id].stage = "wait"
          /\ job'[id].key = job[id].key /\ OthersKept(id)
          /\ mempool' = Append(mempool, Tx(id)) /\ UNCHANGED abandoned
      BY <2>4 DEF Sent, Moves
    <3> DEFINE n == Len(mempool) + 1
    <3>2. Tx(id) \in ReportTx /\ Tx(id).id = id /\ Tx(id).key = job[id].key
      BY <1>0, <3>1 DEF Tx, ReportTx, DaemonType, Job, Active
    <3>3. /\ Len(mempool') = n /\ mempool'[n] = Tx(id)
          /\ \A i \in 1 .. Len(mempool) : mempool'[i] = mempool[i]
      BY <1>0, <3>1, <3>2, AppendProperties
    <3>4. /\ \A i \in 1 .. Len(mempool') : i \in 1 .. Len(mempool) \/ i = n
          /\ n \in 1 .. Len(mempool')
      BY <1>0, <3>3
    <3> HIDE DEF n
    <3>5. /\ \A i \in 1 .. Len(mempool) : mempool[i].id # id
          /\ id \notin DOMAIN delivered
      BY <3>1 DEF SentInv, SentOnce, Outcomes
    <3>6. AwaitedInMempool'
      BY <1>0, <3>1, <3>2, <3>3, <3>4, <3>5 DEF SentInv, AwaitedInMempool, OthersKept
    <3>7. SentOnce'
      <4>1. \A i, j \in 1 .. Len(mempool') : mempool'[i].id = mempool'[j].id => i = j
        BY <3>2, <3>3, <3>4, <3>5 DEF SentInv, SentOnce
      <4>2. \A i \in 1 .. Len(mempool') :
              /\ mempool'[i].id \notin DOMAIN delivered'
              /\ job'[mempool'[i].id].stage \in {"wait"} \cup Outcomes
        BY <1>0, <2>0, <3>1, <3>2, <3>3, <3>4, <3>5 DEF SentInv, SentOnce, OthersKept
      <4>3. \A k \in DOMAIN delivered' : job'[k].stage \in {"wait"} \cup Outcomes
        BY <1>0, <2>0, <3>1, <3>5 DEF SentInv, SentOnce, OthersKept, DaemonType
      <4> QED
        BY <4>1, <4>2, <4>3 DEF SentOnce
    <3>8. SeqIsCommitted'
      BY <2>0, <3>1 DEF SentInv, SeqIsCommitted, OthersKept
    <3> QED
      BY <3>6, <3>7, <3>8 DEF SentInv
  <2> QED
    BY <1>0, <1>3, <2>1, <2>2, <2>3, <2>4, SubmitReportEffect
<1>4. CASE Stop /\ UNCHANGED <<mempool, committedSeq, delivered>>
  <2>1. /\ \A id \in RequestIDs :
             \/ job'[id] = job[id]
             \/ job'[id] = [NoJob EXCEPT !.stage = "lost"] /\ job[id].stage \notin Outcomes
        /\ abandoned' = abandoned \cup {mempool[i].key : i \in 1 .. Len(mempool)}
    BY <1>0, <1>4, StopEffect
  <2>2. [NoJob EXCEPT !.stage = "lost"].stage = "lost" /\ "lost" \in Outcomes
    BY DEF NoJob, Outcomes
  <2>3. AwaitedInMempool'
    BY <1>4, <2>1 DEF AwaitedInMempool
  <2>4. \A id \in RequestIDs : job[id].stage \in {"wait"} \cup Outcomes =>
          job'[id].stage \in {"wait"} \cup Outcomes
    BY <2>1, <2>2
  <2>5. SentOnce'
    BY <1>0, <1>4, <2>4 DEF SentInv, SentOnce, DaemonType
  <2>6. SeqIsCommitted'
    BY <1>4, <2>1, <2>2 DEF SentInv, SeqIsCommitted
  <2> QED
    BY <2>3, <2>5, <2>6 DEF SentInv
<1>5. CASE CommitReport
  <2>1. /\ 1 \in 1 .. Len(mempool) /\ Len(mempool') = Len(mempool) - 1
        /\ \A i \in 1 .. Len(mempool') : mempool'[i] = mempool[i + 1]
        /\ \A key \in Keys : key # mempool[1].key => committedSeq'[key] = committedSeq[key]
        /\ DOMAIN delivered' = DOMAIN delivered \cup {mempool[1].id}
        /\ UNCHANGED <<job, abandoned>>
    BY <1>0, <1>5, CommitReportEffect
  <2>2. \A i \in 1 .. Len(mempool') : i + 1 \in 1 .. Len(mempool) /\ i + 1 # 1 /\ i \in Nat
    BY <1>0, <2>1
  <2>3. AwaitedInMempool'
    BY <2>1, <2>2 DEF SentInv, AwaitedInMempool
  <2>4. SentOnce'
    <3>1. ASSUME NEW i \in 1 .. Len(mempool'), NEW j \in 1 .. Len(mempool'),
                 mempool'[i].id = mempool'[j].id
          PROVE  i = j
      <4>1. i + 1 = j + 1
        BY <2>1, <2>2, <3>1 DEF SentInv, SentOnce
      <4> QED
        BY <2>2, <4>1
    <3>2. \A i \in 1 .. Len(mempool') :
            /\ mempool'[i].id \notin DOMAIN delivered'
            /\ job'[mempool'[i].id].stage \in {"wait"} \cup Outcomes
      BY <2>1, <2>2 DEF SentInv, SentOnce
    <3>3. \A id \in DOMAIN delivered' : job'[id].stage \in {"wait"} \cup Outcomes
      BY <2>1 DEF SentInv, SentOnce
    <3> QED
      BY <3>1, <3>2, <3>3 DEF SentOnce
  <2>5. SeqIsCommitted'
    <3> SUFFICES ASSUME NEW id \in RequestIDs, job[id].stage = "broadcast",
                        job[id].key \notin abandoned
                 PROVE  job[id].seq = committedSeq'[job[id].key]
      BY <2>1 DEF SeqIsCommitted
    <3>1. mempool[1].key # job[id].key
      BY <2>1, NothingInMempool DEF SentInv
    <3>2. job[id].key \in Keys
      BY <1>0 DEF Active
    <3> QED
      BY <2>1, <3>1, <3>2 DEF SentInv, SeqIsCommitted
  <2> QED
    BY <2>3, <2>4, <2>5 DEF SentInv
<1>6. CASE mempool' = << >> /\ UNCHANGED <<job, abandoned, committedSeq, delivered>>
  <2>1. 1 .. Len(mempool') = {}
    BY <1>6, EmptySeq
  <2> QED
    BY <1>6, <2>1 DEF SentInv, AwaitedInMempool, SentOnce, SeqIsCommitted
<1>7. CASE UNCHANGED <<job, abandoned, mempool, committedSeq, delivered>>
  BY <1>0, <1>7, SentKept
<1> QED
  BY <1>0, <1>1, <1>2, <1>3, <1>4, <1>5, <1>6, <1>7, DaemonCases

(* SubmitReport, for any number of requests and keys: while every broadcast *)
(* of a key is answered, the sequence number that GetAccount read is the    *)
(* one that CheckTx expects.                                                *)
THEOREM RejectedAfterAbandon == Spec => []RejectedOnlyAfterAbandon
<1>1. Init => SentInv
  <2> SUFFICES ASSUME Init PROVE SentInv
    OBVIOUS
  <2>1. 1 .. Len(mempool) = {} /\ DOMAIN delivered = {}
    BY EmptySeq DEF Init
  <2>2. \A id \in RequestIDs : job[id].stage = "none"
    BY DEF Init, NoJob
  <2> QED
    BY <2>1, <2>2 DEF SentInv, AwaitedInMempool, SentOnce, SeqIsCommitted
<1>2. TypeInv /\ KeyInv /\ SentInv => RejectedOnlyAfterAbandon
  <2> SUFFICES ASSUME TypeInv, KeyInv, SentInv, NEW id \in RequestIDs,
                      job[id].stage = "broadcast", job[id].key \notin abandoned
               PROVE  CheckTxAccepts(Tx(id))
    BY DEF RejectedOnlyAfterAbandon
  <2>1. InMempool(job[id].key) = {}
    BY NothingInMempool DEF SentInv, InMempool
  <2>2. Cardinality(InMempool(job[id].key)) = 0
    BY <2>1, FS_EmptySet
  <2>3. job[id].seq = committedSeq[job[id].key] /\ job[id].seq \in Nat
    BY DEF SentInv, SeqIsCommitted, TypeInv, DaemonType, Job
  <2> QED
    BY <2>2, <2>3 DEF CheckTxAccepts, Tx
<1> QED
  BY <1>1, <1>2, KeysInductive, SentStep, PTL DEF Spec

-----------------------------------------------------------------------------
(* The reports of a request. *)

LEMMA ToSetAppend ==
  ASSUME NEW s \in Seq(Int), NEW x \in Int
  PROVE  /\ ToSet(Append(s, x)) = ToSet(s) \cup {x}
         /\ Append(s, x) \in Seq(Int) /\ Len(Append(s, x)) = Len(s) + 1
<1> DEFINE n == Len(s) + 1
           t == Append(s, x)
<1>1. /\ Len(s) \in Nat /\ Len(t) = n /\ t[n] = x /\ t \in Seq(Int)
      /\ \A i \in 1 .. Len(s) : t[i] = s[i]
  BY AppendProperties, LenProperties
<1>2. DOMAIN s = 1 .. Len(s) /\ DOMAIN t = 1 .. n
  BY <1>1, LenProperties
<1>3. 1 .. n = (1 .. Len(s)) \cup {n}
  BY <1>1
<1> HIDE DEF n, t
<1>4. ToSet(t) = ToSet(s) \cup {x}
  BY <1>1, <1>2, <1>3 DEF ToSet
<1> QED
  BY <1>1, <1>4 DEF n, t

Eids(id, places) == {LogOf(id).raws[j].eid : j \in places}

Complete(id, reports) ==
  /\ Len(reports) = Len(LogOf(id).raws)
  /\ ToSet(reports) = Eids(id, 1 .. Len(LogOf(id).raws))

(* ReportsComplete needs what the goroutines of the raw requests have put   *)
(* on the channel so far.                                                   *)
Gathered(id) ==
  /\ job[id].stage = "none" => job[id].reports = << >>
  /\ job[id].stage = "collect" =>
       /\ Len(job[id].reports) + Cardinality(job[id].running) = Len(LogOf(id).raws)
       /\ ToSet(job[id].reports) = Eids(id, 1 .. Len(LogOf(id).raws) \ job[id].running)
  /\ job[id].stage \in Active => Complete(id, job[id].reports)

GatherInv ==
  /\ \A id \in RequestIDs : Gathered(id)
  /\ \A i \in 1 .. Len(mempool) : Complete(mempool[i].id, mempool[i].reports)

LEMMA GatherStep == TypeInv /\ GatherInv /\ [Next]_vars => GatherInv'
<1> SUFFICES ASSUME TypeInv, GatherInv, [Next]_vars PROVE GatherInv'
  OBVIOUS
<1>0. /\ DaemonType /\ mempool \in Seq(ReportTx) /\ Len(mempool) \in Nat
      /\ \A id \in RequestIDs : Gathered(id)
  BY MempoolTyped DEF TypeInv, GatherInv
<1>1. ASSUME UNCHANGED mempool, NEW id \in RequestIDs, OthersKept(id), Gathered(id)'
      PROVE  GatherInv'
  <2>1. ASSUME NEW k \in RequestIDs PROVE Gathered(k)'
    <3>1. CASE k = id
      BY <1>1, <3>1
    <3>2. CASE k # id
      <4>1. job'[k] = job[k] /\ Gathered(k)
        BY <1>0, <1>1, <3>2 DEF OthersKept
      <4> QED
        BY <4>1 DEF Gathered
    <3> QED
      BY <3>1, <3>2
  <2> QED
    BY <1>1, <2>1 DEF GatherInv
<1>2. ASSUME NEW tx \in Txs, HandleLog(tx) PROVE GatherInv'
  <2>1. UNCHANGED mempool
    BY <1>0, <1>2, HandleLogEffect
  <2>2. CASE UNCHANGED job
    BY <2>1, <2>2 DEF GatherInv, Gathered
  <2>3. CASE ~UNCHANGED job
    <3>1. PICK id \in RequestIDs :
             /\ handler[tx] \in 1 .. Len(Logs(tx)) /\ Logs(tx)[handler[tx]].id = id
             /\ OthersKept(id) /\ job'[id].stage \in {"collect", "skipped"}
             /\ job'[id].reports = job[id].reports
             /\ job'[id].running = IF job'[id].stage = "collect"
                                   THEN 1 .. Len(LogOf(id).raws) ELSE job[id].running
      BY <1>0, <1>2, <2>3, HandleLogEffect
    <3>2. job'[id].reports = << >>
      BY <1>0, <3>1, StartsOnce DEF Gathered
    <3> DEFINE n == Len(LogOf(id).raws)
    <3>3. n \in Nat /\ Cardinality(1 .. n) = n
      <4>1. n \in Nat
        BY LogOfType
      <4>2. Cardinality(1 .. n) = IF 1 > n THEN 0 ELSE n - 1 + 1
        BY <4>1, FS_Interval
      <4> QED
        BY <4>1, <4>2
    <3>4. Len(<< >>) = 0 /\ ToSet(<< >>) = {} /\ Eids(id, 1 .. n \ 1 .. n) = {}
      BY EmptySeq DEF ToSet, Eids
    <3>5. Gathered(id)'
      <4>1. ASSUME job'[id].stage = "collect"
            PROVE  /\ Len(job'[id].reports) + Cardinality(job'[id].running) = n
                   /\ ToSet(job'[id].reports) = Eids(id, 1 .. n \ job'[id].running)
        <5>1. job'[id].running = 1 .. n
          BY <3>1, <4>1
        <5> HIDE DEF n
        <5>2. Len(job'[id].reports) + Cardinality(job'[id].running) = n
          BY <3>2, <3>3, <3>4, <5>1
        <5>3. ToSet(job'[id].reports) = Eids(id, 1 .. n \ job'[id].running)
          BY <3>2, <3>4, <5>1
        <5> QED
          BY <5>2, <5>3
      <4>2. job'[id].stage \notin Active /\ job'[id].stage # "none"
        BY <3>1 DEF Active
      <4> QED
        BY <4>1, <4>2 DEF Gathered
    <3> QED
      BY <1>1, <2>1, <3>1, <3>5
  <2> QED
    BY <2>2, <2>3
<1>3. ASSUME NEW id \in RequestIDs, NEW i \in RawIndices, RunRawRequest(id, i) PROVE GatherInv'
  <2> DEFINE n == Len(LogOf(id).raws)
             eid == LogOf(id).raws[i].eid
  <2>1. /\ job[id].stage = "collect"
        /\ i \in job[id].running /\ i \in 1 .. n
        /\ OthersKept(id) /\ job'[id].stage = "collect"
        /\ job'[id].running = job[id].running \ {i}
        /\ job'[id].reports = Append(job[id].reports, eid)
        /\ UNCHANGED mempool
    BY <1>0, <1>3, RunRawRequestEffect
  <2>2. n \in Nat /\ eid \in Int
    BY <2>1, LogOfType
  <2>3. job[id].reports \in Seq(Int) /\ job[id].running \subseteq 1 .. n
    BY <1>0 DEF DaemonType, Job
  <2>4. /\ ToSet(job'[id].reports) = ToSet(job[id].reports) \cup {eid}
        /\ Len(job'[id].reports) = Len(job[id].reports) + 1
    BY <2>1, <2>2, <2>3, ToSetAppend
  <2>5. /\ Cardinality(job'[id].running) = Cardinality(job[id].running) - 1
        /\ Cardinality(job[id].running) \in Nat
    <3> HIDE DEF n, eid
    <3>1. IsFiniteSet(1 .. n)
      BY <2>2, FS_Interval
    <3>2. IsFiniteSet(job[id].running)
      BY <2>3, <3>1, FS_Subset
    <3>3. Cardinality(job[id].running) \in Nat
      BY <3>2, FS_CardinalityType
    <3>4. Cardinality(job[id].running \ {i}) = Cardinality(job[id].running) - 1
      BY <2>1, <3>2, FS_RemoveElement
    <3> QED
      BY <2>1, <3>3, <3>4
  <2>6. Len(job[id].reports) \in Nat
    BY <2>3, LenProperties
  <2>7. 1 .. n \ job'[id].running = (1 .. n \ job[id].running) \cup {i}
    BY <2>1, <2>3
  <2>8. Eids(id, 1 .. n \ job'[id].running) = Eids(id, 1 .. n \ job[id].running) \cup {eid}
    BY <2>7 DEF Eids
  <2>9. /\ Len(job[id].reports) + Cardinality(job[id].running) = n
        /\ ToSet(job[id].reports) = Eids(id, 1 .. n \ job[id].running)
    BY <1>0, <2>1 DEF Gathered
  <2>10. /\ Len(job'[id].reports) + Cardinality(job'[id].running) = n
         /\ ToSet(job'[id].reports) = Eids(id, 1 .. n \ job'[id].running)
    <3> HIDE DEF n, eid
    <3>1. Len(job'[id].reports) + Cardinality(job'[id].running) = n
      BY <2>4, <2>5, <2>6, <2>9
    <3>2. ToSet(job'[id].reports) = Eids(id, 1 .. n \ job'[id].running)
      BY <2>4, <2>8, <2>9
    <3> QED
      BY <3>1, <3>2
  <2>11. Gathered(id)'
    BY <2>1, <2>10 DEF Gathered, Active
  <2> QED
    BY <1>1, <2>1, <2>11
<1>4. ASSUME NEW id \in RequestIDs, SubmitReport(id) PROVE GatherInv'
  <2>1. ASSUME OthersKept(id), job'[id].reports = job[id].reports,
               job'[id].stage \notin {"none", "collect"},
               job'[id].stage \in Active => Complete(id, job[id].reports), UNCHANGED mempool
        PROVE  GatherInv'
    <3>1. Gathered(id)'
      BY <2>1 DEF Gathered, Complete
    <3> QED
      BY <1>1, <2>1, <3>1
  <2>2. CASE KeyTaken(id)
    <3> DEFINE n == Len(LogOf(id).raws)
    <3>1. /\ OthersKept(id) /\ job'[id].reports = job[id].reports
          /\ job'[id].stage = "account" /\ job[id].stage = "collect"
          /\ job[id].running = {} /\ UNCHANGED mempool
      BY <2>2 DEF KeyTaken, Moves
    <3>2. /\ Len(job[id].reports) + Cardinality({}) = n
          /\ ToSet(job[id].reports) = Eids(id, 1 .. n \ {})
      BY <1>0, <3>1 DEF Gathered
    <3>3. Len(job[id].reports) \in Nat /\ Cardinality({}) = 0 /\ 1 .. n \ {} = 1 .. n
      BY <1>0, FS_EmptySet, LenProperties DEF DaemonType, Job
    <3>4. Complete(id, job[id].reports)
      BY <3>2, <3>3 DEF Complete
    <3> QED
      BY <2>1, <3>1, <3>4
  <2>3. CASE ReportInvalid(id)
    BY <2>1, <2>3 DEF ReportInvalid, Moves, Active
  <2>4. CASE AccountRead(id)
    BY <1>0, <2>1, <2>4 DEF AccountRead, Moves, Active, Gathered
  <2>5. CASE KeyReturned(id)
    BY <2>1, <2>5 DEF KeyReturned, Moves, Active, Outcomes
  <2>6. CASE Sent(id)
    <3>1. /\ job[id].stage = "broadcast" /\ job'[id].stage = "wait"
          /\ job'[id].reports = job[id].reports /\ OthersKept(id)
          /\ mempool' = Append(mempool, Tx(id))
      BY <2>6 DEF Sent, Moves
    <3>2. Complete(id, job[id].reports)
      BY <1>0, <3>1 DEF Gathered, Active
    <3>3. Tx(id) \in ReportTx /\ Tx(id).id = id /\ Tx(id).reports = job[id].reports
      BY <1>0, <3>1 DEF Tx, ReportTx, DaemonType, Job, Active
    <3> DEFINE n == Len(mempool) + 1
    <3>4. /\ Len(mempool') = n /\ mempool'[n] = Tx(id)
          /\ \A i \in 1 .. Len(mempool) : mempool'[i] = mempool[i]
      BY <1>0, <3>1, <3>3, AppendProperties
    <3>5. \A i \in 1 .. Len(mempool') : i \in 1 .. Len(mempool) \/ i = n
      BY <1>0, <3>4
    <3> HIDE DEF n
    <3>6. \A i \in 1 .. Len(mempool') : Complete(mempool'[i].id, mempool'[i].reports)
      BY <3>2, <3>3, <3>4, <3>5 DEF GatherInv
    <3>7. ASSUME NEW k \in RequestIDs PROVE Gathered(k)'
      <4>1. CASE k = id
        BY <3>1, <3>2, <4>1 DEF Gathered, Complete
      <4>2. CASE k # id
        <5>1. job'[k] = job[k] /\ Gathered(k)
          BY <1>0, <3>1, <4>2 DEF OthersKept
        <5> QED
          BY <5>1 DEF Gathered
      <4> QED
        BY <4>1, <4>2
    <3> QED
      BY <3>6, <3>7 DEF GatherInv, Complete
  <2> QED
    BY <1>0, <1>4, <2>2, <2>3, <2>4, <2>5, <2>6, SubmitReportEffect
<1>5. CASE Stop /\ UNCHANGED mempool
  <2>1. \A id \in RequestIDs :
          job'[id] = job[id] \/ job'[id] = [NoJob EXCEPT !.stage = "lost"]
    BY <1>0, <1>5, StopEffect
  <2>2. ASSUME NEW id \in RequestIDs PROVE Gathered(id)'
    <3>1. CASE job'[id] = job[id]
      BY <1>0, <3>1 DEF Gathered
    <3>2. CASE job'[id] = [NoJob EXCEPT !.stage = "lost"]
      <4>1. job'[id].stage = "lost"
        BY <3>2 DEF NoJob
      <4> QED
        BY <4>1 DEF Gathered, Active
    <3> QED
      BY <2>1, <3>1, <3>2
  <2> QED
    BY <1>5, <2>2 DEF GatherInv
<1>6. CASE CommitReport
  <2>1. /\ UNCHANGED job /\ Len(mempool') = Len(mempool) - 1
        /\ \A i \in 1 .. Len(mempool') : mempool'[i] = mempool[i + 1]
    BY <1>0, <1>6, CommitReportEffect
  <2>2. \A i \in 1 .. Len(mempool') : i + 1 \in 1 .. Len(mempool)
    BY <1>0, <2>1
  <2>3. \A i \in 1 .. Len(mempool') : Complete(mempool'[i].id, mempool'[i].reports)
    BY <2>1, <2>2 DEF GatherInv
  <2> QED
    BY <1>0, <2>1, <2>3 DEF GatherInv, Gathered, Complete
<1>7. CASE mempool' = << >> /\ UNCHANGED job
  <2>1. 1 .. Len(mempool') = {}
    BY <1>7, EmptySeq
  <2> QED
    BY <1>0, <1>7, <2>1 DEF GatherInv, Gathered
<1>8. CASE UNCHANGED <<job, mempool>>
  BY <1>8 DEF GatherInv, Gathered
<1> QED
  BY <1>0, <1>2, <1>3, <1>4, <1>5, <1>6, <1>7, <1>8, DaemonCases

(* handleRequestLog collects len(rawRequests) reports, for any number of    *)
(* them and in any order: what is sent has every external ID of the         *)
(* request, and no more reports than that.                                  *)
THEOREM ReportsAreComplete == Spec => []ReportsComplete
<1>1. Init => GatherInv
  <2> SUFFICES ASSUME Init PROVE GatherInv
    OBVIOUS
  <2>1. 1 .. Len(mempool) = {}
    BY EmptySeq DEF Init
  <2>2. \A id \in RequestIDs : job[id].stage = "none" /\ job[id].reports = << >>
    BY DEF Init, NoJob
  <2> QED
    BY <2>1, <2>2 DEF GatherInv, Gathered, Active
<1>2. GatherInv => ReportsComplete
  BY DEF GatherInv, ReportsComplete, Complete, Eids
<1> QED
  BY <1>1, <1>2, DaemonTyped, GatherStep, PTL DEF Spec
=============================================================================
