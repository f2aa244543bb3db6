--------------------------- MODULE OracleRequests ---------------------------
(***************************************************************************)
(* The life of a data request in BandChain's oracle module                 *)
(* (chain/x/oracle): PrepareRequest stores it, validators' reporters       *)
(* answer it, the end blocker resolves the requests that reached their     *)
(* minimum count, expires the others and keeps the miss counters that      *)
(* jail validators.                                                        *)
(*                                                                         *)
(* A transaction that returns an error is rolled back by the SDK, so an    *)
(* error path of a handler is a disabled action.  The end blocker's two    *)
(* loops are written one iteration per step; "phase" keeps every other     *)
(* action disabled until both loops are done.                              *)
(***************************************************************************)
EXTENDS Integers, Sequences, FiniteSets

CONSTANTS
  Validators,            \* operators known to the staking module
  Accounts,              \* other accounts, which may be made reporters
  RawRequestLists,       \* lists of external IDs an Owasm prepare call may ask
  MaxRawRequestCount,    \* parameter MaxRawRequestCount
  MaxAskCount,           \* parameter MaxAskCount
  ExpirationBlockCount,  \* parameter ExpirationBlockCount
  MaxConsecutiveMisses,  \* parameter MaxConsecutiveMisses
  StakingMoves,          \* status changes made by the staking modules
  MaxRequests,           \* bound: requests ever made
  MaxMinCount,           \* bound: minimum counts found in IBC packets
  MaxHeight              \* bound: the height at which the clock is frozen

ASSUME ValidatorsFinite == IsFiniteSet(Validators)

ASSUME RawRequestListsTyped == RawRequestLists \subseteq Seq(Int)

(* validateUint64: the first three parameters must be positive. *)
ASSUME ParamsValid ==
  /\ MaxRawRequestCount \in Nat \ {0}
  /\ MaxAskCount \in Nat \ {0}
  /\ ExpirationBlockCount \in Nat \ {0}
  /\ MaxConsecutiveMisses \in Nat

StakingStatus == {"bonded", "unbonded", "jailed", "absent"}

ASSUME StakingMovesTyped == StakingMoves \subseteq StakingStatus \X StakingStatus

ASSUME BoundsAreNat ==
  /\ MaxRequests \in Nat
  /\ MaxMinCount \in Nat
  /\ MaxHeight \in Nat \ {0}

VARIABLES
  height,        \* height of the block being executed
  phase,         \* "deliver", then "resolve" and "expire" of the end blocker
  requestCount,  \* RequestCountStoreKey
  lastExpired,   \* RequestLastExpiredStoreKey
  requests,      \* request store: request ID -> Request
  reports,       \* report store: request ID -> (validator -> Report)
  pending,       \* PendingResolveListStoreKey
  results,       \* result store: request ID -> committed packet pair
  missed,        \* ValidatorReportInfo.ConsecutiveMissed, default 0
  staking,       \* what the staking keeper says of each operator
  reporters,     \* reporter store: set of <<validator, account>>
  packets        \* oracle response packets handed to the IBC channel

txVars  == <<height, phase, lastExpired, results, missed, packets>>
vars    == <<height, phase, requestCount, lastExpired, requests, reports,
             pending, results, missed, staking, reporters, packets>>

-----------------------------------------------------------------------------
Status        == {"Success", "Failure", "Expired"}
FinalStatus   == {"Success", "Failure"}
RequestIDs    == 1 .. MaxRequests

Request == [vals : SUBSET Validators, minCount : Nat, height : Nat,
            ibc : BOOLEAN, rawIDs : Seq(Int)]
Report  == [inBeforeResolve : BOOLEAN]
Result  == [askCount : Nat, minCount : Nat, ansCount : Nat, status : Status]
Packet  == [id : RequestIDs, status : Status]

(* KVStore.Set on a store kept as a function from keys to values. *)
SetKey(store, key, value) ==
  [k \in DOMAIN store \cup {key} |-> IF k = key THEN value ELSE store[k]]

(* GetReportCount: the number of report keys under the request's prefix. *)
GetReportCount(id) == Cardinality(DOMAIN reports[id])

HasResult(id) == id \in DOMAIN results

-----------------------------------------------------------------------------
(* InitGenesis of a new chain: no request yet, every operator bonded. *)
Init ==
  /\ height = 1
  /\ phase = "deliver"
  /\ requestCount = 0
  /\ lastExpired = 0
  /\ requests = [i \in {} |-> {}]
  /\ reports = [i \in {} |-> {}]
  /\ pending = << >>
  /\ results = [i \in {} |-> {}]
  /\ missed = [v \in Validators |-> 0]
  /\ staking = [v \in Validators |-> "bonded"]
  /\ reporters = {}
  /\ packets = << >>

(* AskExternalData drops what exceeds MaxRawRequestCount without an error. *)
CollectRawRequests(asked) ==
  SubSeq(asked, 1,
         IF Len(asked) < MaxRawRequestCount THEN Len(asked) ELSE MaxRawRequestCount)

(* GetRandomValidators: any askCount distinct bonded validators.  A jailed  *)
(* operator has left the power index that the staking keeper iterates.      *)
GetRandomValidators(askCount) ==
  {S \in SUBSET {v \in Validators : staking[v] = "bonded"} :
      Cardinality(S) = askCount}

(* PrepareRequest, shared by messages and IBC packets.  The last conjunct   *)
(* of the guard is the clock bound: every request can still expire.         *)
PrepareRequest(askCount, minCount, ibc) ==
  /\ phase = "deliver"
  /\ requestCount < MaxRequests
  /\ height + ExpirationBlockCount <= MaxHeight
  /\ askCount <= MaxAskCount
  /\ \E vals \in GetRandomValidators(askCount), asked \in RawRequestLists :
       LET id == requestCount + 1
       IN  /\ requestCount' = id
           /\ requests' = SetKey(requests, id,
                [vals |-> vals, minCount |-> minCount, height |-> height,
                 ibc |-> ibc, rawIDs |-> CollectRawRequests(asked)])
           /\ reports' = SetKey(reports, id, [v \in {} |-> {}])
  /\ UNCHANGED <<txVars, pending, staking, reporters>>

(* MsgRequestData.ValidateBasic on the two counts. *)
ValidateRequestData(askCount, minCount) ==
  /\ minCount > 0
  /\ askCount >= minCount

(* handleMsgRequestData, after ValidateBasic in runTx. *)
RequestData ==
  \E askCount \in 0 .. MaxAskCount, minCount \in 0 .. MaxMinCount :
     /\ ValidateRequestData(askCount, minCount)
     /\ PrepareRequest(askCount, minCount, FALSE)

(* OnRecvPacket: a packet's counts are not validated. *)
OnRecvPacket ==
  \E askCount \in 0 .. MaxAskCount, minCount \in 0 .. MaxMinCount :
     PrepareRequest(askCount, minCount, TRUE)

(* IsReporter: a validator's own account is always its reporter. *)
IsReporter(val, addr) == val = addr \/ <<val, addr>> \in reporters

(* Mutant: the length of the report is not compared with the request's. *)
RawReportsOfAnyLength(rawIDs, eids) ==
  /\ eids # {}
  /\ \A e \in eids : \E i \in 1 .. Len(rawIDs) : rawIDs[i] = e

(* ValidateBasic and AddReport on the external IDs of a report: not empty,  *)
(* unique (hence a set), as many as the request has, each asked for.        *)
ValidRawReports(rawIDs, eids) ==
  /\ eids # {}
  /\ Cardinality(eids) = Len(rawIDs)
  /\ \A e \in eids : \E i \in 1 .. Len(rawIDs) : rawIDs[i] = e

(* Mutant: a request that waits for its resolution counts as resolved. *)
AddReportPendingIsResolved(id, val, eids) ==
  /\ id \in DOMAIN requests
  /\ val \in requests[id].vals
  /\ val \notin DOMAIN reports[id]
  /\ ValidRawReports(requests[id].rawIDs, eids)
  /\ reports' = [reports EXCEPT
       ![id] = SetKey(@, val, [inBeforeResolve |->
                 /\ ~HasResult(id)
                 /\ GetReportCount(id) < requests[id].minCount])]

(* AddReport: the stored report, with HasResult read before it is stored. *)
AddReport(id, val, eids) ==
  /\ id \in DOMAIN requests
  /\ val \in requests[id].vals
  /\ val \notin DOMAIN reports[id]
  /\ ValidRawReports(requests[id].rawIDs, eids)
  /\ reports' = [reports EXCEPT
       ![id] = SetKey(@, val, [inBeforeResolve |-> ~HasResult(id)])]

(* Mutant: every report from the MinCount-th on adds the request. *)
ReportDataAtLeastMin(id, val, addr, eids) ==
  /\ phase = "deliver"
  /\ IsReporter(val, addr)
  /\ AddReport(id, val, eids)
  /\ pending' = IF Cardinality(DOMAIN reports'[id]) >= requests[id].minCount
                THEN Append(pending, id)
                ELSE pending
  /\ UNCHANGED <<txVars, requestCount, requests, staking, reporters>>

(* Mutant: the count is read before the report is stored. *)
ReportDataStaleCount(id, val, addr, eids) ==
  /\ phase = "deliver"
  /\ IsReporter(val, addr)
  /\ AddReport(id, val, eids)
  /\ pending' = IF GetReportCount(id) = requests[id].minCount
                THEN Append(pending, id)
                ELSE pending
  /\ UNCHANGED <<txVars, requestCount, requests, staking, reporters>>

(* handleMsgReportData: the report that makes the count equal to MinCount   *)
(* puts the request on the pending list.                                    *)
ReportData(id, val, addr, eids) ==
  /\ phase = "deliver"
  /\ IsReporter(val, addr)
  /\ AddReport(id, val, eids)
  /\ pending' = IF Cardinality(DOMAIN reports'[id]) = requests[id].minCount
                THEN Append(pending, id)
                ELSE pending
  /\ UNCHANGED <<txVars, requestCount, requests, staking, reporters>>

(* handleMsgAddReporter and handleMsgRemoveReporter (ValidateBasic excludes *)
(* the validator's own account).                                            *)
AddReporter(val, addr) ==
  /\ phase = "deliver"
  /\ addr # val
  /\ ~IsReporter(val, addr)
  /\ reporters' = reporters \cup {<<val, addr>>}
  /\ UNCHANGED <<txVars, requestCount, requests, reports, pending, staking>>

RemoveReporter(val, addr) ==
  /\ phase = "deliver"
  /\ addr # val
  /\ IsReporter(val, addr)
  /\ reporters' = reporters \ {<<val, addr>>}
  /\ UNCHANGED <<txVars, requestCount, requests, reports, pending, staking>>

(* The staking and slashing modules (external): bonding, unbonding, jailing *)
(* for downtime, unjailing, removal and re-creation of an operator.         *)
StakingChange(v) ==
  /\ phase = "deliver"
  /\ \E s \in StakingStatus :
       /\ <<staking[v], s>> \in StakingMoves
       /\ staking' = [staking EXCEPT ![v] = s]
  /\ UNCHANGED <<txVars, requestCount, requests, reports, pending, reporters>>

-----------------------------------------------------------------------------
(* SaveResult: the committed request/response packet pair.  The arguments   *)
(* of NewOracleRequestPacketData are passed as the code passes them.        *)
SaveResult(id, status) ==
  results' = SetKey(results, id,
    [askCount |-> requests[id].minCount,
     minCount |-> Cardinality(requests[id].vals),
     ansCount |-> GetReportCount(id),
     status   |-> status])

(* SendOracleResponse: a missing channel, sequence or capability, or a      *)
(* refused packet, is logged and the packet is dropped.                     *)
SendOracleResponse(id, status) ==
  \/ packets' = Append(packets, [id |-> id, status |-> status])
  \/ UNCHANGED packets

Respond(id, status) ==
  IF requests[id].ibc THEN SendOracleResponse(id, status) ELSE UNCHANGED packets

(* handleEndBlock starts: no transaction of this block is left. *)
EndBlock ==
  /\ phase = "deliver"
  /\ phase' = "resolve"
  /\ UNCHANGED <<height, requestCount, lastExpired, requests, reports, pending,
                 results, missed, staking, reporters, packets>>

(* ResolveRequest for the next entry of the pending list; the Owasm execute *)
(* call returns zero or not.  The entry is dropped here: the list is not    *)
(* read again before it is cleared.                                         *)
ResolveRequest ==
  /\ phase = "resolve"
  /\ pending # << >>
  /\ LET id == Head(pending)
     IN  /\ id \in DOMAIN requests
         /\ \E status \in FinalStatus :
              SaveResult(id, status) /\ Respond(id, status)
  /\ pending' = Tail(pending)
  /\ UNCHANGED <<height, phase, requestCount, lastExpired, requests, reports,
                 missed, staking, reporters>>

(* SetPendingResolveList([]), then ProcessExpiredRequests begins. *)
ClearPendingList ==
  /\ phase = "resolve"
  /\ pending = << >>
  /\ phase' = "expire"
  /\ UNCHANGED <<height, requestCount, lastExpired, requests, reports, pending,
                 results, missed, staking, reporters, packets>>

IsExpired(id) == requests[id].height + ExpirationBlockCount <= height

(* Mutants: the counter is never cut off; a report does not reset it. *)
NextMissedUnlimited(v, reported) ==
  IF staking[v] \in {"absent", "jailed"} \/ reported THEN 0 ELSE missed[v] + 1

NextMissedNotReset(v, reported) ==
  IF \/ staking[v] \in {"absent", "jailed"}
     \/ ~reported /\ missed[v] + 1 > MaxConsecutiveMisses
  THEN 0
  ELSE IF reported THEN missed[v] ELSE missed[v] + 1

(* HandleValidatorReport: the new miss counter of v, ... *)
NextMissed(v, reported) ==
  IF \/ staking[v] \in {"absent", "jailed"}
     \/ reported
     \/ missed[v] + 1 > MaxConsecutiveMisses
  THEN 0
  ELSE missed[v] + 1

(* Mutant: one miss too early. *)
JailsEarly(v, reported) ==
  /\ staking[v] \notin {"absent", "jailed"}
  /\ ~reported
  /\ missed[v] + 1 >= MaxConsecutiveMisses

(* ... and whether the staking keeper is told to jail it. *)
Jails(v, reported) ==
  /\ staking[v] \notin {"absent", "jailed"}
  /\ ~reported
  /\ missed[v] + 1 > MaxConsecutiveMisses

(* UpdateReportInfos: HandleValidatorReport once per requested validator. *)
UpdateReportInfos(id) ==
  LET asked       == requests[id].vals
      reported(v) == v \in DOMAIN reports[id]
  IN  /\ missed' = [v \in Validators |->
                      IF v \in asked THEN NextMissed(v, reported(v)) ELSE missed[v]]
      /\ staking' = [v \in Validators |->
                      IF v \in asked /\ Jails(v, reported(v)) THEN "jailed"
                                                             ELSE staking[v]]

(* Mutant: only a request without any report is answered as expired. *)
ExpireRequestUnreported ==
  /\ phase = "expire"
  /\ lastExpired < requestCount
  /\ LET id == lastExpired + 1
     IN  /\ id \in DOMAIN requests
         /\ IsExpired(id)
         /\ IF GetReportCount(id) = 0
            THEN SaveResult(id, "Expired") /\ Respond(id, "Expired")
            ELSE UNCHANGED <<results, packets>>
         /\ UpdateReportInfos(id)
         /\ lastExpired' = id
  /\ UNCHANGED <<height, phase, requestCount, requests, reports, pending,
                 reporters>>

(* Mutant: the reports are compared with the number of asked validators. *)
ExpireRequestBelowAsk ==
  /\ phase = "expire"
  /\ lastExpired < requestCount
  /\ LET id == lastExpired + 1
     IN  /\ id \in DOMAIN requests
         /\ IsExpired(id)
         /\ IF GetReportCount(id) < Cardinality(requests[id].vals)
            THEN SaveResult(id, "Expired") /\ Respond(id, "Expired")
            ELSE UNCHANGED <<results, packets>>
         /\ UpdateReportInfos(id)
         /\ lastExpired' = id
  /\ UNCHANGED <<height, phase, requestCount, requests, reports, pending,
                 reporters>>

(* One iteration of ProcessExpiredRequests. *)
ExpireRequest ==
  /\ phase = "expire"
  /\ lastExpired < requestCount
  /\ LET id == lastExpired + 1
     IN  /\ id \in DOMAIN requests
         /\ IsExpired(id)
         /\ IF GetReportCount(id) < requests[id].minCount
            THEN SaveResult(id, "Expired") /\ Respond(id, "Expired")
            ELSE UNCHANGED <<results, packets>>
         /\ UpdateReportInfos(id)
         /\ lastExpired' = id
  /\ UNCHANGED <<height, phase, requestCount, requests, reports, pending,
                 reporters>>

(* Mutant: the loop may stop at a request that is expired. *)
CommitAfterOne ==
  /\ phase = "expire"
  /\ phase' = "deliver"
  /\ height' = IF height < MaxHeight THEN height + 1 ELSE height
  /\ UNCHANGED <<requestCount, lastExpired, requests, reports, pending, results,
                 missed, staking, reporters, packets>>

(* The loop ends or breaks at the first request that is not expired; the    *)
(* block is committed and the next one begins.                              *)
Commit ==
  /\ phase = "expire"
  /\ lastExpired < requestCount =>
       /\ lastExpired + 1 \in DOMAIN requests
       /\ ~IsExpired(lastExpired + 1)
  /\ phase' = "deliver"
  /\ height' = IF height < MaxHeight THEN height + 1 ELSE height
  /\ UNCHANGED <<requestCount, lastExpired, requests, reports, pending, results,
                 missed, staking, reporters, packets>>

-----------------------------------------------------------------------------
ExternalIDSets ==
  SUBSET UNION {{raw[i] : i \in 1 .. Len(raw)} : raw \in RawRequestLists}

DeliverTx ==
  \/ RequestData
  \/ OnRecvPacket
  \/ \E id \in RequestIDs, val \in Validators,
        addr \in Validators \cup Accounts, eids \in ExternalIDSets :
        ReportData(id, val, addr, eids)
  \/ \E val \in Validators, addr \in Accounts :
        AddReporter(val, addr) \/ RemoveReporter(val, addr)

HandleEndBlock ==
  \/ EndBlock
  \/ ResolveRequest
  \/ ClearPendingList
  \/ ExpireRequest
  \/ Commit

Next ==
  \/ DeliverTx
  \/ \E v \in Validators : StakingChange(v)
  \/ HandleEndBlock

Spec == Init /\ [][Next]_vars

(* Tendermint keeps producing blocks, and the end blocker of each runs to   *)
(* its end.  No transaction is promised.                                    *)
FairSpec == Spec /\ WF_vars(HandleEndBlock)

-----------------------------------------------------------------------------
(* Type invariant; a miss counter never passes MaxConsecutiveMisses, since  *)
(* HandleValidatorReport jails the validator and starts again from zero.    *)
TypeOK ==
  /\ height \in 1 .. MaxHeight
  /\ phase \in {"deliver", "resolve", "expire"}
  /\ requestCount \in 0 .. MaxRequests
  /\ lastExpired \in 0 .. requestCount
  /\ DOMAIN requests = 1 .. requestCount
  /\ \A id \in DOMAIN requests : requests[id] \in Request
  /\ DOMAIN reports = DOMAIN requests
  /\ \A id \in DOMAIN reports :
       /\ DOMAIN reports[id] \subseteq requests[id].vals
       /\ \A v \in DOMAIN reports[id] : reports[id][v] \in Report
  /\ pending \in Seq(DOMAIN requests)
  /\ DOMAIN results \subseteq DOMAIN requests
  /\ \A id \in DOMAIN results : results[id] \in Result
  /\ missed \in [Validators -> 0 .. MaxConsecutiveMisses]
  /\ staking \in [Validators -> StakingStatus]
  /\ reporters \subseteq Validators \X Accounts
  /\ packets \in Seq(Packet)

HasFinalResult(id) == HasResult(id) /\ results[id].status \in FinalStatus

IsPending(id) == \E i \in 1 .. Len(pending) : pending[i] = id

(* handleMsgReportData: a request enters the pending list "at most one time *)
(* for any request": no entry is repeated, and an entry is a request that   *)
(* has its reports and was not executed before.                             *)
PendingConsistent ==
  /\ \A i, j \in 1 .. Len(pending) : pending[i] = pending[j] => i = j
  /\ \A i \in 1 .. Len(pending) :
       /\ GetReportCount(pending[i]) >= requests[pending[i]].minCount
       /\ ~HasFinalResult(pending[i])

(* No request that reached its minimum is forgotten, and none is executed   *)
(* without it, whatever other requests, expirations and late reports do.    *)
EnoughReportsResolve ==
  \A id \in DOMAIN requests :
     requests[id].minCount > 0 =>
       (GetReportCount(id) >= requests[id].minCount
          <=> IsPending(id) \/ HasFinalResult(id))

(* ProcessExpiredRequests leaves no request behind it without an answer,    *)
(* if its minimum count is one that MsgRequestData accepts.                 *)
ExpiredHaveResult ==
  \A id \in 1 .. lastExpired : requests[id].minCount > 0 => HasResult(id)

(* RequestLastExpired moves on time: it has passed every request whose      *)
(* expiration height is behind, and none whose expiration is ahead.  The    *)
(* loop's early break is right only because requests are in height order.   *)
ExpiryIsTimely ==
  \A id \in DOMAIN requests :
     /\ requests[id].height + ExpirationBlockCount < height => id <= lastExpired
     /\ id <= lastExpired => requests[id].height + ExpirationBlockCount <= height

EarlyReports(id) == {v \in DOMAIN reports[id] : reports[id][v].inBeforeResolve}

(* InBeforeResolve marks exactly the reports that the first answer of a     *)
(* request counts; a later answer is one that needed the late ones.         *)
EarlyReportsAreCounted ==
  \A id \in DOMAIN results :
     requests[id].minCount > 0 =>
       LET early == Cardinality(EarlyReports(id))
       IN  IF results[id].status = "Expired" \/ early >= requests[id].minCount
           THEN results[id].ansCount = early
           ELSE results[id].ansCount >= requests[id].minCount

ResultReplacedOnlyByExecution ==
  \A id \in DOMAIN results :
     /\ id \in DOMAIN results'
     /\ results'[id] # results[id] =>
          results[id].status = "Expired" /\ results'[id].status \in FinalStatus

(* An executed result is never replaced, neither by the expiration that     *)
(* follows it nor by reports that come after it; an expired one only by an  *)
(* executed one.                                                            *)
FinalResultStable == [][ResultReplacedOnlyByExecution]_vars

(* A requester on another chain gets at most one executed response, and no  *)
(* EXPIRED response after it.                                               *)
ResponsesInOrder ==
  \A i, j \in 1 .. Len(packets) :
     i < j /\ packets[i].id = packets[j].id =>
       packets[i].status = "Expired" /\ packets[j].status \in FinalStatus

AskedAndExpired(v, last) == {id \in 1 .. last : v \in requests[id].vals}

(* v had no report on this request, or one that came after the answer.      *)
NotReportedEarly(v, id) ==
  \/ requests[id].minCount = 0
  \/ v \notin EarlyReports(id)

(* n in a row, counted back from the last one, of the expired requests that *)
(* asked v.                                                                 *)
MissedInARow(v, last, n) ==
  \E first \in 1 .. last + 1 :
     LET run == {id \in AskedAndExpired(v, last) : id >= first}
     IN  Cardinality(run) = n /\ \A id \in run : NotReportedEarly(v, id)

(* ConsecutiveMissed counts misses in a row: one report in time breaks the  *)
(* row, however many requests expire in the same end blocker.               *)
MissesAreConsecutive ==
  \A v \in Validators : MissedInARow(v, lastExpired, missed[v])

(* The end blocker jails only a validator that missed more than             *)
(* MaxConsecutiveMisses requests in a row, the expiring one included.       *)
JailedOnlyAfterMisses ==
  [][\A v \in Validators :
        phase = "expire" /\ staking'[v] # staking[v] =>
          /\ staking'[v] = "jailed"
          /\ MissedInARow(v, lastExpired', MaxConsecutiveMisses + 1)]_vars

(* A request that asks for the same external ID twice, or for none, accepts *)
(* no report (ValidateBasic wants unique and at least one, AddReport as     *)
(* many as asked): whoever it asks, it can only expire.                     *)
UnanswerableOnlyExpires ==
  \A id \in DOMAIN requests :
     LET raw == requests[id].rawIDs
     IN  (raw = << >> \/ \E i, j \in 1 .. Len(raw) : i # j /\ raw[i] = raw[j]) =>
           DOMAIN reports[id] = {} /\ ~HasFinalResult(id)

(* Every request that MsgRequestData would accept is answered in the end,   *)
(* with no help from validators: by execution or as expired.                *)
EveryRequestAnswered ==
  \A id \in RequestIDs :
     (id \in DOMAIN requests /\ requests[id].minCount > 0) ~> HasResult(id)

-----------------------------------------------------------------------------
(* What comments in the code say of it, and it does not do.                 *)

(* request.go: a request below its minimum at expiration "is never          *)
(* resolved"; types.proto: ResolveTime is the time of "the final result".   *)
(* Hence no response may follow the response of an expired request.         *)
OneResponsePerRequest ==
  \A i, j \in 1 .. Len(packets) : packets[i].id = packets[j].id => i = j
=============================================================================
