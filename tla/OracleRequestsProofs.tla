------------------------ MODULE OracleRequestsProofs ------------------------
(***************************************************************************)
(* Theorems about OracleRequests and the modules that extend it, for every *)
(* set of validators, accounts and external IDs, all parameters and all    *)
(* bounds.                                                                 *)
(*                                                                         *)
(* The first part has the inductive invariant and what follows from it.    *)
(* The second is about what becomes of the requests: the safety half of    *)
(* the refinement in OracleLifecycle (each step of the handlers and of the *)
(* end blocker is a step of the abstract lifecycle or leaves all stages    *)
(* alone), and what the module answers and whom it blames: the committed   *)
(* results, the response packets and the miss counters.  The last part is  *)
(* about chains that are exported and started again (OracleGenesis), where *)
(* the invariant of the first part does not hold.                          *)
(***************************************************************************)
EXTENDS OracleLifecycle, OracleGenesis, TLAPS, FiniteSetTheorems, SequenceTheorems

-----------------------------------------------------------------------------
(* A request has finitely many reports, so GetReportCount is a number. *)
LEMMA ReportCountIsNat ==
  ASSUME TypeOK, NEW id \in DOMAIN requests
  PROVE  /\ IsFiniteSet(DOMAIN reports[id])
         /\ GetReportCount(id) \in Nat
         /\ Cardinality(requests[id].vals) \in Nat
<1>1. requests[id].vals \in SUBSET Validators
  BY DEF TypeOK, Request
<1>2. IsFiniteSet(requests[id].vals)
  BY <1>1, ValidatorsFinite, FS_Subset
<1>3. DOMAIN reports[id] \in SUBSET requests[id].vals
  BY DEF TypeOK
<1>4. IsFiniteSet(DOMAIN reports[id])
  BY <1>2, <1>3, FS_Subset
<1> QED
  BY <1>2, <1>4, FS_CardinalityType DEF GetReportCount

(* AskExternalData keeps a prefix of what the script asked for. *)
LEMMA CollectRawRequestsType ==
  ASSUME NEW asked \in RawRequestLists
  PROVE  CollectRawRequests(asked) \in Seq(Int)
<1>1. asked \in Seq(Int)
  BY RawRequestListsTyped
<1>2. Len(asked) \in Nat /\ DOMAIN asked = 1 .. Len(asked)
  BY <1>1, LenProperties
<1> DEFINE n == IF Len(asked) < MaxRawRequestCount THEN Len(asked) ELSE MaxRawRequestCount
<1>3. n \in Int /\ n <= Len(asked)
  BY <1>2, ParamsValid
<1>4. \A i \in 1 .. n : asked[i] \in Int
  BY <1>1, <1>2, <1>3, ElementOfSeq
<1> HIDE DEF n
<1>5. SubSeq(asked, 1, n) \in Seq(Int)
  BY <1>3, <1>4, SubSeqProperties
<1> QED
  BY <1>5 DEF CollectRawRequests, n

(* A committed packet pair has its type. *)
LEMMA SaveResultType ==
  ASSUME TypeOK, NEW id \in DOMAIN requests, NEW status \in Status,
         SaveResult(id, status)
  PROVE  /\ DOMAIN results' = DOMAIN results \cup {id}
         /\ \A i \in DOMAIN results' : results'[i] \in Result
         /\ results'[id].status = status
         /\ \A i \in DOMAIN results : i # id => results'[i] = results[i]
<1> DEFINE r == [askCount |-> requests[id].minCount,
                 minCount |-> Cardinality(requests[id].vals),
                 ansCount |-> GetReportCount(id),
                 status   |-> status]
<1>1. r \in Result
  BY ReportCountIsNat DEF TypeOK, Request, Result
<1>2. results' = SetKey(results, id, r)
  BY DEF SaveResult
<1> HIDE DEF r
<1>3. /\ DOMAIN results' = DOMAIN results \cup {id}
      /\ results'[id] = r
      /\ \A i \in DOMAIN results : i # id => results'[i] = results[i]
  BY <1>2 DEF SetKey
<1>4. \A i \in DOMAIN results : results[i] \in Result
  BY DEF TypeOK
<1>5. r.status = status
  BY DEF r
<1> QED
  BY <1>1, <1>3, <1>4, <1>5

(* A response adds at most a packet of the request. *)
LEMMA RespondType ==
  ASSUME TypeOK, NEW id \in RequestIDs, NEW status \in Status, Respond(id, status)
  PROVE  packets' \in Seq(Packet)
<1>1. packets \in Seq(Packet)
  BY DEF TypeOK
<1>2. [id |-> id, status |-> status] \in Packet
  BY DEF Packet
<1>3. packets' = packets \/ packets' = Append(packets, [id |-> id, status |-> status])
  BY DEF Respond, SendOracleResponse
<1> QED
  BY <1>1, <1>2, <1>3, AppendProperties

-----------------------------------------------------------------------------
LEMMA InitType == Init => TypeOK
<1> SUFFICES ASSUME Init PROVE TypeOK
  OBVIOUS
<1>1. pending \in Seq(DOMAIN requests) /\ packets \in Seq(Packet)
  BY EmptySeq DEF Init
<1>2. missed \in [Validators -> 0 .. MaxConsecutiveMisses]
  BY ParamsValid DEF Init
<1>3. staking \in [Validators -> StakingStatus]
  BY DEF Init, StakingStatus
<1>4. requestCount \in 0 .. MaxRequests /\ lastExpired \in 0 .. requestCount
      /\ height \in 1 .. MaxHeight
  BY BoundsAreNat DEF Init
<1>5. /\ DOMAIN requests = {} /\ DOMAIN reports = {} /\ DOMAIN results = {}
      /\ 1 .. requestCount = {}
  BY DEF Init
<1>6. phase \in {"deliver", "resolve", "expire"} /\ reporters \subseteq Validators \X Accounts
  BY DEF Init
<1> QED
  BY <1>1, <1>2, <1>3, <1>4, <1>5, <1>6 DEF TypeOK

(* The type invariant is preserved by each action. *)
LEMMA PrepareRequestType ==
  ASSUME TypeOK, NEW askCount \in Nat, NEW minCount \in Nat, NEW ibc \in BOOLEAN,
         PrepareRequest(askCount, minCount, ibc)
  PROVE  TypeOK'
<1> PICK vals \in GetRandomValidators(askCount), asked \in RawRequestLists :
      /\ requestCount' = requestCount + 1
      /\ requests' = SetKey(requests, requestCount + 1,
             [vals |-> vals, minCount |-> minCount, height |-> height,
              ibc |-> ibc, rawIDs |-> CollectRawRequests(asked)])
      /\ reports' = SetKey(reports, requestCount + 1, [v \in {} |-> {}])
  BY DEF PrepareRequest
<1> DEFINE r == [vals |-> vals, minCount |-> minCount, height |-> height,
                 ibc |-> ibc, rawIDs |-> CollectRawRequests(asked)]
           e == [v \in {} |-> {}]
<1>1. r \in Request
  BY CollectRawRequestsType DEF GetRandomValidators, Request, TypeOK
<1>2. requestCount \in Nat /\ requestCount < MaxRequests
  BY BoundsAreNat DEF TypeOK, PrepareRequest
<1>3. r.vals = vals /\ DOMAIN e = {}
  OBVIOUS
<1> HIDE DEF r, e
<1>4. /\ DOMAIN requests' = DOMAIN requests \cup {requestCount + 1}
      /\ requests'[requestCount + 1] = r
      /\ \A k \in DOMAIN requests : k # requestCount + 1 => requests'[k] = requests[k]
  BY DEF r, SetKey
<1>5. /\ DOMAIN reports' = DOMAIN reports \cup {requestCount + 1}
      /\ reports'[requestCount + 1] = e
      /\ \A k \in DOMAIN reports : k # requestCount + 1 => reports'[k] = reports[k]
  BY DEF e, SetKey
<1>6. DOMAIN requests = 1 .. requestCount /\ DOMAIN reports = DOMAIN requests
  BY DEF TypeOK
<1>7. DOMAIN requests' = 1 .. requestCount'
  <2>1. 1 .. requestCount + 1 = (1 .. requestCount) \cup {requestCount + 1}
    BY <1>2
  <2> QED
    BY <1>4, <1>6, <2>1
<1>8. \A k \in DOMAIN requests : requests'[k] = requests[k] /\ reports'[k] = reports[k]
  BY <1>2, <1>4, <1>5, <1>6
<1>9. /\ \A id \in DOMAIN requests' : requests'[id] \in Request
      /\ DOMAIN reports' = DOMAIN requests'
      /\ \A id \in DOMAIN reports' :
           /\ DOMAIN reports'[id] \subseteq requests'[id].vals
           /\ \A v \in DOMAIN reports'[id] : reports'[id][v] \in Report
  <2>1. \A id \in DOMAIN requests :
          /\ requests[id] \in Request
          /\ DOMAIN reports[id] \subseteq requests[id].vals
          /\ \A v \in DOMAIN reports[id] : reports[id][v] \in Report
    BY <1>6 DEF TypeOK
  <2> QED
    BY <1>1, <1>3, <1>4, <1>5, <1>6, <1>8, <2>1
<1>10. pending \in Seq(DOMAIN requests')
  <2>1. pending \in Seq(DOMAIN requests) /\ DOMAIN requests \subseteq DOMAIN requests'
    BY <1>4 DEF TypeOK
  <2> QED
    BY <2>1, SeqMonotonic
<1>11. requestCount' \in 0 .. MaxRequests /\ lastExpired \in 0 .. requestCount'
  BY <1>2, BoundsAreNat DEF TypeOK
<1>12. DOMAIN results \subseteq DOMAIN requests'
  BY <1>4 DEF TypeOK
<1> QED
  BY <1>7, <1>9, <1>10, <1>11, <1>12 DEF TypeOK, PrepareRequest, txVars

LEMMA ReportDataType ==
  ASSUME TypeOK, NEW id \in RequestIDs, NEW val, NEW addr, NEW eids,
         ReportData(id, val, addr, eids)
  PROVE  TypeOK'
<1> DEFINE new == [inBeforeResolve |-> ~HasResult(id)]
<1>1. /\ id \in DOMAIN requests
      /\ val \in requests[id].vals
      /\ reports' = [reports EXCEPT ![id] = SetKey(reports[id], val, new)]
  BY DEF ReportData, AddReport
<1>2. new \in Report
  BY Zenon DEF Report
<1> HIDE DEF new
<1>3. DOMAIN reports = DOMAIN requests /\ requests' = requests
  BY DEF TypeOK, ReportData
<1>4. /\ DOMAIN reports' = DOMAIN requests
      /\ reports'[id] = SetKey(reports[id], val, new)
      /\ \A k \in DOMAIN reports : k # id => reports'[k] = reports[k]
  BY <1>1, <1>3
<1>5. /\ DOMAIN reports'[id] = DOMAIN reports[id] \cup {val}
      /\ reports'[id][val] = new
      /\ \A v \in DOMAIN reports[id] : v # val => reports'[id][v] = reports[id][v]
  BY <1>4 DEF SetKey
<1>6. \A k \in DOMAIN reports' :
        /\ DOMAIN reports'[k] \subseteq requests'[k].vals
        /\ \A v \in DOMAIN reports'[k] : reports'[k][v] \in Report
  <2>1. \A k \in DOMAIN reports :
          /\ DOMAIN reports[k] \subseteq requests[k].vals
          /\ \A v \in DOMAIN reports[k] : reports[k][v] \in Report
    BY DEF TypeOK
  <2> QED
    BY <1>1, <1>2, <1>3, <1>4, <1>5, <2>1
<1>7. pending' \in Seq(DOMAIN requests')
  <2>1. pending \in Seq(DOMAIN requests)
    BY DEF TypeOK
  <2>2. pending' = pending \/ pending' = Append(pending, id)
    BY DEF ReportData
  <2> QED
    BY <1>1, <1>3, <2>1, <2>2, AppendProperties
<1> QED
  BY <1>3, <1>4, <1>6, <1>7 DEF TypeOK, ReportData, txVars

LEMMA ResolveRequestType ==
  ASSUME TypeOK, ResolveRequest
  PROVE  TypeOK'
<1> DEFINE id == Head(pending)
<1>1. id \in DOMAIN requests /\ pending # << >>
  BY DEF ResolveRequest
<1>2. PICK status \in FinalStatus : SaveResult(id, status) /\ Respond(id, status)
  BY DEF ResolveRequest
<1>3. status \in Status /\ id \in RequestIDs
  BY <1>1, BoundsAreNat DEF FinalStatus, Status, TypeOK, RequestIDs
<1> HIDE DEF id
<1>4. /\ DOMAIN results' = DOMAIN results \cup {id}
      /\ \A i \in DOMAIN results' : results'[i] \in Result
  BY <1>1, <1>2, <1>3, SaveResultType
<1>5. packets' \in Seq(Packet)
  BY <1>2, <1>3, RespondType
<1>6. pending' \in Seq(DOMAIN requests)
  BY <1>1, HeadTailProperties DEF TypeOK, ResolveRequest
<1> QED
  BY <1>1, <1>4, <1>5, <1>6 DEF TypeOK, ResolveRequest

LEMMA ExpireRequestType ==
  ASSUME TypeOK, ExpireRequest
  PROVE  TypeOK'
<1> DEFINE id == lastExpired + 1
<1>1. id \in DOMAIN requests /\ lastExpired' = id
  BY DEF ExpireRequest
<1>2. id \in RequestIDs /\ id \in 0 .. requestCount /\ "Expired" \in Status
  BY <1>1, BoundsAreNat DEF Status, TypeOK, RequestIDs
<1>3. \/ SaveResult(id, "Expired") /\ Respond(id, "Expired")
      \/ UNCHANGED <<results, packets>>
  BY DEF ExpireRequest
<1>4. UpdateReportInfos(id)
  BY DEF ExpireRequest
<1> HIDE DEF id
<1>5. /\ DOMAIN results' \subseteq DOMAIN requests
      /\ \A i \in DOMAIN results' : results'[i] \in Result
      /\ packets' \in Seq(Packet)
  <2>1. CASE SaveResult(id, "Expired") /\ Respond(id, "Expired")
    <3>1. /\ DOMAIN results' = DOMAIN results \cup {id}
          /\ \A i \in DOMAIN results' : results'[i] \in Result
      BY <1>1, <1>2, <2>1, SaveResultType
    <3>2. packets' \in Seq(Packet)
      BY <1>2, <2>1, RespondType
    <3> QED
      BY <1>1, <3>1, <3>2 DEF TypeOK
  <2>2. CASE UNCHANGED <<results, packets>>
    BY <2>2 DEF TypeOK
  <2> QED
    BY <1>3, <2>1, <2>2
<1>6. missed' \in [Validators -> 0 .. MaxConsecutiveMisses]
  <2>1. \A v \in Validators, rep \in BOOLEAN :
          NextMissed(v, rep) \in 0 .. MaxConsecutiveMisses
    BY ParamsValid DEF NextMissed, TypeOK
  <2>2. \A v \in Validators : missed[v] \in 0 .. MaxConsecutiveMisses
    BY DEF TypeOK
  <2>3. \A v : (v \in DOMAIN reports[id]) \in BOOLEAN
    OBVIOUS
  <2>4. missed' = [v \in Validators |->
            IF v \in requests[id].vals THEN NextMissed(v, v \in DOMAIN reports[id])
                                       ELSE missed[v]]
    BY <1>4 DEF UpdateReportInfos
  <2> QED
    BY <2>1, <2>2, <2>3, <2>4, Zenon
<1>7. staking' \in [Validators -> StakingStatus]
  BY <1>4 DEF UpdateReportInfos, TypeOK, StakingStatus
<1> QED
  BY <1>1, <1>2, <1>5, <1>6, <1>7 DEF TypeOK, ExpireRequest

LEMMA NextType == TypeOK /\ [Next]_vars => TypeOK'
<1> SUFFICES ASSUME TypeOK, [Next]_vars PROVE TypeOK'
  OBVIOUS
<1>1. CASE RequestData \/ OnRecvPacket
  <2>1. PICK askCount \in 0 .. MaxAskCount, minCount \in 0 .. MaxMinCount, ibc \in BOOLEAN :
          PrepareRequest(askCount, minCount, ibc)
    BY <1>1 DEF RequestData, OnRecvPacket
  <2>2. askCount \in Nat /\ minCount \in Nat
    BY ParamsValid, BoundsAreNat
  <2> QED
    BY <2>1, <2>2, PrepareRequestType
<1>2. ASSUME NEW id \in RequestIDs, NEW val \in Validators,
             NEW addr \in Validators \cup Accounts, NEW eids \in ExternalIDSets,
             ReportData(id, val, addr, eids)
      PROVE  TypeOK'
  BY <1>2, ReportDataType
<1>3. ASSUME NEW val \in Validators, NEW addr \in Accounts,
             AddReporter(val, addr) \/ RemoveReporter(val, addr)
      PROVE  TypeOK'
  <2>1. reporters' \subseteq Validators \X Accounts
    BY <1>3 DEF AddReporter, RemoveReporter, TypeOK
  <2> QED
    BY <1>3, <2>1 DEF AddReporter, RemoveReporter, TypeOK, txVars
<1>4. ASSUME NEW v \in Validators, StakingChange(v)
      PROVE  TypeOK'
  BY <1>4 DEF StakingChange, TypeOK, txVars
<1>5. CASE EndBlock
  BY <1>5 DEF EndBlock, TypeOK
<1>6. CASE ResolveRequest
  BY <1>6, ResolveRequestType
<1>7. CASE ClearPendingList
  BY <1>7 DEF ClearPendingList, TypeOK
<1>8. CASE ExpireRequest
  BY <1>8, ExpireRequestType
<1>9. CASE Commit
  BY <1>9, BoundsAreNat DEF Commit, TypeOK
<1>10. CASE UNCHANGED vars
  BY <1>10 DEF vars, TypeOK
<1> QED
  BY <1>1, <1>2, <1>3, <1>4, <1>5, <1>6, <1>7, <1>8, <1>9, <1>10
     DEF Next, DeliverTx, HandleEndBlock

(* Every reachable state is well typed; in particular no validator's miss   *)
(* counter exceeds MaxConsecutiveMisses after HandleValidatorReport, and    *)
(* RequestLastExpired never passes RequestCount.                            *)
THEOREM TypeCorrect == Spec => []TypeOK
  BY InitType, NextType, PTL DEF Spec

-----------------------------------------------------------------------------
(* The inductive invariant.  The first four conjuncts are the properties    *)
(* themselves; the others are what makes them inductive: requests are       *)
(* stored in height order, so that the expiration loop may stop at the      *)
(* first one that is not due; nothing is pending while requests expire, so  *)
(* that a request with its reports has been executed; and only requests     *)
(* the loop has passed have an EXPIRED result.                              *)
InHeightOrder ==
  /\ \A i \in DOMAIN requests : requests[i].height <= height
  /\ \A i, j \in DOMAIN requests :
       i <= j => requests[i].height <= requests[j].height

NothingPendingAtExpiration == phase = "expire" => pending = << >>

ExpiredArePassed ==
  \A id \in DOMAIN results : results[id].status = "Expired" => id <= lastExpired

SafeInv ==
  /\ PendingConsistent
  /\ EnoughReportsResolve
  /\ ExpiredHaveResult
  /\ ExpiryIsTimely
  /\ InHeightOrder
  /\ NothingPendingAtExpiration
  /\ ExpiredArePassed

IndInv == TypeOK /\ SafeInv

LEMMA InitSafe == Init => SafeInv
<1> SUFFICES ASSUME Init PROVE SafeInv
  OBVIOUS
<1>1. /\ DOMAIN requests = {} /\ DOMAIN results = {} /\ 1 .. lastExpired = {}
      /\ Len(pending) = 0 /\ phase = "deliver"
  BY EmptySeq DEF Init
<1> QED
  BY <1>1 DEF SafeInv, PendingConsistent, EnoughReportsResolve, ExpiredHaveResult,
              ExpiryIsTimely, InHeightOrder, NothingPendingAtExpiration, ExpiredArePassed

(* A step that leaves the request stores alone. *)
LEMMA OtherStepSafe ==
  ASSUME SafeInv,
         UNCHANGED <<height, requestCount, lastExpired, requests, reports, pending, results>>,
         phase' = "expire" => phase = "expire" \/ pending = << >>
  PROVE  SafeInv'
  BY DEF SafeInv, PendingConsistent, EnoughReportsResolve, ExpiredHaveResult,
         ExpiryIsTimely, InHeightOrder, NothingPendingAtExpiration, ExpiredArePassed,
         IsPending, HasFinalResult, HasResult, GetReportCount

(* A new request has no report, no result and the highest ID and height. *)
LEMMA PrepareRequestSafe ==
  ASSUME IndInv, NEW askCount \in Nat, NEW minCount \in Nat, NEW ibc \in BOOLEAN,
         PrepareRequest(askCount, minCount, ibc)
  PROVE  SafeInv'
<1> USE DEF IndInv
<1> DEFINE new == requestCount + 1
<1>1. PICK vals \in GetRandomValidators(askCount), asked \in RawRequestLists :
      /\ requests' = SetKey(requests, new,
             [vals |-> vals, minCount |-> minCount, height |-> height,
              ibc |-> ibc, rawIDs |-> CollectRawRequests(asked)])
      /\ reports' = SetKey(reports, new, [v \in {} |-> {}])
  BY DEF PrepareRequest
<1>2. requestCount \in Nat /\ DOMAIN requests = 1 .. requestCount
      /\ DOMAIN reports = DOMAIN requests /\ lastExpired \in 0 .. requestCount
      /\ height \in Nat
  BY BoundsAreNat DEF TypeOK
<1>3. new \notin DOMAIN requests /\ lastExpired < new /\ \A i \in DOMAIN requests : i < new
  BY <1>2
<1>4. /\ DOMAIN requests' = DOMAIN requests \cup {new}
      /\ requests'[new].height = height /\ requests'[new].minCount = minCount
      /\ DOMAIN reports'[new] = {}
      /\ \A i \in DOMAIN requests : requests'[i] = requests[i] /\ reports'[i] = reports[i]
  BY <1>1, <1>2, <1>3 DEF SetKey
<1>5. /\ UNCHANGED <<height, lastExpired, pending, results, phase>>
  BY DEF PrepareRequest, txVars
<1>6. \A i \in 1 .. Len(pending) : pending[i] \in DOMAIN requests
  BY ElementOfSeq DEF TypeOK
<1>7. DOMAIN results \subseteq DOMAIN requests /\ \A id \in 1 .. lastExpired : id \in DOMAIN requests
  BY <1>2 DEF TypeOK
<1> HIDE DEF new
<1>8. PendingConsistent'
  BY <1>4, <1>5, <1>6 DEF SafeInv, PendingConsistent, GetReportCount, HasFinalResult, HasResult
<1>9. EnoughReportsResolve'
  <2>1. ASSUME NEW id \in DOMAIN requests', requests'[id].minCount > 0
        PROVE  GetReportCount(id)' >= requests'[id].minCount
                  <=> IsPending(id)' \/ HasFinalResult(id)'
    <3>1. CASE id \in DOMAIN requests
      BY <1>4, <1>5, <2>1, <3>1
         DEF SafeInv, EnoughReportsResolve, IsPending, GetReportCount, HasFinalResult, HasResult
    <3>2. CASE id = new
      <4>1. GetReportCount(id)' = 0
        BY <1>4, <3>2, FS_EmptySet DEF GetReportCount
      <4>2. ~IsPending(id)' /\ ~HasFinalResult(id)'
        BY <1>3, <1>5, <1>6, <1>7, <3>2 DEF IsPending, HasFinalResult, HasResult
      <4> QED
        BY <1>4, <2>1, <3>2, <4>1, <4>2
    <3> QED
      BY <1>4, <3>1, <3>2
  <2> QED
    BY <2>1 DEF EnoughReportsResolve
<1>10. ExpiredHaveResult' /\ ExpiredArePassed' /\ NothingPendingAtExpiration'
  BY <1>4, <1>5, <1>7 DEF SafeInv, ExpiredHaveResult, ExpiredArePassed,
                          NothingPendingAtExpiration, HasResult
<1>11. InHeightOrder'
  <2>1. \A i \in DOMAIN requests : requests[i].height <= height
    BY DEF SafeInv, InHeightOrder
  <2>2. ASSUME NEW i \in DOMAIN requests', NEW j \in DOMAIN requests', i <= j
        PROVE  requests'[i].height <= requests'[j].height
    <3>1. CASE i = new
      <4>1. j = new
        BY <1>2, <1>3, <1>4, <2>2, <3>1 DEF new
      <4> QED
        BY <1>2, <1>4, <3>1, <4>1
    <3>2. CASE i # new /\ j = new
      BY <1>4, <2>1, <2>2, <3>2
    <3>3. CASE i # new /\ j # new
      BY <1>4, <2>2, <3>3 DEF SafeInv, InHeightOrder
    <3> QED
      BY <3>1, <3>2, <3>3
  <2>3. \A i \in DOMAIN requests' : requests'[i].height <= height'
    BY <1>2, <1>4, <1>5, <2>1
  <2> QED
    BY <2>2, <2>3 DEF InHeightOrder
<1>12. ExpiryIsTimely'
  <2>1. /\ ~(requests'[new].height + ExpirationBlockCount < height')
        /\ ~(new <= lastExpired')
    BY <1>2, <1>3, <1>4, <1>5, ParamsValid DEF new
  <2> QED
    BY <1>4, <1>5, <2>1 DEF SafeInv, ExpiryIsTimely
<1> QED
  BY <1>8, <1>9, <1>10, <1>11, <1>12 DEF SafeInv

(* A report raises the count of its request by one; the request is added to *)
(* the pending list only when its count was below the minimum before, so    *)
(* that it can be neither on the list nor executed already.                 *)
LEMMA ReportDataSafe ==
  ASSUME IndInv, NEW id \in RequestIDs, NEW val, NEW addr, NEW eids,
         ReportData(id, val, addr, eids)
  PROVE  SafeInv'
<1> USE DEF IndInv
<1>1. /\ id \in DOMAIN requests /\ val \notin DOMAIN reports[id]
      /\ reports' = [reports EXCEPT
             ![id] = SetKey(reports[id], val, [inBeforeResolve |-> ~HasResult(id)])]
      /\ UNCHANGED <<height, phase, requestCount, lastExpired, requests, results>>
      /\ phase = "deliver"
  BY DEF ReportData, AddReport, txVars
<1>2. /\ DOMAIN reports = DOMAIN requests
      /\ DOMAIN reports'[id] = DOMAIN reports[id] \cup {val}
      /\ \A k \in DOMAIN requests : k # id => reports'[k] = reports[k]
  BY <1>1 DEF TypeOK, SetKey
<1>3. /\ GetReportCount(id) \in Nat
      /\ GetReportCount(id)' = GetReportCount(id) + 1
      /\ \A k \in DOMAIN requests : k # id => GetReportCount(k)' = GetReportCount(k)
  BY <1>1, <1>2, ReportCountIsNat, FS_AddElement DEF GetReportCount
<1>4. requests[id].minCount \in Nat
  BY <1>1 DEF TypeOK, Request
<1>5. \A k : HasResult(k)' = HasResult(k) /\ HasFinalResult(k)' = HasFinalResult(k)
  BY <1>1 DEF HasResult, HasFinalResult
<1>6. pending \in Seq(DOMAIN requests)
  BY DEF TypeOK
<1>7. /\ Len(pending) \in Nat
      /\ \A i \in 1 .. Len(pending) : pending[i] \in DOMAIN requests
  BY <1>6, LenProperties, ElementOfSeq
<1>8. pending' = IF GetReportCount(id)' = requests[id].minCount
                 THEN Append(pending, id) ELSE pending
  BY DEF ReportData, GetReportCount
<1>9. CASE GetReportCount(id)' = requests[id].minCount
  <2>1. ~IsPending(id) /\ ~HasFinalResult(id)
    BY <1>1, <1>3, <1>4, <1>9 DEF SafeInv, EnoughReportsResolve
  <2>2. /\ Len(pending') = Len(pending) + 1
        /\ \A i \in 1 .. Len(pending) : pending'[i] = pending[i]
        /\ pending'[Len(pending) + 1] = id
    BY <1>1, <1>6, <1>8, <1>9, AppendProperties
  <2>3. \A i \in 1 .. Len(pending') :
          (i \in 1 .. Len(pending) /\ pending'[i] = pending[i])
            \/ (i = Len(pending) + 1 /\ pending'[i] = id)
    BY <1>7, <2>2
  <2>4. PendingConsistent'
    <3>1. ASSUME NEW i \in 1 .. Len(pending'), NEW j \in 1 .. Len(pending'),
                 pending'[i] = pending'[j]
          PROVE  i = j
      BY <2>1, <2>3, <3>1 DEF SafeInv, PendingConsistent, IsPending
    <3>2. ASSUME NEW i \in 1 .. Len(pending')
          PROVE  (/\ GetReportCount(pending[i]) >= requests[pending[i]].minCount
                  /\ ~HasFinalResult(pending[i]))'
      <4>1. CASE i \in 1 .. Len(pending) /\ pending'[i] = pending[i]
        <5>1. pending[i] # id /\ pending[i] \in DOMAIN requests
          BY <1>7, <2>1, <4>1 DEF IsPending
        <5>2. GetReportCount(pending[i]) >= requests[pending[i]].minCount
              /\ ~HasFinalResult(pending[i])
          BY <4>1 DEF SafeInv, PendingConsistent
        <5> QED
          BY <1>1, <1>2, <4>1, <5>1, <5>2 DEF GetReportCount, HasFinalResult, HasResult
      <4>2. CASE pending'[i] = id
        <5>1. Cardinality(DOMAIN reports'[id]) = requests[id].minCount
          BY <1>9 DEF GetReportCount
        <5> QED
          BY <1>1, <1>4, <2>1, <4>2, <5>1 DEF GetReportCount, HasFinalResult, HasResult
      <4> QED
        BY <2>3, <4>1, <4>2
    <3> QED
      BY <3>1, <3>2 DEF PendingConsistent
  <2>5. EnoughReportsResolve'
    <3>1. IsPending(id)' /\ \A k : k # id => (IsPending(k)' <=> IsPending(k))
      BY <1>7, <2>2, <2>3 DEF IsPending
    <3>2. ASSUME NEW k \in DOMAIN requests', requests'[k].minCount > 0
          PROVE  GetReportCount(k)' >= requests'[k].minCount
                    <=> IsPending(k)' \/ HasFinalResult(k)'
      <4>1. CASE k = id
        BY <1>1, <1>3, <1>4, <1>9, <3>1, <4>1
      <4>2. CASE k # id
        BY <1>1, <1>3, <1>5, <3>1, <3>2, <4>2 DEF SafeInv, EnoughReportsResolve
      <4> QED
        BY <4>1, <4>2
    <3> QED
      BY <3>2 DEF EnoughReportsResolve
  <2> QED
    BY <1>1, <1>5, <2>4, <2>5
       DEF SafeInv, ExpiredHaveResult, ExpiryIsTimely, InHeightOrder,
           NothingPendingAtExpiration, ExpiredArePassed
<1>10. CASE GetReportCount(id)' # requests[id].minCount
  <2>1. pending' = pending
    BY <1>8, <1>10
  <2>2. \A k : IsPending(k)' <=> IsPending(k)
    BY <2>1 DEF IsPending
  <2>3. PendingConsistent'
    <3>1. ASSUME NEW i \in 1 .. Len(pending)
          PROVE  /\ GetReportCount(pending[i])' >= requests[pending[i]].minCount
                 /\ ~HasFinalResult(pending[i])
      <4>1. /\ GetReportCount(pending[i]) >= requests[pending[i]].minCount
            /\ ~HasFinalResult(pending[i])
        BY DEF SafeInv, PendingConsistent
      <4>2. pending[i] \in DOMAIN requests
        BY <1>7
      <4>3. CASE pending[i] = id
        BY <1>3, <1>4, <2>1, <4>1, <4>3 DEF GetReportCount
      <4>4. CASE pending[i] # id
        BY <1>2, <2>1, <4>1, <4>2, <4>4 DEF GetReportCount
      <4> QED
        BY <4>3, <4>4
    <3> QED
      BY <1>1, <2>1, <3>1 DEF SafeInv, PendingConsistent, GetReportCount, HasFinalResult, HasResult
  <2>4. EnoughReportsResolve'
    <3>1. ASSUME NEW k \in DOMAIN requests', requests'[k].minCount > 0
          PROVE  GetReportCount(k)' >= requests'[k].minCount
                    <=> IsPending(k)' \/ HasFinalResult(k)'
      <4>1. GetReportCount(k) >= requests[k].minCount
               <=> IsPending(k) \/ HasFinalResult(k)
        BY <1>1, <3>1 DEF SafeInv, EnoughReportsResolve
      <4>2. CASE k = id
        BY <1>1, <1>3, <1>4, <1>5, <1>10, <2>2, <4>1, <4>2
      <4>3. CASE k # id
        BY <1>1, <1>3, <1>5, <2>2, <4>1, <4>3
      <4> QED
        BY <4>2, <4>3
    <3> QED
      BY <3>1 DEF EnoughReportsResolve
  <2> QED
    BY <1>1, <1>5, <2>1, <2>3, <2>4
       DEF SafeInv, ExpiredHaveResult, ExpiryIsTimely, InHeightOrder,
           NothingPendingAtExpiration, ExpiredArePassed
<1> QED
  BY <1>9, <1>10

(* Executing the head of the pending list gives it a final result; the rest *)
(* of the list is other requests, as no request is on it twice.             *)
LEMMA ResolveRequestSafe ==
  ASSUME IndInv, ResolveRequest
  PROVE  SafeInv'
<1> USE DEF IndInv
<1>0. PICK id : id = Head(pending)
  OBVIOUS
<1>1. /\ id \in DOMAIN requests /\ pending # << >> /\ pending' = Tail(pending)
      /\ UNCHANGED <<height, phase, requestCount, lastExpired, requests, reports>>
      /\ phase = "resolve"
  BY <1>0 DEF ResolveRequest
<1>2. PICK status \in FinalStatus : SaveResult(id, status)
  BY <1>0 DEF ResolveRequest
<1>3. pending \in Seq(DOMAIN requests)
  BY DEF TypeOK
<1>4. /\ Len(pending) \in Nat \ {0} /\ id = pending[1]
      /\ Len(pending') = Len(pending) - 1
      /\ \A i \in 1 .. Len(pending') : pending'[i] = pending[i + 1]
  BY <1>0, <1>1, <1>3, EmptySeq, HeadTailProperties
<1>5. /\ DOMAIN results' = DOMAIN results \cup {id} /\ results'[id].status = status
      /\ \A i \in DOMAIN results : i # id => results'[i] = results[i]
  BY <1>1, <1>2, SaveResultType DEF FinalStatus, Status
<1>6. HasFinalResult(id)' /\ \A k : k # id => (HasFinalResult(k)' <=> HasFinalResult(k))
  <2>1. HasFinalResult(id)'
    BY <1>2, <1>5 DEF HasFinalResult, HasResult
  <2>2. ASSUME NEW k, k # id PROVE HasFinalResult(k)' <=> HasFinalResult(k)
    BY <1>5, <2>2 DEF HasFinalResult, HasResult
  <2> QED
    BY <2>1, <2>2
<1>7. \A i \in 1 .. Len(pending') : i + 1 \in 1 .. Len(pending) /\ pending'[i] # id
  <2>1. \A i \in 1 .. Len(pending) : pending[i] = pending[1] => i = 1
    BY <1>4 DEF SafeInv, PendingConsistent
  <2> QED
    BY <1>4, <2>1
<1>8. \A k : k # id => (IsPending(k)' <=> IsPending(k))
  <2>1. ASSUME NEW k, k # id, NEW i \in 1 .. Len(pending), pending[i] = k
        PROVE  \E j \in 1 .. Len(pending') : pending'[j] = k
    <3>1. i # 1
      BY <1>4, <2>1
    <3>2. i - 1 \in 1 .. Len(pending') /\ (i - 1) + 1 = i
      BY <1>4, <3>1
    <3>3. pending'[i - 1] = pending[i]
      BY <1>4, <3>2
    <3> QED
      BY <2>1, <3>2, <3>3
  <2>2. ASSUME NEW k, NEW j \in 1 .. Len(pending'), pending'[j] = k
        PROVE  \E i \in 1 .. Len(pending) : pending[i] = k
    <3>1. j + 1 \in 1 .. Len(pending) /\ pending[j + 1] = k
      BY <1>4, <1>7, <2>2
    <3> QED
      BY <3>1
  <2> QED
    BY <2>1, <2>2 DEF IsPending
<1>9. PendingConsistent'
  <2>1. ASSUME NEW i \in 1 .. Len(pending')
        PROVE  (/\ GetReportCount(pending[i]) >= requests[pending[i]].minCount
                /\ ~HasFinalResult(pending[i]))'
    <3>1. /\ GetReportCount(pending[i + 1]) >= requests[pending[i + 1]].minCount
          /\ ~HasFinalResult(pending[i + 1])
      BY <1>7 DEF SafeInv, PendingConsistent
    <3>2. pending'[i] = pending[i + 1] /\ pending[i + 1] # id
      BY <1>4, <1>7
    <3> QED
      BY <1>1, <1>5, <3>1, <3>2 DEF GetReportCount, HasFinalResult, HasResult
  <2>2. ASSUME NEW i \in 1 .. Len(pending'), NEW j \in 1 .. Len(pending'),
               pending'[i] = pending'[j]
        PROVE  i = j
    <3>1. i + 1 = j + 1
      BY <1>4, <1>7, <2>2 DEF SafeInv, PendingConsistent
    <3> QED
      BY <1>4, <3>1
  <2> QED
    BY <2>1, <2>2 DEF PendingConsistent
<1>10. EnoughReportsResolve'
  <2>1. IsPending(id)
    BY <1>4 DEF IsPending
  <2>2. ASSUME NEW k \in DOMAIN requests, requests[k].minCount > 0
        PROVE  GetReportCount(k)' >= requests[k].minCount
                  <=> IsPending(k)' \/ HasFinalResult(k)'
    <3>1. GetReportCount(k)' = GetReportCount(k)
      BY <1>1 DEF GetReportCount
    <3>2. GetReportCount(k) >= requests[k].minCount <=> IsPending(k) \/ HasFinalResult(k)
      BY <2>2 DEF SafeInv, EnoughReportsResolve
    <3> QED
      BY <1>6, <1>8, <2>1, <3>1, <3>2
  <2> QED
    BY <1>1, <2>2 DEF EnoughReportsResolve
<1>11. ExpiredHaveResult' /\ ExpiredArePassed'
  BY <1>1, <1>5 DEF SafeInv, ExpiredHaveResult, ExpiredArePassed, HasResult, FinalStatus
<1> QED
  BY <1>1, <1>9, <1>10, <1>11
     DEF SafeInv, ExpiryIsTimely, InHeightOrder, NothingPendingAtExpiration

(* A request that expires below its minimum was not executed; one that      *)
(* expires with its reports is executed already, nothing being pending.     *)
LEMMA ExpireRequestSafe ==
  ASSUME IndInv, ExpireRequest
  PROVE  SafeInv'
<1> USE DEF IndInv
<1> DEFINE id == lastExpired + 1
<1>1. /\ id \in DOMAIN requests /\ lastExpired' = id /\ IsExpired(id)
      /\ UNCHANGED <<height, phase, requestCount, requests, reports, pending>>
      /\ phase = "expire"
  BY DEF ExpireRequest
<1>2. IF GetReportCount(id) < requests[id].minCount
      THEN SaveResult(id, "Expired")
      ELSE UNCHANGED results
  BY DEF ExpireRequest
<1>3. /\ lastExpired \in Nat /\ DOMAIN requests = 1 .. requestCount /\ requestCount \in Nat
      /\ height \in Nat
  BY BoundsAreNat DEF TypeOK
<1>4. 1 .. lastExpired' = (1 .. lastExpired) \cup {id}
  BY <1>1, <1>3
<1>5. pending = << >> /\ Len(pending) = 0 /\ \A k : ~IsPending(k) /\ ~IsPending(k)'
  BY <1>1, EmptySeq DEF SafeInv, NothingPendingAtExpiration, IsPending
<1>6. GetReportCount(id) \in Nat /\ requests[id].minCount \in Nat
  BY <1>1, ReportCountIsNat DEF TypeOK, Request
<1>7. \A k : GetReportCount(k)' = GetReportCount(k)
  BY <1>1 DEF GetReportCount
<1>8. ExpiryIsTimely'
  <2>1. requests[id].height + ExpirationBlockCount <= height
    BY <1>1 DEF IsExpired
  <2>2. ASSUME NEW k \in DOMAIN requests
        PROVE  /\ requests[k].height + ExpirationBlockCount < height => k <= id
               /\ k <= id => requests[k].height + ExpirationBlockCount <= height
    <3>1. /\ requests[k].height + ExpirationBlockCount < height => k <= lastExpired
          /\ k <= lastExpired => requests[k].height + ExpirationBlockCount <= height
      BY DEF SafeInv, ExpiryIsTimely
    <3>2. k \in Nat /\ (k <= id <=> k <= lastExpired \/ k = id)
      BY <1>3
    <3> QED
      BY <2>1, <3>1, <3>2
  <2> QED
    BY <1>1, <2>2 DEF ExpiryIsTimely
<1>9. CASE GetReportCount(id) < requests[id].minCount
  <2>1. ~HasFinalResult(id)
    BY <1>1, <1>6, <1>9 DEF SafeInv, EnoughReportsResolve
  <2>2. /\ DOMAIN results' = DOMAIN results \cup {id} /\ results'[id].status = "Expired"
        /\ \A i \in DOMAIN results : i # id => results'[i] = results[i]
    <3>1. SaveResult(id, "Expired")
      BY <1>2, <1>9
    <3> HIDE DEF id
    <3> QED
      BY <1>1, <3>1, SaveResultType DEF Status
  <2> HIDE DEF id
  <2>3. \A k : HasFinalResult(k)' <=> HasFinalResult(k)
    BY <2>1, <2>2 DEF HasFinalResult, HasResult, FinalStatus
  <2>4. PendingConsistent'
    BY <1>1, <1>5 DEF PendingConsistent
  <2>5. EnoughReportsResolve'
    BY <1>1, <1>5, <1>7, <2>3 DEF SafeInv, EnoughReportsResolve
  <2>6. ExpiredHaveResult'
    BY <1>1, <1>4, <2>2 DEF SafeInv, ExpiredHaveResult, HasResult
  <2>7. ExpiredArePassed'
    BY <1>1, <1>3, <2>2 DEF SafeInv, ExpiredArePassed, id, TypeOK
  <2> QED
    BY <1>1, <1>8, <2>4, <2>5, <2>6, <2>7
       DEF SafeInv, InHeightOrder, NothingPendingAtExpiration
<1>10. CASE ~(GetReportCount(id) < requests[id].minCount)
  <2>1. results' = results
    BY <1>2, <1>10
  <2> HIDE DEF id
  <2>2. requests[id].minCount > 0 => HasResult(id)
    BY <1>1, <1>5, <1>6, <1>10 DEF SafeInv, EnoughReportsResolve, HasFinalResult
  <2>3. \A k : HasFinalResult(k)' = HasFinalResult(k) /\ HasResult(k)' = HasResult(k)
    BY <2>1 DEF HasFinalResult, HasResult
  <2>4. PendingConsistent'
    BY <1>1, <1>5 DEF PendingConsistent
  <2>5. EnoughReportsResolve'
    BY <1>1, <1>5, <1>7, <2>3 DEF SafeInv, EnoughReportsResolve
  <2>6. ExpiredHaveResult'
    BY <1>1, <1>4, <2>2, <2>3 DEF SafeInv, ExpiredHaveResult
  <2>7. ExpiredArePassed'
    BY <1>1, <1>3, <2>1 DEF SafeInv, ExpiredArePassed, id, TypeOK
  <2> QED
    BY <1>1, <1>8, <2>4, <2>5, <2>6, <2>7
       DEF SafeInv, InHeightOrder, NothingPendingAtExpiration
<1> QED
  BY <1>9, <1>10

(* The loop stops before a request that is not due; by the height order     *)
(* none of the later ones is due either.                                    *)
LEMMA CommitSafe ==
  ASSUME IndInv, Commit
  PROVE  SafeInv'
<1> USE DEF IndInv
<1>1. /\ UNCHANGED <<requestCount, lastExpired, requests, reports, pending, results>>
      /\ phase' = "deliver"
      /\ height' = IF height < MaxHeight THEN height + 1 ELSE height
  BY DEF Commit
<1>2. /\ lastExpired \in 0 .. requestCount /\ requestCount \in Nat
      /\ DOMAIN requests = 1 .. requestCount
      /\ height \in Nat /\ height' \in Nat /\ height' <= height + 1 /\ height <= height'
  BY <1>1, BoundsAreNat DEF TypeOK
<1>3. \A k \in DOMAIN requests : requests[k].height \in Nat
  BY DEF TypeOK, Request
<1>4. ASSUME NEW k \in DOMAIN requests, lastExpired < k
      PROVE  requests[k].height + ExpirationBlockCount > height
  <2>1. lastExpired + 1 \in DOMAIN requests /\ lastExpired + 1 <= k /\ lastExpired < requestCount
    BY <1>2, <1>4
  <2>2. ~IsExpired(lastExpired + 1)
    BY <2>1 DEF Commit
  <2>3. requests[lastExpired + 1].height <= requests[k].height
    BY <2>1 DEF SafeInv, InHeightOrder
  <2>4. requests[lastExpired + 1].height \in Nat /\ requests[k].height \in Nat
    BY <1>3, <2>1
  <2> QED
    BY <1>2, <2>2, <2>3, <2>4, ParamsValid DEF IsExpired
<1>5. ASSUME NEW k \in DOMAIN requests
      PROVE  /\ requests[k].height + ExpirationBlockCount < height' => k <= lastExpired
             /\ k <= lastExpired => requests[k].height + ExpirationBlockCount <= height'
  <2>1. k \in Nat /\ requests[k].height \in Nat /\ lastExpired \in Nat
    BY <1>2, <1>3
  <2>2. k <= lastExpired => requests[k].height + ExpirationBlockCount <= height
    BY DEF SafeInv, ExpiryIsTimely
  <2>3. lastExpired < k => requests[k].height + ExpirationBlockCount > height
    BY <1>4
  <2> QED
    BY <1>2, <2>1, <2>2, <2>3, ParamsValid
<1>6. ExpiryIsTimely'
  BY <1>1, <1>5 DEF ExpiryIsTimely
<1>7. InHeightOrder'
  BY <1>1, <1>2, <1>3 DEF SafeInv, InHeightOrder
<1>8. PendingConsistent' /\ EnoughReportsResolve'
  BY <1>1 DEF SafeInv, PendingConsistent, EnoughReportsResolve, IsPending,
              HasFinalResult, HasResult, GetReportCount
<1>9. ExpiredHaveResult' /\ NothingPendingAtExpiration' /\ ExpiredArePassed'
  BY <1>1 DEF SafeInv, ExpiredHaveResult, NothingPendingAtExpiration, ExpiredArePassed, HasResult
<1> QED
  BY <1>6, <1>7, <1>8, <1>9 DEF SafeInv

LEMMA NextSafe == IndInv /\ [Next]_vars => SafeInv'
<1> SUFFICES ASSUME IndInv, [Next]_vars PROVE SafeInv'
  OBVIOUS
<1>1. CASE RequestData \/ OnRecvPacket
  <2>1. PICK askCount \in 0 .. MaxAskCount, minCount \in 0 .. MaxMinCount, ibc \in BOOLEAN :
          PrepareRequest(askCount, minCount, ibc)
    BY <1>1 DEF RequestData, OnRecvPacket
  <2>2. askCount \in Nat /\ minCount \in Nat
    BY ParamsValid, BoundsAreNat
  <2> QED
    BY <2>1, <2>2, PrepareRequestSafe
<1>2. ASSUME NEW id \in RequestIDs, NEW val \in Validators,
             NEW addr \in Validators \cup Accounts, NEW eids \in ExternalIDSets,
             ReportData(id, val, addr, eids)
      PROVE  SafeInv'
  BY <1>2, ReportDataSafe
<1>3. ASSUME NEW val \in Validators, NEW addr \in Accounts,
             AddReporter(val, addr) \/ RemoveReporter(val, addr)
      PROVE  SafeInv'
  BY <1>3, OtherStepSafe DEF IndInv, AddReporter, RemoveReporter, txVars
<1>4. ASSUME NEW v \in Validators, StakingChange(v)
      PROVE  SafeInv'
  BY <1>4, OtherStepSafe DEF IndInv, StakingChange, txVars
<1>5. CASE EndBlock \/ ClearPendingList
  BY <1>5, OtherStepSafe DEF IndInv, EndBlock, ClearPendingList
<1>6. CASE ResolveRequest
  BY <1>6, ResolveRequestSafe
<1>7. CASE ExpireRequest
  BY <1>7, ExpireRequestSafe
<1>8. CASE Commit
  BY <1>8, CommitSafe
<1>9. CASE UNCHANGED vars
  BY <1>9, OtherStepSafe DEF IndInv, vars
<1> QED
  BY <1>1, <1>2, <1>3, <1>4, <1>5, <1>6, <1>7, <1>8, <1>9
     DEF Next, DeliverTx, HandleEndBlock

LEMMA Inductive == Spec => []IndInv
<1>1. Init => IndInv
  BY InitType, InitSafe DEF IndInv
<1>2. IndInv /\ [Next]_vars => IndInv'
  BY NextType, NextSafe DEF IndInv
<1> QED
  BY <1>1, <1>2, PTL DEF Spec

(* The pending list never holds a request twice, nor one without its        *)
(* reports, nor one that the end blocker executed already: the claim in     *)
(* handleMsgReportData that a request is added "at most one time".          *)
THEOREM PendingAtMostOnce == Spec => []PendingConsistent
  BY Inductive, PTL DEF IndInv, SafeInv

(* handleMsgReportData and handleEndBlock together: a request is waiting to *)
(* be executed or executed exactly if it has its reports.                   *)
THEOREM ReportsResolve == Spec => []EnoughReportsResolve
  BY Inductive, PTL DEF IndInv, SafeInv

(* ProcessExpiredRequests leaves every request it passes with a result, if  *)
(* the minimum count is positive.                                           *)
THEOREM PassedHaveResult == Spec => []ExpiredHaveResult
  BY Inductive, PTL DEF IndInv, SafeInv

(* ProcessExpiredRequests passes a request in the end blocker of its        *)
(* expiration height, neither earlier nor later.                            *)
THEOREM ExpiryTimely == Spec => []ExpiryIsTimely
  BY Inductive, PTL DEF IndInv, SafeInv

(* SaveResult never replaces an executed result, and replaces an EXPIRED    *)
(* one only by an executed one.                                             *)
THEOREM FinalResultsAreStable == Spec => FinalResultStable
<1>1. IndInv /\ [Next]_vars => ResultReplacedOnlyByExecution
  <2> SUFFICES ASSUME IndInv, [Next]_vars PROVE ResultReplacedOnlyByExecution
    OBVIOUS
  <2> USE DEF ResultReplacedOnlyByExecution
  <2>1. CASE ResolveRequest
    <3> DEFINE id == Head(pending)
    <3>1. id \in DOMAIN requests /\ pending # << >>
      BY <2>1 DEF ResolveRequest
    <3>2. PICK status \in FinalStatus : SaveResult(id, status)
      BY <2>1 DEF ResolveRequest
    <3>3. Len(pending) \in Nat \ {0} /\ id = pending[1]
      BY <3>1, EmptySeq DEF IndInv, TypeOK
    <3>4. ~HasFinalResult(id)
      BY <3>3 DEF IndInv, SafeInv, PendingConsistent
    <3> HIDE DEF id
    <3>5. /\ DOMAIN results' = DOMAIN results \cup {id} /\ results'[id].status = status
          /\ \A i \in DOMAIN results : i # id => results'[i] = results[i]
      BY <3>1, <3>2, SaveResultType DEF IndInv, FinalStatus, Status
    <3>6. id \in DOMAIN results => results[id].status = "Expired"
      BY <3>4 DEF IndInv, TypeOK, Result, Status, FinalStatus, HasFinalResult, HasResult
    <3> QED
      BY <3>2, <3>5, <3>6
  <2>2. CASE ExpireRequest
    <3> DEFINE id == lastExpired + 1
    <3>1. id \in DOMAIN requests /\ (\/ SaveResult(id, "Expired") /\ GetReportCount(id) < requests[id].minCount
                                    \/ results' = results)
      BY <2>2 DEF ExpireRequest
    <3>2. CASE results' = results
      BY <3>2
    <3>3. CASE SaveResult(id, "Expired") /\ GetReportCount(id) < requests[id].minCount
      <4>1. GetReportCount(id) \in Nat /\ requests[id].minCount \in Nat
        BY <3>1, ReportCountIsNat DEF IndInv, TypeOK, Request
      <4>2. ~HasFinalResult(id)
        BY <3>1, <3>3, <4>1 DEF IndInv, SafeInv, EnoughReportsResolve
      <4>3. ~(id <= lastExpired)
        BY BoundsAreNat DEF IndInv, TypeOK
      <4>4. id \notin DOMAIN results
        BY <4>2, <4>3 DEF IndInv, SafeInv, ExpiredArePassed, TypeOK, Result, Status,
                                FinalStatus, HasFinalResult, HasResult
      <4>5. /\ DOMAIN results' = DOMAIN results \cup {id}
            /\ \A i \in DOMAIN results : i # id => results'[i] = results[i]
        <5> HIDE DEF id
        <5> QED
          BY <3>1, <3>3, SaveResultType DEF IndInv, Status
      <4> QED
        BY <4>4, <4>5
    <3> QED
      BY <3>1, <3>2, <3>3
  <2>3. CASE results' = results
    BY <2>3
  <2> QED
    BY <2>1, <2>2, <2>3
       DEF Next, DeliverTx, HandleEndBlock, RequestData, OnRecvPacket, PrepareRequest,
           ReportData, AddReporter, RemoveReporter, StakingChange, EndBlock,
           ClearPendingList, Commit, vars, txVars
<1> QED
  BY <1>1, Inductive, PTL DEF Spec, FinalResultStable

-----------------------------------------------------------------------------
(* What becomes of the requests. *)

(* One request changes its stage, the others keep theirs. *)
LEMMA OneMoves ==
  ASSUME NEW id \in RequestIDs, NEW from, NEW to,
         StageOf(id) \in from,
         StageOf(id)' = to,
         \A k \in RequestIDs : k # id => StageOf(k)' = StageOf(k)
  PROVE  Lifecycle!Moves(id, from, to)
<1>1. Stage' = [k \in RequestIDs |-> StageOf(k)']
  BY DEF Stage
<1>2. Stage = [k \in RequestIDs |-> StageOf(k)]
  BY DEF Stage
<1>3. \A k \in RequestIDs : StageOf(k)' = IF k = id THEN to ELSE StageOf(k)
  OBVIOUS
<1>4. Stage' = [Stage EXCEPT ![id] = to]
  BY <1>1, <1>2, <1>3
<1> QED
  BY <1>2, <1>4 DEF Lifecycle!Moves

(* What the stage of a request depends on. *)
LEMMA SameStage ==
  ASSUME NEW k,
         k \in DOMAIN requests' <=> k \in DOMAIN requests,
         HasFinalResult(k)' <=> HasFinalResult(k),
         HasResult(k)' <=> HasResult(k),
         IsPending(k)' <=> IsPending(k),
         k <= lastExpired' <=> k <= lastExpired
  PROVE  StageOf(k)' = StageOf(k)
  BY DEF StageOf

LEMMA StagesUnchanged ==
  ASSUME \A k \in RequestIDs : StageOf(k)' = StageOf(k)
  PROVE  Stage' = Stage
  BY DEF Stage

LEMMA InitLifecycle == Init => Lifecycle!Init
<1> SUFFICES ASSUME Init PROVE Lifecycle!Init
  OBVIOUS
<1>1. \A k \in RequestIDs : StageOf(k) = "none"
  BY DEF Init, StageOf
<1> QED
  BY <1>1 DEF Lifecycle!Init, Lifecycle!IDs, Stage, RequestIDs

(* A new request is open, and all the ones before it were made before it. *)
LEMMA PrepareRequestAsks ==
  ASSUME IndInv, NEW askCount \in Nat, NEW minCount \in Nat, NEW ibc \in BOOLEAN,
         PrepareRequest(askCount, minCount, ibc)
  PROVE  Lifecycle!Next
<1> USE DEF IndInv
<1>1. PICK id : id = requestCount + 1
  OBVIOUS
<1>2. /\ requestCount \in Nat /\ DOMAIN requests = 1 .. requestCount
      /\ lastExpired \in 0 .. requestCount /\ requestCount < MaxRequests
      /\ DOMAIN results \subseteq DOMAIN requests
  BY BoundsAreNat DEF TypeOK, PrepareRequest
<1>3. id \in RequestIDs /\ id \notin DOMAIN requests /\ ~(id <= lastExpired)
  BY <1>1, <1>2, BoundsAreNat DEF RequestIDs
<1>4. /\ DOMAIN requests' = DOMAIN requests \cup {id}
      /\ UNCHANGED <<lastExpired, pending, results>>
  BY <1>1 DEF PrepareRequest, SetKey, txVars
<1>5. \A i \in 1 .. Len(pending) : pending[i] \in DOMAIN requests
  BY ElementOfSeq DEF TypeOK
<1>6. StageOf(id) = "none" /\ StageOf(id)' = "open"
  BY <1>2, <1>3, <1>4, <1>5 DEF StageOf, HasFinalResult, HasResult, IsPending
<1>7. \A k \in RequestIDs : k # id => StageOf(k)' = StageOf(k)
  BY <1>4 DEF StageOf, HasFinalResult, HasResult, IsPending
<1>8. \A j \in RequestIDs : j < id => StageOf(j) # "none"
  BY <1>1, <1>2 DEF StageOf, RequestIDs
<1>9. Lifecycle!Ask(id)
  <2>1. Lifecycle!Moves(id, {"none"}, "open")
    BY <1>3, <1>6, <1>7, OneMoves
  <2> QED
    BY <1>8, <2>1 DEF Lifecycle!Ask, Lifecycle!IDs, Stage, RequestIDs
<1> QED
  BY <1>3, <1>9 DEF Lifecycle!Next, Lifecycle!IDs, RequestIDs

(* The report that completes a request finds it open or expired: it cannot  *)
(* be unanswered, since its minimum count is positive.                      *)
LEMMA ReportDataCompletes ==
  ASSUME IndInv, NEW id \in RequestIDs, NEW val, NEW addr, NEW eids,
         ReportData(id, val, addr, eids)
  PROVE  Lifecycle!Next \/ Stage' = Stage
<1> USE DEF IndInv
<1>1. /\ id \in DOMAIN requests /\ val \notin DOMAIN reports[id]
      /\ UNCHANGED <<lastExpired, requests, results>>
  BY DEF ReportData, AddReport, txVars
<1>2. pending \in Seq(DOMAIN requests)
  BY DEF TypeOK
<1>3. CASE pending' = pending
  <2>1. \A k \in RequestIDs : StageOf(k)' = StageOf(k)
    BY <1>1, <1>3 DEF StageOf, HasFinalResult, HasResult, IsPending
  <2> QED
    BY <2>1, StagesUnchanged
<1>4. CASE pending' = Append(pending, id) /\ Cardinality(DOMAIN reports'[id]) = requests[id].minCount
  <2>1. DOMAIN reports'[id] = DOMAIN reports[id] \cup {val}
    BY <1>1 DEF ReportData, AddReport, SetKey, TypeOK
  <2>2. GetReportCount(id) \in Nat /\ GetReportCount(id) + 1 = requests[id].minCount
    BY <1>1, <1>4, <2>1, ReportCountIsNat, FS_AddElement DEF GetReportCount
  <2>3. ~HasFinalResult(id) /\ ~IsPending(id) /\ requests[id].minCount > 0
    BY <1>1, <2>2 DEF SafeInv, EnoughReportsResolve
  <2>4. id <= lastExpired => HasResult(id)
    BY <2>3 DEF SafeInv, ExpiredHaveResult, RequestIDs, TypeOK
  <2>5. StageOf(id) \in {"open", "expired"}
    BY <1>1, <2>3, <2>4 DEF StageOf
  <2>6. /\ Len(pending) \in Nat /\ Len(pending') = Len(pending) + 1
        /\ \A i \in 1 .. Len(pending) : pending'[i] = pending[i]
        /\ pending'[Len(pending) + 1] = id
    BY <1>1, <1>2, <1>4, AppendProperties, LenProperties
  <2>7. IsPending(id)' /\ \A k : k # id => (IsPending(k)' <=> IsPending(k))
    BY <2>6 DEF IsPending
  <2>8. StageOf(id)' = "ready"
    BY <1>1, <2>3, <2>7 DEF StageOf, HasFinalResult, HasResult
  <2>9. ASSUME NEW k \in RequestIDs, k # id PROVE StageOf(k)' = StageOf(k)
    BY <1>1, <2>7, <2>9 DEF StageOf, HasFinalResult, HasResult
  <2>10. Lifecycle!Moves(id, {"open", "expired"}, "ready")
    BY <2>5, <2>8, <2>9, OneMoves
  <2> QED
    BY <2>10 DEF Lifecycle!Next, Lifecycle!Complete, Lifecycle!IDs, RequestIDs
<1> QED
  BY <1>3, <1>4 DEF ReportData

(* The head of the pending list was ready; it is resolved and leaves it. *)
LEMMA ResolveRequestResolves ==
  ASSUME IndInv, ResolveRequest
  PROVE  Lifecycle!Next
<1> USE DEF IndInv
<1>1. PICK id : id = Head(pending)
  OBVIOUS
<1>2. /\ id \in DOMAIN requests /\ pending # << >> /\ pending' = Tail(pending)
      /\ UNCHANGED <<lastExpired, requests>>
  BY <1>1 DEF ResolveRequest
<1>3. PICK status \in FinalStatus : SaveResult(id, status)
  BY <1>1 DEF ResolveRequest
<1>4. pending \in Seq(DOMAIN requests) /\ id \in RequestIDs
  BY <1>2, BoundsAreNat DEF TypeOK, RequestIDs
<1>5. /\ Len(pending) \in Nat \ {0} /\ id = pending[1]
      /\ Len(pending') = Len(pending) - 1
      /\ \A i \in 1 .. Len(pending') : pending'[i] = pending[i + 1]
  BY <1>1, <1>2, <1>4, EmptySeq, HeadTailProperties
<1>6. /\ DOMAIN results' = DOMAIN results \cup {id} /\ results'[id].status = status
      /\ \A i \in DOMAIN results : i # id => results'[i] = results[i]
  BY <1>2, <1>3, SaveResultType DEF FinalStatus, Status
<1>7. StageOf(id) = "ready"
  <2>1. IsPending(id) /\ ~HasFinalResult(id)
    BY <1>5 DEF IsPending, SafeInv, PendingConsistent
  <2> QED
    BY <1>2, <2>1 DEF StageOf
<1>8. StageOf(id)' = "resolved"
  BY <1>2, <1>3, <1>6 DEF StageOf, HasFinalResult, HasResult
<1>9. ASSUME NEW k \in RequestIDs, k # id PROVE StageOf(k)' = StageOf(k)
  <2>1. ASSUME NEW i \in 1 .. Len(pending), pending[i] = k
        PROVE  \E j \in 1 .. Len(pending') : pending'[j] = k
    <3>1. i # 1
      BY <1>5, <1>9, <2>1
    <3>2. i - 1 \in 1 .. Len(pending') /\ (i - 1) + 1 = i
      BY <1>5, <3>1
    <3> QED
      BY <1>5, <2>1, <3>2
  <2>2. ASSUME NEW j \in 1 .. Len(pending'), pending'[j] = k
        PROVE  \E i \in 1 .. Len(pending) : pending[i] = k
    <3>1. j + 1 \in 1 .. Len(pending) /\ pending[j + 1] = k
      BY <1>5, <2>2
    <3> QED
      BY <3>1
  <2>3. IsPending(k)' <=> IsPending(k)
    BY <2>1, <2>2 DEF IsPending
  <2>4. /\ HasResult(k)' <=> HasResult(k)
        /\ HasFinalResult(k)' <=> HasFinalResult(k)
    BY <1>6, <1>9 DEF HasFinalResult, HasResult
  <2> QED
    BY <1>2, <2>3, <2>4, SameStage
<1>10. Lifecycle!Moves(id, {"ready"}, "resolved")
  BY <1>4, <1>7, <1>8, <1>9, OneMoves
<1> QED
  BY <1>4, <1>10 DEF Lifecycle!Next, Lifecycle!Resolve, Lifecycle!IDs, RequestIDs

(* The request the expiration loop passes is open and expires, or it is     *)
(* resolved and stays so; all requests before it are no longer open.        *)
LEMMA ExpireRequestExpires ==
  ASSUME IndInv, ExpireRequest
  PROVE  Lifecycle!Next \/ Stage' = Stage
<1> USE DEF IndInv
<1>1. PICK id : id = lastExpired + 1
  OBVIOUS
<1>2. /\ id \in DOMAIN requests /\ lastExpired' = id
      /\ UNCHANGED <<requests, reports, pending>>
      /\ phase = "expire"
  BY <1>1 DEF ExpireRequest
<1>3. IF GetReportCount(id) < requests[id].minCount
      THEN SaveResult(id, "Expired")
      ELSE UNCHANGED results
  BY <1>1 DEF ExpireRequest
<1>4. /\ lastExpired \in Nat /\ id \in RequestIDs /\ ~(id <= lastExpired) /\ id <= lastExpired'
  BY <1>1, <1>2, BoundsAreNat DEF TypeOK, RequestIDs
<1>5. \A k : ~IsPending(k) /\ ~IsPending(k)'
  BY <1>2, EmptySeq DEF SafeInv, NothingPendingAtExpiration, IsPending
<1>6. HasResult(id) => HasFinalResult(id)
  BY <1>4 DEF SafeInv, ExpiredArePassed, HasResult, HasFinalResult, TypeOK, Result,
              Status, FinalStatus
<1>7. GetReportCount(id) \in Nat /\ requests[id].minCount \in Nat
  BY <1>2, ReportCountIsNat DEF TypeOK, Request
<1>8. \A k \in RequestIDs : k # id => (k <= lastExpired' <=> k <= lastExpired)
  BY <1>1, <1>2, <1>4 DEF RequestIDs
<1>9. \A j \in RequestIDs : j < id => StageOf(j) # "open"
  BY <1>1, <1>4 DEF StageOf, RequestIDs
<1>10. ASSUME NEW to \in {"expired", "unanswered"},
              Lifecycle!Moves(id, {"open"}, to)
       PROVE  Lifecycle!Next
  <2>1. Lifecycle!Expire(id)
    BY <1>9, <1>10 DEF Lifecycle!Expire, Lifecycle!IDs, Stage, RequestIDs
  <2> QED
    BY <1>4, <2>1 DEF Lifecycle!Next, Lifecycle!IDs, RequestIDs
<1>11. CASE GetReportCount(id) < requests[id].minCount
  <2>1. /\ DOMAIN results' = DOMAIN results \cup {id} /\ results'[id].status = "Expired"
        /\ \A i \in DOMAIN results : i # id => results'[i] = results[i]
    BY <1>2, <1>3, <1>11, SaveResultType DEF Status
  <2>2. ~HasFinalResult(id) /\ ~HasResult(id)
    BY <1>2, <1>6, <1>7, <1>11 DEF SafeInv, EnoughReportsResolve
  <2>3. StageOf(id) = "open" /\ StageOf(id)' = "expired"
    BY <1>2, <1>4, <1>5, <2>1, <2>2 DEF StageOf, HasFinalResult, HasResult, FinalStatus
  <2>4. ASSUME NEW k \in RequestIDs, k # id PROVE StageOf(k)' = StageOf(k)
    <3>1. /\ HasResult(k)' <=> HasResult(k)
          /\ HasFinalResult(k)' <=> HasFinalResult(k)
      BY <2>1, <2>4 DEF HasFinalResult, HasResult
    <3> QED
      BY <1>2, <1>5, <1>8, <2>4, <3>1, SameStage
  <2> QED
    BY <1>4, <1>10, <2>3, <2>4, OneMoves
<1>12. CASE ~(GetReportCount(id) < requests[id].minCount)
  <2>1. results' = results
    BY <1>3, <1>12
  <2>2. \A k : /\ HasResult(k)' <=> HasResult(k)
               /\ HasFinalResult(k)' <=> HasFinalResult(k)
    BY <2>1 DEF HasFinalResult, HasResult
  <2>3. ASSUME NEW k \in RequestIDs, k # id PROVE StageOf(k)' = StageOf(k)
    BY <1>2, <1>5, <1>8, <2>2, <2>3, SameStage
  <2>4. CASE HasFinalResult(id)
    <3>1. StageOf(id)' = StageOf(id)
      BY <1>2, <2>2, <2>4 DEF StageOf
    <3> QED
      BY <2>3, <3>1, StagesUnchanged
  <2>5. CASE ~HasFinalResult(id)
    <3>1. StageOf(id) = "open" /\ StageOf(id)' = "unanswered"
      BY <1>2, <1>4, <1>5, <1>6, <2>2, <2>5 DEF StageOf
    <3> QED
      BY <1>4, <1>10, <2>3, <3>1, OneMoves
  <2> QED
    BY <2>4, <2>5
<1> QED
  BY <1>11, <1>12

LEMMA StepLifecycle == IndInv /\ [Next]_vars => [Lifecycle!Next]_Stage
<1> SUFFICES ASSUME IndInv, [Next]_vars PROVE [Lifecycle!Next]_Stage
  OBVIOUS
<1>1. CASE RequestData \/ OnRecvPacket
  <2>1. PICK askCount \in 0 .. MaxAskCount, minCount \in 0 .. MaxMinCount, ibc \in BOOLEAN :
          PrepareRequest(askCount, minCount, ibc)
    BY <1>1 DEF RequestData, OnRecvPacket
  <2>2. askCount \in Nat /\ minCount \in Nat
    BY ParamsValid, BoundsAreNat
  <2> QED
    BY <2>1, <2>2, PrepareRequestAsks
<1>2. ASSUME NEW id \in RequestIDs, NEW val \in Validators,
             NEW addr \in Validators \cup Accounts, NEW eids \in ExternalIDSets,
             ReportData(id, val, addr, eids)
      PROVE  [Lifecycle!Next]_Stage
  BY <1>2, ReportDataCompletes
<1>3. CASE ResolveRequest
  BY <1>3, ResolveRequestResolves
<1>4. CASE ExpireRequest
  BY <1>4, ExpireRequestExpires
<1>5. CASE UNCHANGED <<requests, results, pending, lastExpired>>
  <2>1. \A k \in RequestIDs : StageOf(k)' = StageOf(k)
    BY <1>5 DEF StageOf, HasFinalResult, HasResult, IsPending
  <2> QED
    BY <2>1, StagesUnchanged
<1> QED
  BY <1>1, <1>2, <1>3, <1>4, <1>5
     DEF Next, DeliverTx, HandleEndBlock, AddReporter, RemoveReporter, StakingChange,
         EndBlock, ClearPendingList, Commit, vars, txVars

(* The oracle module implements the abstract lifecycle (without fairness):  *)
(* requests numbered in order, executed at most once, expired in order.     *)
THEOREM LifecycleRefinement == Spec => Lifecycle!SafeSpec
  BY InitLifecycle, StepLifecycle, Inductive, PTL DEF Spec, Lifecycle!SafeSpec

-----------------------------------------------------------------------------
(* What each action does, in the terms the properties use. *)

(* A request is made: nothing is known of its ID before. *)
LEMMA PrepareRequestEffect ==
  ASSUME IndInv, RequestData \/ OnRecvPacket
  PROVE  \E new :
           /\ new = requestCount + 1 /\ new \notin DOMAIN requests
           /\ DOMAIN requests' = DOMAIN requests \cup {new}
           /\ DOMAIN reports'[new] = {}
           /\ \A id \in DOMAIN requests :
                requests'[id] = requests[id] /\ reports'[id] = reports[id]
           /\ UNCHANGED <<phase, lastExpired, results, pending, packets, missed, staking>>
<1>1. PICK askCount \in 0 .. MaxAskCount, minCount \in 0 .. MaxMinCount, ibc \in BOOLEAN :
        PrepareRequest(askCount, minCount, ibc)
  BY DEF RequestData, OnRecvPacket
<1>2. PICK new : new = requestCount + 1
  OBVIOUS
<1>3. PICK vals \in GetRandomValidators(askCount), asked \in RawRequestLists :
      /\ requests' = SetKey(requests, new,
             [vals |-> vals, minCount |-> minCount, height |-> height,
              ibc |-> ibc, rawIDs |-> CollectRawRequests(asked)])
      /\ reports' = SetKey(reports, new, [v \in {} |-> {}])
  BY <1>1, <1>2 DEF PrepareRequest
<1>4. /\ requestCount \in Nat /\ DOMAIN requests = 1 .. requestCount
      /\ DOMAIN reports = DOMAIN requests
  BY BoundsAreNat DEF IndInv, TypeOK
<1>5. new \notin DOMAIN requests
  BY <1>2, <1>4
<1>6. UNCHANGED <<phase, lastExpired, results, pending, packets, missed, staking>>
  BY <1>1 DEF PrepareRequest, txVars
<1>7. /\ DOMAIN requests' = DOMAIN requests \cup {new}
      /\ \A id \in DOMAIN requests : requests'[id] = requests[id]
  BY <1>3, <1>5 DEF SetKey
<1>8. /\ DOMAIN reports'[new] = {}
      /\ \A id \in DOMAIN requests : reports'[id] = reports[id]
  BY <1>3, <1>4, <1>5 DEF SetKey
<1> QED
  BY <1>2, <1>5, <1>6, <1>7, <1>8

(* A report is added to one request. *)
LEMMA ReportDataEffect ==
  ASSUME IndInv, NEW id \in RequestIDs, NEW val, NEW addr, NEW eids,
         ReportData(id, val, addr, eids)
  PROVE  /\ id \in DOMAIN requests /\ val \notin DOMAIN reports[id]
         /\ ValidRawReports(requests[id].rawIDs, eids)
         /\ DOMAIN reports'[id] = DOMAIN reports[id] \cup {val}
         /\ reports'[id][val].inBeforeResolve = ~HasResult(id)
         /\ \A v \in DOMAIN reports[id] : reports'[id][v] = reports[id][v]
         /\ \A k \in DOMAIN requests : k # id => reports'[k] = reports[k]
         /\ UNCHANGED <<phase, lastExpired, requests, results, packets, missed, staking>>
         /\ pending' = pending \/ pending' = Append(pending, id)
<1> DEFINE new == [inBeforeResolve |-> ~HasResult(id)]
<1>1. /\ id \in DOMAIN requests /\ val \notin DOMAIN reports[id]
      /\ ValidRawReports(requests[id].rawIDs, eids)
      /\ reports' = [reports EXCEPT ![id] = SetKey(reports[id], val, new)]
      /\ UNCHANGED <<phase, lastExpired, requests, results, packets, missed, staking>>
      /\ pending' = pending \/ pending' = Append(pending, id)
  BY DEF ReportData, AddReport, txVars
<1>2. new.inBeforeResolve = ~HasResult(id)
  BY Zenon
<1> HIDE DEF new
<1>3. DOMAIN reports = DOMAIN requests
  BY DEF IndInv, TypeOK
<1>4. /\ reports'[id] = SetKey(reports[id], val, new)
      /\ \A k \in DOMAIN requests : k # id => reports'[k] = reports[k]
  BY <1>1, <1>3
<1>5. /\ DOMAIN reports'[id] = DOMAIN reports[id] \cup {val}
      /\ reports'[id][val] = new
      /\ \A v \in DOMAIN reports[id] : reports'[id][v] = reports[id][v]
  BY <1>1, <1>4 DEF SetKey
<1> QED
  BY <1>1, <1>2, <1>4, <1>5, Zenon

(* The head of the pending list is executed: it has its reports and was not *)
(* executed before.                                                         *)
LEMMA ResolveRequestEffect ==
  ASSUME IndInv, ResolveRequest
  PROVE  \E id \in DOMAIN requests, status \in FinalStatus :
           /\ id = pending[1] /\ 1 \in 1 .. Len(pending)
           /\ ~HasFinalResult(id)
           /\ GetReportCount(id) >= requests[id].minCount
           /\ DOMAIN results' = DOMAIN results \cup {id}
           /\ results'[id].status = status
           /\ results'[id].ansCount = GetReportCount(id)
           /\ \A k \in DOMAIN results : k # id => results'[k] = results[k]
           /\ packets' = packets \/ packets' = Append(packets, [id |-> id, status |-> status])
           /\ pending' = Tail(pending) /\ pending # << >>
           /\ UNCHANGED <<phase, lastExpired, requests, reports, missed, staking>>
<1>0. PICK id : id = Head(pending)
  OBVIOUS
<1>1. /\ id \in DOMAIN requests /\ pending # << >> /\ pending' = Tail(pending)
      /\ UNCHANGED <<phase, lastExpired, requests, reports, missed, staking>>
  BY <1>0 DEF ResolveRequest
<1>2. PICK status \in FinalStatus : SaveResult(id, status) /\ Respond(id, status)
  BY <1>0 DEF ResolveRequest
<1>3. id = pending[1] /\ 1 \in 1 .. Len(pending)
  BY <1>0, <1>1, EmptySeq DEF IndInv, TypeOK
<1>4. ~HasFinalResult(id) /\ GetReportCount(id) >= requests[id].minCount
  BY <1>3 DEF IndInv, SafeInv, PendingConsistent
<1>5. /\ DOMAIN results' = DOMAIN results \cup {id}
      /\ results'[id].status = status
      /\ \A k \in DOMAIN results : k # id => results'[k] = results[k]
  BY <1>1, <1>2, SaveResultType DEF IndInv, FinalStatus, Status
<1>6. results'[id].ansCount = GetReportCount(id)
  BY <1>2 DEF SaveResult, SetKey
<1>7. packets' = packets \/ packets' = Append(packets, [id |-> id, status |-> status])
  BY <1>2 DEF Respond, SendOracleResponse
<1> QED
  BY <1>1, <1>2, <1>3, <1>4, <1>5, <1>6, <1>7

(* The next request expires: it gets a result only if it has none. *)
LEMMA ExpireRequestEffect ==
  ASSUME IndInv, ExpireRequest
  PROVE  \E id \in DOMAIN requests :
           /\ id = lastExpired + 1 /\ lastExpired' = id
           /\ UNCHANGED <<phase, requests, reports, pending>>
           /\ phase = "expire"
           /\ UpdateReportInfos(id)
           /\ \/ UNCHANGED <<results, packets>>
              \/ /\ id \notin DOMAIN results
                 /\ GetReportCount(id) < requests[id].minCount
                 /\ DOMAIN results' = DOMAIN results \cup {id}
                 /\ results'[id].status = "Expired"
                 /\ results'[id].ansCount = GetReportCount(id)
                 /\ \A k \in DOMAIN results : results'[k] = results[k]
                 /\ \/ packets' = packets
                    \/ packets' = Append(packets, [id |-> id, status |-> "Expired"])
<1>0. PICK id : id = lastExpired + 1
  OBVIOUS
<1>1. /\ id \in DOMAIN requests /\ lastExpired' = id /\ UpdateReportInfos(id)
      /\ UNCHANGED <<phase, requests, reports, pending>> /\ phase = "expire"
      /\ \/ UNCHANGED <<results, packets>>
         \/ /\ SaveResult(id, "Expired") /\ Respond(id, "Expired")
            /\ GetReportCount(id) < requests[id].minCount
  BY <1>0 DEF ExpireRequest
<1>2. ASSUME SaveResult(id, "Expired"), Respond(id, "Expired"),
             GetReportCount(id) < requests[id].minCount
      PROVE  /\ id \notin DOMAIN results
             /\ DOMAIN results' = DOMAIN results \cup {id}
             /\ results'[id].status = "Expired"
             /\ results'[id].ansCount = GetReportCount(id)
             /\ \A k \in DOMAIN results : results'[k] = results[k]
             /\ \/ packets' = packets
                \/ packets' = Append(packets, [id |-> id, status |-> "Expired"])
  <2>1. GetReportCount(id) \in Nat /\ requests[id].minCount \in Nat
    BY <1>1, ReportCountIsNat DEF IndInv, TypeOK, Request
  <2>2. ~HasFinalResult(id)
    BY <1>1, <1>2, <2>1 DEF IndInv, SafeInv, EnoughReportsResolve
  <2>3. ~(id <= lastExpired)
    BY <1>0, BoundsAreNat DEF IndInv, TypeOK
  <2>4. id \notin DOMAIN results
    BY <2>2, <2>3 DEF IndInv, SafeInv, ExpiredArePassed, TypeOK, Result, Status,
                      FinalStatus, HasFinalResult, HasResult
  <2>5. /\ DOMAIN results' = DOMAIN results \cup {id}
        /\ results'[id].status = "Expired"
        /\ \A k \in DOMAIN results : k # id => results'[k] = results[k]
    BY <1>1, <1>2, SaveResultType DEF IndInv, Status
  <2>6. results'[id].ansCount = GetReportCount(id)
    BY <1>2 DEF SaveResult, SetKey
  <2>7. packets' = packets \/ packets' = Append(packets, [id |-> id, status |-> "Expired"])
    BY <1>2 DEF Respond, SendOracleResponse
  <2> QED
    BY <2>4, <2>5, <2>6, <2>7
<1> QED
  BY <1>0, <1>1, <1>2

(* Every other step leaves the stores alone. *)
LEMMA NextCases ==
  ASSUME [Next]_vars
  PROVE  \/ RequestData \/ OnRecvPacket
         \/ \E id \in RequestIDs, val \in Validators,
               addr \in Validators \cup Accounts, eids \in ExternalIDSets :
               ReportData(id, val, addr, eids)
         \/ ResolveRequest
         \/ ExpireRequest
         \/ /\ UNCHANGED <<lastExpired, requests, reports, pending, results, packets, missed>>
            /\ phase = "expire" => staking' = staking
<1>1. ASSUME NEW val \in Validators, NEW addr \in Accounts,
             AddReporter(val, addr) \/ RemoveReporter(val, addr)
      PROVE  /\ UNCHANGED <<lastExpired, requests, reports, pending, results, packets, missed>>
             /\ phase = "expire" => staking' = staking
  BY <1>1 DEF AddReporter, RemoveReporter, txVars
<1>2. ASSUME NEW v \in Validators, StakingChange(v)
      PROVE  /\ UNCHANGED <<lastExpired, requests, reports, pending, results, packets, missed>>
             /\ phase = "expire" => staking' = staking
  BY <1>2 DEF StakingChange, txVars
<1>3. CASE EndBlock \/ ClearPendingList \/ Commit
  BY <1>3 DEF EndBlock, ClearPendingList, Commit
<1>4. CASE UNCHANGED vars
  BY <1>4 DEF vars
<1> QED
  BY <1>1, <1>2, <1>3, <1>4 DEF Next, DeliverTx, HandleEndBlock

-----------------------------------------------------------------------------
(* Requests that no report can satisfy. *)

Unanswerable(raw) == raw = << >> \/ \E i, j \in 1 .. Len(raw) : i # j /\ raw[i] = raw[j]

(* AddReport wants as many different external IDs as the list has entries:  *)
(* of a list that is empty or repeats one there are not so many.            *)
LEMMA NoValidRawReports ==
  ASSUME NEW raw \in Seq(Int), NEW eids, Unanswerable(raw)
  PROVE  ~ValidRawReports(raw, eids)
<1> SUFFICES ASSUME ValidRawReports(raw, eids) PROVE FALSE
  OBVIOUS
<1>1. Len(raw) \in Nat
  BY LenProperties
<1>2. CASE raw = << >>
  <2>1. Len(raw) = 0
    BY <1>2, EmptySeq
  <2> QED
    BY <2>1 DEF ValidRawReports
<1>3. ASSUME NEW i \in 1 .. Len(raw), NEW j \in 1 .. Len(raw), i # j, raw[i] = raw[j]
      PROVE  FALSE
  <2> DEFINE others == (1 .. Len(raw)) \ {i}
             asked  == {raw[k] : k \in others}
             f      == [k \in others |-> raw[k]]
  <2>1. IsFiniteSet(others) /\ Cardinality(others) = Len(raw) - 1
    <3>1. IsFiniteSet(1 .. Len(raw)) /\ Cardinality(1 .. Len(raw)) = Len(raw)
      <4>1. /\ IsFiniteSet(1 .. Len(raw))
            /\ Cardinality(1 .. Len(raw)) = IF 1 > Len(raw) THEN 0 ELSE Len(raw) - 1 + 1
        BY <1>1, FS_Interval
      <4> QED
        BY <1>1, <4>1
    <3> QED
      BY <3>1, FS_RemoveElement
  <2>2. f \in Surjection(others, asked)
    BY DEF Surjection
  <2> HIDE DEF f
  <2>3. IsFiniteSet(asked) /\ Cardinality(asked) <= Cardinality(others)
    BY <2>1, <2>2, FS_Surjection
  <2>4. eids \in SUBSET asked
    BY <1>3 DEF ValidRawReports
  <2> HIDE DEF others, asked
  <2>5. Cardinality(eids) <= Cardinality(asked) /\ IsFiniteSet(eids)
    BY <2>3, <2>4, FS_Subset
  <2>6. Cardinality(eids) \in Nat /\ Cardinality(asked) \in Nat
    BY <2>3, <2>5, FS_CardinalityType
  <2> QED
    BY <1>1, <2>1, <2>3, <2>5, <2>6 DEF ValidRawReports
<1> QED
  BY <1>2, <1>3 DEF Unanswerable

(* UnanswerableOnlyExpires needs that a request is only pending with a      *)
(* report, whatever its minimum count.                                      *)
PendingAreReported ==
  \A i \in 1 .. Len(pending) : DOMAIN reports[pending[i]] # {}

UnanswerableInv == UnanswerableOnlyExpires /\ PendingAreReported

LEMMA UnanswerableStep ==
  IndInv /\ UnanswerableInv /\ [Next]_vars => UnanswerableInv'
<1> SUFFICES ASSUME IndInv, UnanswerableInv, [Next]_vars PROVE UnanswerableInv'
  OBVIOUS
<1> USE DEF UnanswerableInv
<1>0. /\ pending \in Seq(DOMAIN requests) /\ Len(pending) \in Nat
      /\ \A i \in 1 .. Len(pending) : pending[i] \in DOMAIN requests
      /\ DOMAIN results \subseteq DOMAIN requests
      /\ \A id \in DOMAIN requests : requests[id].rawIDs \in Seq(Int)
  BY LenProperties, ElementOfSeq DEF IndInv, TypeOK, Request
<1>u. \A id \in DOMAIN requests : Unanswerable(requests[id].rawIDs) =>
        DOMAIN reports[id] = {} /\ ~HasFinalResult(id)
  BY DEF UnanswerableOnlyExpires, Unanswerable
<1>1. CASE RequestData \/ OnRecvPacket
  <2>1. PICK new :
           /\ new \notin DOMAIN requests
           /\ DOMAIN requests' = DOMAIN requests \cup {new}
           /\ DOMAIN reports'[new] = {}
           /\ \A id \in DOMAIN requests :
                requests'[id] = requests[id] /\ reports'[id] = reports[id]
           /\ UNCHANGED <<results, pending>>
    BY <1>1, PrepareRequestEffect
  <2>2. UnanswerableOnlyExpires'
    <3>1. \A id : HasFinalResult(id)' = HasFinalResult(id)
      BY <2>1 DEF HasFinalResult, HasResult
    <3>2. ~HasFinalResult(new)
      BY <1>0, <2>1 DEF HasFinalResult, HasResult
    <3> QED
      BY <2>1, <3>1, <3>2 DEF UnanswerableOnlyExpires
  <2>3. PendingAreReported'
    BY <1>0, <2>1 DEF PendingAreReported
  <2> QED
    BY <2>2, <2>3
<1>2. ASSUME NEW id \in RequestIDs, NEW val \in Validators,
             NEW addr \in Validators \cup Accounts, NEW eids \in ExternalIDSets,
             ReportData(id, val, addr, eids)
      PROVE  UnanswerableInv'
  <2>1. /\ id \in DOMAIN requests
        /\ ValidRawReports(requests[id].rawIDs, eids)
        /\ DOMAIN reports'[id] = DOMAIN reports[id] \cup {val}
        /\ \A k \in DOMAIN requests : k # id => reports'[k] = reports[k]
        /\ UNCHANGED <<requests, results>>
        /\ pending' = pending \/ pending' = Append(pending, id)
    BY <1>2, ReportDataEffect
  <2>2. ~Unanswerable(requests[id].rawIDs)
    BY <1>0, <2>1, NoValidRawReports
  <2>3. UnanswerableOnlyExpires'
    <3>1. \A k \in DOMAIN requests : Unanswerable(requests[k].rawIDs) =>
            DOMAIN reports'[k] = {} /\ ~HasFinalResult(k)'
      BY <1>u, <2>1, <2>2 DEF HasFinalResult, HasResult
    <3> QED
      BY <2>1, <3>1 DEF UnanswerableOnlyExpires, Unanswerable
  <2>4. \A k \in DOMAIN requests : DOMAIN reports[k] # {} => DOMAIN reports'[k] # {}
    BY <2>1
  <2>5. PendingAreReported'
    <3>1. CASE pending' = pending
      BY <1>0, <2>4, <3>1 DEF PendingAreReported
    <3>2. CASE pending' = Append(pending, id)
      <4>1. /\ Len(pending') = Len(pending) + 1
            /\ \A i \in 1 .. Len(pending) : pending'[i] = pending[i]
            /\ pending'[Len(pending) + 1] = id
        BY <1>0, <2>1, <3>2, AppendProperties
      <4>2. \A i \in 1 .. Len(pending') : i \in 1 .. Len(pending) \/ i = Len(pending) + 1
        BY <1>0, <4>1
      <4> QED
        BY <1>0, <2>1, <2>4, <4>1, <4>2 DEF PendingAreReported
    <3> QED
      BY <2>1, <3>1, <3>2
  <2> QED
    BY <2>3, <2>5
<1>3. CASE ResolveRequest
  <2>1. PICK id \in DOMAIN requests, status \in FinalStatus :
           /\ id = pending[1] /\ 1 \in 1 .. Len(pending)
           /\ DOMAIN results' = DOMAIN results \cup {id}
           /\ \A k \in DOMAIN results : k # id => results'[k] = results[k]
           /\ pending' = Tail(pending) /\ pending # << >>
           /\ UNCHANGED <<requests, reports>>
    BY <1>3, ResolveRequestEffect
  <2>2. ~Unanswerable(requests[id].rawIDs)
    BY <1>u, <2>1 DEF PendingAreReported
  <2>3. \A k \in DOMAIN requests : Unanswerable(requests[k].rawIDs) =>
          DOMAIN reports[k] = {} /\ ~HasFinalResult(k)'
    BY <1>u, <2>1, <2>2 DEF HasFinalResult, HasResult
  <2>4. UnanswerableOnlyExpires'
    BY <2>1, <2>3 DEF UnanswerableOnlyExpires, Unanswerable
  <2>5. /\ Len(pending') = Len(pending) - 1
        /\ \A i \in 1 .. Len(pending') : pending'[i] = pending[i + 1]
    BY <1>0, <2>1, HeadTailProperties
  <2>6. PendingAreReported'
    <3>1. \A i \in 1 .. Len(pending') : i + 1 \in 1 .. Len(pending)
      BY <1>0, <2>5
    <3> QED
      BY <2>1, <2>5, <3>1 DEF PendingAreReported
  <2> QED
    BY <2>4, <2>6
<1>4. CASE ExpireRequest
  <2>1. PICK id \in DOMAIN requests :
           /\ UNCHANGED <<requests, reports, pending>>
           /\ \/ results' = results
              \/ /\ DOMAIN results' = DOMAIN results \cup {id}
                 /\ id \notin DOMAIN results
                 /\ results'[id].status = "Expired"
                 /\ \A k \in DOMAIN results : results'[k] = results[k]
    BY <1>4, ExpireRequestEffect
  <2>2. \A k : HasFinalResult(k)' => HasFinalResult(k)
    BY <2>1 DEF HasFinalResult, HasResult, FinalStatus
  <2>3. UnanswerableOnlyExpires'
    BY <2>1, <2>2 DEF UnanswerableOnlyExpires
  <2> QED
    BY <2>1, <2>3 DEF PendingAreReported
<1>5. CASE UNCHANGED <<requests, reports, pending, results>>
  BY <1>5 DEF UnanswerableOnlyExpires, PendingAreReported, HasFinalResult, HasResult
<1> QED
  BY <1>1, <1>2, <1>3, <1>4, <1>5, NextCases

(* A request that asks for the same external ID twice, or for none, is      *)
(* never executed and accepts no report: AddReport's checks leave it only   *)
(* to ProcessExpiredRequests.                                               *)
THEOREM UnanswerableExpires == Spec => []UnanswerableOnlyExpires
<1>1. Init => UnanswerableInv
  <2> SUFFICES ASSUME Init PROVE UnanswerableInv
    OBVIOUS
  <2>1. DOMAIN requests = {} /\ Len(pending) = 0
    BY EmptySeq DEF Init
  <2> QED
    BY <2>1 DEF UnanswerableInv, UnanswerableOnlyExpires, PendingAreReported
<1> QED
  BY <1>1, Inductive, UnanswerableStep, PTL DEF Spec, UnanswerableInv

-----------------------------------------------------------------------------
(* The response packets of a request. *)

(* ResponsesInOrder needs that a response is backed by a result that is at  *)
(* least as final.                                                          *)
PacketsHaveResults ==
  \A i \in 1 .. Len(packets) :
    /\ HasResult(packets[i].id)
    /\ packets[i].status \in FinalStatus => HasFinalResult(packets[i].id)

ResponseInv == ResponsesInOrder /\ PacketsHaveResults

(* A response may be added if none that is final, and none at all before an *)
(* EXPIRED one, was sent for the request.                                   *)
LEMMA ResponseAdded ==
  ASSUME TypeOK, ResponseInv, NEW id \in RequestIDs, NEW status \in Status,
         ~HasFinalResult(id), status = "Expired" => ~HasResult(id),
         packets' = packets \/ packets' = Append(packets, [id |-> id, status |-> status]),
         \A k : HasResult(k) => HasResult(k)',
         \A k : HasFinalResult(k) => HasFinalResult(k)',
         HasResult(id)', status \in FinalStatus => HasFinalResult(id)'
  PROVE  ResponseInv'
<1> USE DEF ResponseInv
<1>1. packets \in Seq(Packet) /\ Len(packets) \in Nat
      /\ \A i \in 1 .. Len(packets) : packets[i] \in Packet
  BY LenProperties, ElementOfSeq DEF TypeOK
<1>2. CASE packets' = packets
  BY <1>2 DEF ResponsesInOrder, PacketsHaveResults
<1>3. CASE packets' = Append(packets, [id |-> id, status |-> status])
  <2> DEFINE new == [id |-> id, status |-> status]
             n   == Len(packets) + 1
  <2>1. new \in Packet /\ new.id = id /\ new.status = status
    BY DEF Packet
  <2> HIDE DEF new
  <2>2. /\ Len(packets') = n
        /\ \A i \in 1 .. Len(packets) : packets'[i] = packets[i]
        /\ packets'[n] = new
    BY <1>1, <1>3, <2>1, AppendProperties DEF new
  <2>3. \A i \in 1 .. Len(packets') : i = n \/ i \in 1 .. Len(packets)
    BY <1>1, <2>2
  <2>4. \A i \in 1 .. Len(packets) : packets[i].id = id =>
          packets[i].status = "Expired" /\ status \in FinalStatus
    <3> TAKE i \in 1 .. Len(packets)
    <3> HAVE packets[i].id = id
    <3>1. HasResult(id) /\ packets[i].status \notin FinalStatus
      BY DEF PacketsHaveResults
    <3>2. packets[i].status \in Status
      BY <1>1 DEF Packet
    <3> QED
      BY <3>1, <3>2 DEF Status, FinalStatus
  <2>5. ResponsesInOrder'
    <3> SUFFICES ASSUME NEW i \in 1 .. Len(packets'), NEW j \in 1 .. Len(packets'),
                        i < j, packets'[i].id = packets'[j].id
                 PROVE  packets'[i].status = "Expired" /\ packets'[j].status \in FinalStatus
      BY DEF ResponsesInOrder
    <3>1. i \in 1 .. Len(packets)
      BY <1>1, <2>2
    <3>2. CASE j = n
      BY <2>1, <2>2, <2>4, <3>1, <3>2
    <3>3. CASE j \in 1 .. Len(packets)
      BY <2>2, <3>1, <3>3 DEF ResponsesInOrder
    <3> QED
      BY <2>3, <3>2, <3>3
  <2>6. PacketsHaveResults'
    <3> SUFFICES ASSUME NEW i \in 1 .. Len(packets')
                 PROVE  /\ HasResult(packets[i].id)'
                        /\ packets'[i].status \in FinalStatus => HasFinalResult(packets[i].id)'
      BY DEF PacketsHaveResults, HasResult, HasFinalResult
    <3>1. CASE i = n
      BY <2>1, <2>2, <3>1 DEF HasResult, HasFinalResult
    <3>2. CASE i \in 1 .. Len(packets)
      <4>1. packets'[i] = packets[i]
        BY <2>2, <3>2
      <4>2. /\ HasResult(packets[i].id)
            /\ packets[i].status \in FinalStatus => HasFinalResult(packets[i].id)
        BY <3>2 DEF PacketsHaveResults
      <4> QED
        BY <4>1, <4>2 DEF HasResult, HasFinalResult
    <3> QED
      BY <2>3, <3>1, <3>2
  <2> QED
    BY <2>5, <2>6
<1> QED
  BY <1>2, <1>3

LEMMA ResponseStep == IndInv /\ ResponseInv /\ [Next]_vars => ResponseInv'
<1> SUFFICES ASSUME IndInv, ResponseInv, [Next]_vars PROVE ResponseInv'
  OBVIOUS
<1>1. CASE ResolveRequest
  <2>1. PICK id \in DOMAIN requests, status \in FinalStatus :
           /\ ~HasFinalResult(id)
           /\ DOMAIN results' = DOMAIN results \cup {id}
           /\ results'[id].status = status
           /\ \A k \in DOMAIN results : k # id => results'[k] = results[k]
           /\ packets' = packets \/ packets' = Append(packets, [id |-> id, status |-> status])
    BY <1>1, ResolveRequestEffect
  <2>2. id \in RequestIDs /\ status \in Status /\ status # "Expired"
    BY <2>1, BoundsAreNat DEF IndInv, TypeOK, RequestIDs, FinalStatus, Status
  <2>3. /\ \A k : HasResult(k) => HasResult(k)'
        /\ \A k : HasFinalResult(k) => HasFinalResult(k)'
        /\ HasResult(id)' /\ HasFinalResult(id)'
    BY <2>1 DEF HasResult, HasFinalResult
  <2> QED
    BY <2>1, <2>2, <2>3, ResponseAdded DEF IndInv
<1>2. CASE ExpireRequest
  <2>1. PICK id \in DOMAIN requests :
           \/ UNCHANGED <<results, packets>>
           \/ /\ id \notin DOMAIN results
              /\ DOMAIN results' = DOMAIN results \cup {id}
              /\ results'[id].status = "Expired"
              /\ \A k \in DOMAIN results : results'[k] = results[k]
              /\ \/ packets' = packets
                 \/ packets' = Append(packets, [id |-> id, status |-> "Expired"])
    BY <1>2, ExpireRequestEffect
  <2>2. CASE UNCHANGED <<results, packets>>
    BY <2>2 DEF ResponseInv, ResponsesInOrder, PacketsHaveResults, HasResult, HasFinalResult
  <2>3. CASE ~UNCHANGED <<results, packets>>
    <3>1. id \in RequestIDs /\ "Expired" \in Status /\ "Expired" \notin FinalStatus
      BY BoundsAreNat DEF IndInv, TypeOK, RequestIDs, FinalStatus, Status
    <3>2. /\ \A k : HasResult(k) => HasResult(k)'
          /\ \A k : HasFinalResult(k) => HasFinalResult(k)'
          /\ HasResult(id)' /\ ~HasResult(id) /\ ~HasFinalResult(id)
      BY <2>1, <2>3 DEF HasResult, HasFinalResult
    <3> QED
      BY <2>1, <2>3, <3>1, <3>2, ResponseAdded DEF IndInv
  <2> QED
    BY <2>2, <2>3
<1>3. CASE UNCHANGED <<results, packets>>
  BY <1>3 DEF ResponseInv, ResponsesInOrder, PacketsHaveResults, HasResult, HasFinalResult
<1>4. CASE RequestData \/ OnRecvPacket
  BY <1>3, <1>4, PrepareRequestEffect
<1>5. ASSUME NEW id \in RequestIDs, NEW val \in Validators,
             NEW addr \in Validators \cup Accounts, NEW eids \in ExternalIDSets,
             ReportData(id, val, addr, eids)
      PROVE  ResponseInv'
  BY <1>3, <1>5, ReportDataEffect
<1> QED
  BY <1>1, <1>2, <1>3, <1>4, <1>5, NextCases

(* SendOracleResponse: the requester on another chain gets at most one      *)
(* EXPIRED response and then at most one of an execution, in this order,    *)
(* whatever reports come late.                                              *)
THEOREM ResponsesOrdered == Spec => []ResponsesInOrder
<1>1. Init => ResponseInv
  <2> SUFFICES ASSUME Init PROVE ResponseInv
    OBVIOUS
  <2>1. Len(packets) = 0
    BY EmptySeq DEF Init
  <2> QED
    BY <2>1 DEF ResponseInv, ResponsesInOrder, PacketsHaveResults
<1> QED
  BY <1>1, Inductive, ResponseStep, PTL DEF Spec, ResponseInv

-----------------------------------------------------------------------------
(* The reports an answer counts. *)

(* EarlyReportsAreCounted needs that before the first answer all reports    *)
(* are early, and that an EXPIRED answer had too few of them: an execution  *)
(* that replaces it counts late ones.                                       *)
AllEarlyWithoutResult ==
  \A id \in DOMAIN requests \ DOMAIN results : EarlyReports(id) = DOMAIN reports[id]

ExpiredBelowMinimum ==
  \A id \in DOMAIN results :
    results[id].status = "Expired" => Cardinality(EarlyReports(id)) < requests[id].minCount

EarlyInv == EarlyReportsAreCounted /\ AllEarlyWithoutResult /\ ExpiredBelowMinimum

(* The same for one request. *)
EarlyCounted(id) ==
  /\ HasResult(id) /\ requests[id].minCount > 0 =>
       IF \/ results[id].status = "Expired"
          \/ Cardinality(EarlyReports(id)) >= requests[id].minCount
       THEN results[id].ansCount = Cardinality(EarlyReports(id))
       ELSE results[id].ansCount >= requests[id].minCount
  /\ ~HasResult(id) => EarlyReports(id) = DOMAIN reports[id]
  /\ HasResult(id) /\ results[id].status = "Expired" =>
       Cardinality(EarlyReports(id)) < requests[id].minCount

LEMMA EarlyInvPerRequest ==
  ASSUME DOMAIN results \subseteq DOMAIN requests
  PROVE  EarlyInv <=> \A id \in DOMAIN requests : EarlyCounted(id)
  BY DEF EarlyInv, EarlyReportsAreCounted, AllEarlyWithoutResult, ExpiredBelowMinimum,
         EarlyCounted, HasResult

LEMMA SameRequest ==
  ASSUME NEW id, EarlyCounted(id), requests'[id] = requests[id], reports'[id] = reports[id],
         HasResult(id)' <=> HasResult(id), HasResult(id) => results'[id] = results[id]
  PROVE  EarlyCounted(id)'
<1>1. EarlyReports(id)' = EarlyReports(id)
  BY DEF EarlyReports
<1> QED
  BY <1>1, Zenon DEF EarlyCounted

(* A report is only early before the first answer. *)
LEMMA ReportKeepsEarly ==
  ASSUME IndInv, NEW id \in RequestIDs, NEW val, NEW addr, NEW eids,
         ReportData(id, val, addr, eids)
  PROVE  /\ HasResult(id) => EarlyReports(id)' = EarlyReports(id)
         /\ ~HasResult(id) => EarlyReports(id)' = EarlyReports(id) \cup {val}
<1>1. /\ val \notin DOMAIN reports[id]
      /\ DOMAIN reports'[id] = DOMAIN reports[id] \cup {val}
      /\ reports'[id][val].inBeforeResolve = ~HasResult(id)
      /\ \A v \in DOMAIN reports[id] : reports'[id][v] = reports[id][v]
  BY ReportDataEffect
<1>2. EarlyReports(id)' = {v \in DOMAIN reports'[id] : reports'[id][v].inBeforeResolve}
  BY DEF EarlyReports
<1>3. EarlyReports(id) = {v \in DOMAIN reports[id] : reports[id][v].inBeforeResolve}
  BY DEF EarlyReports
<1>4. ASSUME NEW v
      PROVE  v \in EarlyReports(id)' <=> v \in EarlyReports(id) \/ (v = val /\ ~HasResult(id))
  <2>1. CASE v = val
    BY <1>1, <1>2, <1>3, <2>1, Zenon
  <2>2. CASE v # val
    BY <1>1, <1>2, <1>3, <2>2, Zenon
  <2> QED
    BY <2>1, <2>2
<1>5. HasResult(id) \in BOOLEAN
  BY DEF HasResult
<1> QED
  BY <1>4, <1>5, Zenon

LEMMA EarlyStep == IndInv /\ EarlyInv /\ [Next]_vars => EarlyInv'
<1> SUFFICES ASSUME IndInv, EarlyInv, [Next]_vars PROVE EarlyInv'
  OBVIOUS
<1>0. /\ DOMAIN results \subseteq DOMAIN requests
      /\ DOMAIN results' \subseteq DOMAIN requests'
      /\ DOMAIN reports = DOMAIN requests
      /\ \A id \in DOMAIN requests : GetReportCount(id) \in Nat /\ requests[id].minCount \in Nat
  BY NextType, ReportCountIsNat DEF IndInv, TypeOK, Request
<1>i. \A id \in DOMAIN requests : EarlyCounted(id)
  BY <1>0, EarlyInvPerRequest
<1>s. SUFFICES ASSUME NEW id \in DOMAIN requests' PROVE EarlyCounted(id)'
  <2>1. EarlyInv' <=> \A id \in DOMAIN requests' : EarlyCounted(id)'
    BY <1>0 DEF EarlyInv, EarlyReportsAreCounted, AllEarlyWithoutResult,
                ExpiredBelowMinimum, EarlyCounted, HasResult
  <2> QED
    BY <2>1
<1>1. CASE RequestData \/ OnRecvPacket
  <2>1. PICK new :
           /\ new \notin DOMAIN requests
           /\ DOMAIN requests' = DOMAIN requests \cup {new}
           /\ DOMAIN reports'[new] = {}
           /\ \A k \in DOMAIN requests :
                requests'[k] = requests[k] /\ reports'[k] = reports[k]
           /\ UNCHANGED results
    BY <1>1, PrepareRequestEffect
  <2>2. CASE id = new
    BY <1>0, <2>1, <2>2 DEF EarlyCounted, HasResult, EarlyReports
  <2>3. CASE id \in DOMAIN requests
    BY <1>i, <2>1, <2>3, SameRequest DEF HasResult
  <2> QED
    BY <2>1, <2>2, <2>3
<1>2. ASSUME NEW k \in RequestIDs, NEW val \in Validators,
             NEW addr \in Validators \cup Accounts, NEW eids \in ExternalIDSets,
             ReportData(k, val, addr, eids)
      PROVE  EarlyCounted(id)'
  <2>1. /\ k \in DOMAIN requests
        /\ DOMAIN reports'[k] = DOMAIN reports[k] \cup {val}
        /\ \A i \in DOMAIN requests : i # k => reports'[i] = reports[i]
        /\ UNCHANGED <<requests, results>>
    BY <1>2, ReportDataEffect
  <2>2. /\ HasResult(k) => EarlyReports(k)' = EarlyReports(k)
        /\ ~HasResult(k) => EarlyReports(k)' = EarlyReports(k) \cup {val}
    BY <1>2, ReportKeepsEarly
  <2>3. CASE id # k
    BY <1>i, <2>1, <2>3, SameRequest DEF HasResult
  <2>4. CASE id = k
    <3>1. HasResult(k)' <=> HasResult(k)
      BY <2>1 DEF HasResult
    <3>2. CASE HasResult(k)
      BY <1>i, <2>1, <2>2, <2>4, <3>1, <3>2 DEF EarlyCounted
    <3>3. CASE ~HasResult(k)
      BY <1>i, <2>1, <2>2, <2>4, <3>1, <3>3 DEF EarlyCounted
    <3> QED
      BY <3>2, <3>3
  <2> QED
    BY <2>3, <2>4
<1>3. CASE ResolveRequest
  <2>1. PICK k \in DOMAIN requests, status \in FinalStatus :
           /\ ~HasFinalResult(k)
           /\ GetReportCount(k) >= requests[k].minCount
           /\ DOMAIN results' = DOMAIN results \cup {k}
           /\ results'[k].status = status
           /\ results'[k].ansCount = GetReportCount(k)
           /\ \A i \in DOMAIN results : i # k => results'[i] = results[i]
           /\ UNCHANGED <<requests, reports>>
    BY <1>3, ResolveRequestEffect
  <2>2. CASE id # k
    BY <1>i, <2>1, <2>2, SameRequest DEF HasResult
  <2>3. CASE id = k
    <3>1. EarlyReports(k)' = EarlyReports(k) /\ requests'[k] = requests[k]
      BY <2>1 DEF EarlyReports
    <3>2. HasResult(k)' /\ results'[k].status # "Expired"
      BY <2>1 DEF HasResult, FinalStatus
    <3>3. CASE ~HasResult(k)
      <4>1. Cardinality(EarlyReports(k)) = GetReportCount(k)
        BY <1>i, <3>3 DEF EarlyCounted, GetReportCount
      <4> QED
        BY <1>0, <2>1, <2>3, <3>1, <3>2, <4>1 DEF EarlyCounted
    <3>4. CASE HasResult(k)
      <4>1. results[k].status = "Expired"
        BY <2>1, <3>4 DEF HasFinalResult, HasResult, IndInv, TypeOK, Result, Status, FinalStatus
      <4>2. Cardinality(EarlyReports(k)) < requests[k].minCount
        BY <1>i, <3>4, <4>1 DEF EarlyCounted
      <4>3. IsFiniteSet(EarlyReports(k)) /\ Cardinality(EarlyReports(k)) \in Nat
        <5>1. IsFiniteSet(DOMAIN reports[k])
          BY ReportCountIsNat DEF IndInv
        <5>2. EarlyReports(k) \in SUBSET DOMAIN reports[k]
          BY DEF EarlyReports
        <5> QED
          BY <5>1, <5>2, FS_Subset, FS_CardinalityType
      <4> QED
        BY <1>0, <2>1, <2>3, <3>1, <3>2, <4>2, <4>3 DEF EarlyCounted
    <3> QED
      BY <3>3, <3>4
  <2> QED
    BY <2>2, <2>3
<1>4. CASE ExpireRequest
  <2>1. PICK k \in DOMAIN requests :
           /\ UNCHANGED <<requests, reports>>
           /\ \/ UNCHANGED results
              \/ /\ k \notin DOMAIN results
                 /\ GetReportCount(k) < requests[k].minCount
                 /\ DOMAIN results' = DOMAIN results \cup {k}
                 /\ results'[k].status = "Expired"
                 /\ results'[k].ansCount = GetReportCount(k)
                 /\ \A i \in DOMAIN results : results'[i] = results[i]
    BY <1>4, ExpireRequestEffect
  <2>2. CASE id # k \/ UNCHANGED results
    BY <1>i, <2>1, <2>2, SameRequest DEF HasResult
  <2>3. CASE id = k /\ ~UNCHANGED results
    <3>1. EarlyReports(k)' = EarlyReports(k) /\ requests'[k] = requests[k]
      BY <2>1 DEF EarlyReports
    <3>2. HasResult(k)' /\ ~HasResult(k)
      BY <2>1, <2>3 DEF HasResult
    <3>3. Cardinality(EarlyReports(k)) = GetReportCount(k)
      BY <1>i, <3>2 DEF EarlyCounted, GetReportCount
    <3> QED
      BY <2>1, <2>3, <3>1, <3>2, <3>3 DEF EarlyCounted
  <2> QED
    BY <2>2, <2>3
<1>5. CASE UNCHANGED <<requests, reports, results>>
  BY <1>i, <1>5, SameRequest DEF HasResult
<1> QED
  BY <1>1, <1>2, <1>3, <1>4, <1>5, NextCases

(* AddReport's InBeforeResolve: the reports it marks are the ones that the  *)
(* first answer counts, for any number of late reports; an answer that      *)
(* replaces an EXPIRED one counts at least MinCount.                        *)
THEOREM EarlyReportsCounted == Spec => []EarlyReportsAreCounted
<1>1. Init => EarlyInv
  BY DEF Init, EarlyInv, EarlyReportsAreCounted, AllEarlyWithoutResult, ExpiredBelowMinimum
<1> QED
  BY <1>1, Inductive, EarlyStep, PTL DEF Spec, EarlyInv

-----------------------------------------------------------------------------
(* The miss counters. *)

(* The row of misses of a validator as one set. *)
Run(v, last, first) == {id \in AskedAndExpired(v, last) : id >= first}

LEMMA RunIsFinite ==
  ASSUME NEW v, NEW last \in Nat, NEW first
  PROVE  IsFiniteSet(Run(v, last, first))
<1>1. Run(v, last, first) \in SUBSET (1 .. last)
  BY DEF Run, AskedAndExpired
<1>2. IsFiniteSet(1 .. last)
  BY FS_Interval
<1> QED
  BY <1>1, <1>2, FS_Subset

LEMMA MissedInARowRun ==
  ASSUME NEW v, NEW last, NEW n
  PROVE  MissedInARow(v, last, n) <=>
           \E first \in 1 .. last + 1 :
             /\ Cardinality(Run(v, last, first)) = n
             /\ \A id \in Run(v, last, first) : NotReportedEarly(v, id)
  BY DEF MissedInARow, Run

(* A row that starts behind the last request is empty. *)
LEMMA RunStarts ==
  ASSUME NEW v, NEW last \in Nat
  PROVE  MissedInARow(v, last, 0)
<1>1. Run(v, last, last + 1) = {}
  BY DEF Run, AskedAndExpired
<1>2. Cardinality(Run(v, last, last + 1)) = 0
  BY <1>1, FS_EmptySet
<1>3. last + 1 \in 1 .. last + 1
  OBVIOUS
<1> QED
  BY <1>1, <1>2, <1>3, MissedInARowRun

(* A request that v was not asked for leaves its row. *)
LEMMA RunSkips ==
  ASSUME NEW v, NEW last \in Nat, NEW n, MissedInARow(v, last, n),
         v \notin requests[last + 1].vals
  PROVE  MissedInARow(v, last + 1, n)
<1>1. PICK first \in 1 .. last + 1 :
        /\ Cardinality(Run(v, last, first)) = n
        /\ \A id \in Run(v, last, first) : NotReportedEarly(v, id)
  BY MissedInARowRun
<1>2. Run(v, last + 1, first) = Run(v, last, first)
  BY DEF Run, AskedAndExpired
<1>3. first \in 1 .. (last + 1) + 1
  OBVIOUS
<1> QED
  BY <1>1, <1>2, <1>3, MissedInARowRun

(* One more miss makes the row longer. *)
LEMMA RunExtended ==
  ASSUME NEW v, NEW last \in Nat, NEW n, MissedInARow(v, last, n),
         v \in requests[last + 1].vals, NotReportedEarly(v, last + 1)
  PROVE  MissedInARow(v, last + 1, n + 1)
<1>1. PICK first \in 1 .. last + 1 :
        /\ Cardinality(Run(v, last, first)) = n
        /\ \A id \in Run(v, last, first) : NotReportedEarly(v, id)
  BY MissedInARowRun
<1>2. /\ Run(v, last + 1, first) = Run(v, last, first) \cup {last + 1}
      /\ last + 1 \notin Run(v, last, first)
  BY DEF Run, AskedAndExpired
<1>3. Cardinality(Run(v, last + 1, first)) = n + 1
  BY <1>1, <1>2, RunIsFinite, FS_AddElement
<1>4. first \in 1 .. (last + 1) + 1
  OBVIOUS
<1> QED
  BY <1>1, <1>2, <1>3, <1>4, MissedInARowRun

(* A row of requests that no step touches stays one. *)
LEMMA RunKept ==
  ASSUME NEW v, NEW last, NEW n, MissedInARow(v, last, n),
         \A id \in 1 .. last :
           /\ requests'[id] = requests[id]
           /\ requests[id].minCount = 0 \/ EarlyReports(id)' = EarlyReports(id)
  PROVE  MissedInARow(v, last, n)'
<1>1. PICK first \in 1 .. last + 1 :
        /\ Cardinality(Run(v, last, first)) = n
        /\ \A id \in Run(v, last, first) : NotReportedEarly(v, id)
  BY MissedInARowRun
<1>2. Run(v, last, first)' = Run(v, last, first)
  BY DEF Run, AskedAndExpired
<1>3. ASSUME NEW id \in Run(v, last, first) PROVE NotReportedEarly(v, id)'
  <2>1. id \in 1 .. last /\ NotReportedEarly(v, id)
    BY <1>1 DEF Run, AskedAndExpired
  <2> QED
    BY <2>1 DEF NotReportedEarly
<1>4. MissedInARow(v, last, n)' <=>
           \E k \in 1 .. last + 1 :
             /\ Cardinality(Run(v, last, k)') = n
             /\ \A id \in Run(v, last, k)' : NotReportedEarly(v, id)'
  BY DEF MissedInARow, Run
<1> QED
  BY <1>1, <1>2, <1>3, <1>4

(* HandleValidatorReport adds a miss to the row, or starts a new one. *)
LEMMA ExpireRequestMisses ==
  ASSUME IndInv, MissesAreConsecutive, ExpireRequest, NEW v \in Validators
  PROVE  /\ MissedInARow(v, lastExpired + 1, missed'[v])
         /\ staking'[v] # staking[v] =>
              /\ staking'[v] = "jailed"
              /\ MissedInARow(v, lastExpired + 1, MaxConsecutiveMisses + 1)
<1>1. PICK id \in DOMAIN requests : id = lastExpired + 1 /\ UpdateReportInfos(id)
  BY ExpireRequestEffect
<1>2. /\ lastExpired \in Nat /\ missed[v] \in 0 .. MaxConsecutiveMisses
      /\ MaxConsecutiveMisses \in Nat
  BY BoundsAreNat, ParamsValid DEF IndInv, TypeOK
<1>3. MissedInARow(v, lastExpired, missed[v])
  BY DEF MissesAreConsecutive
<1>4. /\ missed'[v] = IF v \in requests[id].vals
                      THEN NextMissed(v, v \in DOMAIN reports[id]) ELSE missed[v]
      /\ staking'[v] = IF v \in requests[id].vals /\ Jails(v, v \in DOMAIN reports[id])
                       THEN "jailed" ELSE staking[v]
  BY <1>1, Zenon DEF UpdateReportInfos
<1>5. CASE v \notin requests[id].vals
  BY <1>1, <1>2, <1>3, <1>4, <1>5, RunSkips
<1>6. CASE v \in requests[id].vals /\ v \notin DOMAIN reports[id]
  <2>1. NotReportedEarly(v, id)
    BY <1>6 DEF NotReportedEarly, EarlyReports
  <2>2. MissedInARow(v, lastExpired + 1, missed[v] + 1)
    BY <1>1, <1>2, <1>3, <1>6, <2>1, RunExtended
  <2>3. MissedInARow(v, lastExpired + 1, 0)
    BY <1>2, RunStarts
  <2>4. missed'[v] \in {0, missed[v] + 1}
    BY <1>4, <1>6 DEF NextMissed
  <2>5. staking'[v] # staking[v] =>
          staking'[v] = "jailed" /\ missed[v] + 1 = MaxConsecutiveMisses + 1
    BY <1>2, <1>4 DEF Jails
  <2> QED
    BY <2>2, <2>3, <2>4, <2>5
<1>7. CASE v \in requests[id].vals /\ v \in DOMAIN reports[id]
  <2>1. missed'[v] = 0 /\ staking'[v] = staking[v]
    BY <1>4, <1>7 DEF NextMissed, Jails
  <2> QED
    BY <1>2, <2>1, RunStarts
<1> QED
  BY <1>5, <1>6, <1>7

LEMMA MissesStep == IndInv /\ MissesAreConsecutive /\ [Next]_vars => MissesAreConsecutive'
<1> SUFFICES ASSUME IndInv, MissesAreConsecutive, [Next]_vars, NEW v \in Validators
             PROVE  MissedInARow(v, lastExpired, missed[v])'
  BY DEF MissesAreConsecutive
<1> DEFINE last == lastExpired
           n    == missed[v]
<1>0. /\ last \in Nat /\ 1 .. last \subseteq DOMAIN requests
      /\ \A id \in DOMAIN requests : requests[id].minCount \in Nat
  BY BoundsAreNat DEF IndInv, TypeOK, Request
<1>i. MissedInARow(v, last, n)
  BY DEF MissesAreConsecutive
<1>k. ASSUME UNCHANGED <<lastExpired, missed>>,
             \A id \in 1 .. last :
               /\ requests'[id] = requests[id]
               /\ requests[id].minCount = 0 \/ EarlyReports(id)' = EarlyReports(id)
      PROVE  MissedInARow(v, lastExpired, missed[v])'
  <2>1. PICK l, m : l = lastExpired /\ m = missed[v]
    OBVIOUS
  <2>2. MissedInARow(v, l, m)'
    BY <1>i, <1>k, <2>1, RunKept
  <2>3. l = lastExpired' /\ m = missed'[v]
    BY <1>k, <2>1
  <2> QED
    BY <2>2, <2>3 DEF MissedInARow
<1>1. CASE RequestData \/ OnRecvPacket
  <2>1. /\ \A id \in DOMAIN requests :
             requests'[id] = requests[id] /\ reports'[id] = reports[id]
        /\ UNCHANGED <<lastExpired, missed>>
    BY <1>1, PrepareRequestEffect
  <2> QED
    BY <1>0, <1>k, <2>1 DEF EarlyReports
<1>2. ASSUME NEW id \in RequestIDs, NEW val \in Validators,
             NEW addr \in Validators \cup Accounts, NEW eids \in ExternalIDSets,
             ReportData(id, val, addr, eids)
      PROVE  MissedInARow(v, lastExpired, missed[v])'
  <2>1. /\ \A k \in DOMAIN requests : k # id => reports'[k] = reports[k]
        /\ UNCHANGED <<lastExpired, missed, requests>>
    BY <1>2, ReportDataEffect
  <2>2. ASSUME NEW k \in 1 .. last
        PROVE  requests[k].minCount = 0 \/ EarlyReports(k)' = EarlyReports(k)
    <3>1. CASE k # id
      BY <1>0, <2>1, <3>1 DEF EarlyReports
    <3>2. CASE k = id
      <4>1. requests[k].minCount = 0 \/ HasResult(k)
        BY <1>0 DEF IndInv, SafeInv, ExpiredHaveResult
      <4> QED
        BY <1>2, <3>2, <4>1, ReportKeepsEarly
    <3> QED
      BY <3>1, <3>2
  <2> QED
    BY <1>k, <2>1, <2>2
<1>3. CASE ResolveRequest
  BY <1>3, <1>k, ResolveRequestEffect DEF EarlyReports
<1>4. CASE ExpireRequest
  <2>1. PICK l, m : l = lastExpired + 1 /\ m = missed'[v]
    OBVIOUS
  <2>2. MissedInARow(v, l, m)
    BY <1>4, <2>1, ExpireRequestMisses
  <2>3. UNCHANGED <<requests, reports>> /\ lastExpired' = l
    BY <1>4, <2>1, ExpireRequestEffect
  <2>4. MissedInARow(v, l, m)'
    BY <2>2, <2>3, RunKept DEF EarlyReports
  <2> QED
    BY <2>1, <2>3, <2>4 DEF MissedInARow
<1>5. CASE UNCHANGED <<lastExpired, requests, reports, missed>>
  BY <1>5, <1>k DEF EarlyReports
<1> QED
  BY <1>1, <1>2, <1>3, <1>4, <1>5, NextCases

LEMMA MissesInductive == Spec => [](IndInv /\ MissesAreConsecutive)
<1>1. Init => MissesAreConsecutive
  BY RunStarts DEF Init, MissesAreConsecutive
<1> QED
  BY <1>1, Inductive, MissesStep, PTL DEF Spec

(* UpdateReportInfos: ConsecutiveMissed is the length of a row of requests, *)
(* up to the one that expired last, that the validator was asked for and    *)
(* did not report before they were answered.                                *)
THEOREM MissesConsecutive == Spec => []MissesAreConsecutive
  BY MissesInductive, PTL

(* HandleValidatorReport jails nobody who did not miss more requests in a   *)
(* row than MaxConsecutiveMisses, however many expire in one end blocker.   *)
THEOREM JailedAfterMisses == Spec => JailedOnlyAfterMisses
<1>1. IndInv /\ MissesAreConsecutive /\ [Next]_vars =>
        [\A v \in Validators :
           phase = "expire" /\ staking'[v] # staking[v] =>
             /\ staking'[v] = "jailed"
             /\ MissedInARow(v, lastExpired', MaxConsecutiveMisses + 1)]_vars
  <2> SUFFICES ASSUME IndInv, MissesAreConsecutive, [Next]_vars, NEW v \in Validators,
                      phase = "expire", staking'[v] # staking[v]
               PROVE  /\ staking'[v] = "jailed"
                      /\ MissedInARow(v, lastExpired', MaxConsecutiveMisses + 1)
    OBVIOUS
  <2>1. CASE ExpireRequest
    <3>1. lastExpired' = lastExpired + 1
      BY <2>1, ExpireRequestEffect
    <3> QED
      BY <2>1, <3>1, ExpireRequestMisses
  <2>2. CASE RequestData \/ OnRecvPacket
    BY <2>2, PrepareRequestEffect
  <2>3. ASSUME NEW id \in RequestIDs, NEW val \in Validators,
               NEW addr \in Validators \cup Accounts, NEW eids \in ExternalIDSets,
               ReportData(id, val, addr, eids)
        PROVE  FALSE
    BY <2>3, ReportDataEffect
  <2>4. CASE ResolveRequest
    BY <2>4, ResolveRequestEffect
  <2> QED
    BY <2>1, <2>2, <2>3, <2>4, NextCases
<1> QED
  BY <1>1, MissesInductive, PTL DEF Spec, JailedOnlyAfterMisses

-----------------------------------------------------------------------------
(* Chains that are exported and started again.  The type invariant of       *)
(* OracleRequests does not survive a start, since the requests are gone;    *)
(* what does is that IDs below the counter are the only ones in use.        *)
GenesisInv ==
  /\ requestCount \in Nat
  /\ DOMAIN requests \subseteq 1 .. requestCount
  /\ DOMAIN results \subseteq 1 .. requestCount
  /\ \A id \in DOMAIN results : results[id] # Nil
  /\ results = [id \in DOMAIN results |-> results[id]]

Largest(s) == Max(s)

Exporting == INSTANCE FoldTheorems WITH op <- AddExported, choose <- Largest

Entries == [id \in DOMAIN results |-> [key |-> id, value |-> results[id]]]

Nothing == [previous |-> 0, list |-> << >>]

LEMMA ExportIsFold ==
  GetAllResults = Exporting!Fold(Entries, Nothing, DOMAIN results).list
BY DEF GetAllResults, MapThenFoldSet, Entries, Nothing,
       Exporting!Fold, Exporting!MapThenFoldSet, Largest

(* The iterator has a next key as long as there are keys. *)
LEMMA ResultsChoose ==
  ASSUME GenesisInv
  PROVE  /\ Exporting!IsFiniteSet(DOMAIN results)
         /\ \A T \in SUBSET DOMAIN results : T # {} =>
              /\ Largest(T) \in T
              /\ \A y \in T : Largest(T) >= y
         /\ Exporting!Chooses(DOMAIN results)
<1>1. IsFiniteSet(DOMAIN results) /\ \A x \in DOMAIN results : x \in Nat
  <2>1. IsFiniteSet(1 .. requestCount)
    BY FS_Interval DEF GenesisInv
  <2> QED
    BY <2>1, FS_Subset DEF GenesisInv
<1>2. Exporting!IsFiniteSet(DOMAIN results)
  BY <1>1 DEF IsFiniteSet, Exporting!IsFiniteSet
<1>3. \A T \in SUBSET DOMAIN results : T # {} => \E m \in T : \A y \in T : m >= y
  BY <1>1, <1>2, Exporting!LargestExists
<1>4. ASSUME NEW T \in SUBSET DOMAIN results, T # {}
      PROVE  Largest(T) \in T /\ \A y \in T : Largest(T) >= y
  BY <1>3, <1>4 DEF Largest, Max
<1> QED
  BY <1>2, <1>4 DEF Exporting!Chooses

(* After the keys in T the list has an entry for each ID up to the last of  *)
(* them, and the entry of each key is its result.                           *)
Exported(exported, T) ==
  /\ exported.previous \in Nat
  /\ exported.previous = 0 \/ exported.previous \in T
  /\ \A k \in T : k <= exported.previous
  /\ exported.list \in [1 .. exported.previous -> {results[k] : k \in T} \cup {Nil}]
  /\ \A i \in 1 .. exported.previous :
       exported.list[i] = IF i \in T THEN results[i] ELSE Nil

LEMMA ConcatThree ==
  ASSUME NEW C, NEW s \in Seq(C), NEW g \in Seq(C), NEW x \in C
  PROVE  LET all == s \o g \o <<x>>
         IN  /\ all \in Seq(C) /\ Len(all) = Len(s) + Len(g) + 1
             /\ \A i \in 1 .. Len(s) : all[i] = s[i]
             /\ \A i \in 1 .. Len(g) : all[Len(s) + i] = g[i]
             /\ all[Len(s) + Len(g) + 1] = x
<1>1. PICK a : a = s \o g
  OBVIOUS
<1>2. /\ a \in Seq(C) /\ Len(a) = Len(s) + Len(g)
      /\ \A i \in 1 .. Len(s) : a[i] = s[i]
      /\ \A i \in 1 .. Len(g) : a[Len(s) + i] = g[i]
  BY <1>1
<1>3. PICK all : all = a \o <<x>>
  OBVIOUS
<1>4. /\ all \in Seq(C) /\ Len(all) = Len(a) + 1
      /\ \A i \in 1 .. Len(a) : all[i] = a[i]
      /\ all[Len(a) + 1] = x
  <2>1. PICK one : one = <<x>>
    OBVIOUS
  <2>2. one \in Seq(C) /\ Len(one) = 1 /\ one[1] = x
    BY <2>1
  <2>3. all = a \o one /\ a \in Seq(C)
    BY <1>2, <1>3, <2>1
  <2>4. /\ all \in Seq(C) /\ Len(all) = Len(a) + Len(one)
        /\ \A i \in 1 .. Len(a) + Len(one) :
             all[i] = IF i <= Len(a) THEN a[i] ELSE one[i - Len(a)]
    BY <2>2, <2>3, ConcatProperties
  <2>5. Len(a) \in Nat
    BY <2>3
  <2> QED
    BY <2>2, <2>4, <2>5
<1> QED
  BY <1>1, <1>2, <1>3, <1>4

(* One iteration of the loop keeps this. *)
LEMMA AddExportedKeeps ==
  ASSUME GenesisInv, NEW T \in SUBSET DOMAIN results, T # {}, NEW exported,
         Exported(exported, T \ {Largest(T)})
  PROVE  Exported(AddExported(Entries[Largest(T)], exported), T)
<1> DEFINE k == Largest(T)
           p == exported.previous
           C == {results[i] : i \in T} \cup {Nil}
           gap == [i \in 1 .. k - p - 1 |-> Nil]
           added == AddExported(Entries[k], exported)
<1>1. k \in T /\ \A y \in T : k >= y
  BY ResultsChoose
<1>2. k \in Nat \ {0} /\ T \subseteq Nat \ {0} /\ k \in DOMAIN results
  BY <1>1 DEF GenesisInv
<1>3. p \in Nat /\ p < k
  BY <1>1, <1>2 DEF Exported
<1>4. Entries[k] = [key |-> k, value |-> results[k]]
  BY <1>2 DEF Entries
<1>5. /\ added.previous = k
      /\ added.list = exported.list \o gap \o <<results[k]>>
  <2>1. ASSUME NEW entry, entry.key = k, entry.value = results[k]
        PROVE  AddExported(entry, exported) =
                 [previous |-> k, list |-> exported.list \o gap \o <<results[k]>>]
    BY <2>1 DEF AddExported
  <2>2. Entries[k].key = k /\ Entries[k].value = results[k]
    BY <1>4
  <2>3. added = [previous |-> k, list |-> exported.list \o gap \o <<results[k]>>]
    BY <2>1, <2>2
  <2> HIDE DEF added, gap, k
  <2> QED
    BY <2>3
<1>6. /\ exported.list \in Seq(C) /\ Len(exported.list) = p
      /\ \A i \in 1 .. p : exported.list[i] = IF i \in T THEN results[i] ELSE Nil
  <2>1. exported.list \in [1 .. p -> C]
    BY <1>3 DEF Exported
  <2>2. \A i \in 1 .. p : i # k
    BY <1>2, <1>3
  <2> QED
    BY <1>3, <2>1, <2>2 DEF Exported
<1>7. gap \in Seq(C) /\ Len(gap) = k - p - 1
  BY <1>2, <1>3
<1>8. <<results[k]>> \in Seq(C) /\ Len(<<results[k]>>) = 1
  BY <1>1
<1> HIDE DEF C
<1>9. results[k] \in C
  BY <1>1 DEF C
<1>10. /\ added.list \in Seq(C) /\ Len(added.list) = k
       /\ \A i \in 1 .. p : added.list[i] = exported.list[i]
       /\ \A i \in 1 .. k - p - 1 : added.list[p + i] = gap[i]
       /\ added.list[k] = results[k]
  <2> DEFINE s == exported.list
             all == s \o gap \o <<results[k]>>
  <2>1. /\ all \in Seq(C) /\ Len(all) = Len(s) + Len(gap) + 1
        /\ \A i \in 1 .. Len(s) : all[i] = s[i]
        /\ \A i \in 1 .. Len(gap) : all[Len(s) + i] = gap[i]
        /\ all[Len(s) + Len(gap) + 1] = results[k]
    <3>1. s \in Seq(C) /\ gap \in Seq(C) /\ results[k] \in C
      BY <1>6, <1>7, <1>9
    <3> HIDE DEF s, gap, k
    <3> QED
      BY <3>1, ConcatThree
  <2>2. Len(s) = p /\ Len(gap) = k - p - 1 /\ Len(s) + Len(gap) + 1 = k
    <3>1. Len(s) = p
      BY <1>6
    <3>2. Len(gap) = k - p - 1
      BY <1>7
    <3> HIDE DEF s, gap, k, p
    <3> QED
      BY <1>2, <1>3, <3>1, <3>2
  <2>3. added.list = all
    BY <1>5
  <2> HIDE DEF all, added, gap, k, p
  <2>4. \A i \in 1 .. p : added.list[i] = s[i]
    BY <2>1, <2>2, <2>3
  <2> QED
    BY <2>1, <2>2, <2>3, <2>4
<1>11. ASSUME NEW i \in 1 .. k PROVE added.list[i] = IF i \in T THEN results[i] ELSE Nil
  <2>1. CASE i = k
    BY <1>1, <1>10, <2>1
  <2>2. CASE i \in 1 .. p
    BY <1>6, <1>10, <2>2
  <2>3. CASE i \in p + 1 .. k - 1
    <3>1. i - p \in 1 .. k - p - 1 /\ p + (i - p) = i
      BY <1>2, <1>3, <2>3
    <3>2. added.list[i] = Nil
      BY <1>10, <3>1
    <3>3. i \notin T
      BY <1>2, <1>3, <2>3 DEF Exported
    <3> QED
      BY <3>2, <3>3
  <2> QED
    BY <1>2, <1>3, <2>1, <2>2, <2>3
<1>12. added.list \in [1 .. k -> C]
  BY <1>2, <1>10
<1> QED
  BY <1>1, <1>2, <1>5, <1>11, <1>12 DEF Exported, C

LEMMA ExportedAll ==
  ASSUME GenesisInv
  PROVE  \A T \in SUBSET DOMAIN results :
           Exported(Exporting!Fold(Entries, Nothing, T), T)
<1> DEFINE D == DOMAIN results
           Value(T) == Exporting!Fold(Entries, Nothing, T)
           F == {T \in SUBSET D : ~Exported(Value(T), T)}
<1> SUFFICES ASSUME F # {} PROVE FALSE
  OBVIOUS
<1>1. /\ Exporting!IsFiniteSet(D) /\ Exporting!Chooses(D)
      /\ \A T \in SUBSET D : T # {} => Largest(T) \in T
  BY ResultsChoose
<1>2. PICK T \in F : \A t \in F : t \subseteq T => t = T
  <2>1. F \subseteq SUBSET D
    OBVIOUS
  <2> HIDE DEF F
  <2> QED
    BY <1>1, <2>1, Exporting!SmallestSet
<1>3. T \in SUBSET D /\ ~Exported(Value(T), T)
  OBVIOUS
<1>4. Value(T) = IF T = {} THEN Nothing
                 ELSE AddExported(Entries[Largest(T)], Value(T \ {Largest(T)}))
  <2>1. Exporting!IsFiniteSet(T) /\ Exporting!Chooses(T)
    BY <1>1, <1>3, Exporting!SubsetChooses
  <2> QED
    BY <2>1, Exporting!FoldEquation DEF Exporting!Rest
<1>5. T # {}
  <2>1. ASSUME T = {} PROVE Exported(Nothing, T)
    <3>1. Nothing.previous = 0 /\ Nothing.list = << >>
      BY DEF Nothing
    <3>2. << >> \in [1 .. 0 -> {results[k] : k \in T} \cup {Nil}]
      OBVIOUS
    <3> QED
      BY <2>1, <3>1, <3>2 DEF Exported
  <2> QED
    BY <1>3, <1>4, <2>1
<1> DEFINE U == T \ {Largest(T)}
<1>6. U \in SUBSET D /\ U \subseteq T /\ U # T
  BY <1>1, <1>3, <1>5
<1>7. Exported(Value(U), U)
  BY <1>2, <1>6
<1> HIDE DEF Value
<1> QED
  BY <1>3, <1>4, <1>5, <1>7, AddExportedKeeps

(* What is exported and started from again are the results, each under its  *)
(* ID, and a counter that no ID of a result exceeds.                        *)
LEMMA ExportAndStartEffect ==
  ASSUME GenesisInv, ExportAndStart
  PROVE  /\ results' = results
         /\ requestCount' \in Nat
         /\ \A id \in DOMAIN results : id <= requestCount'
         /\ DOMAIN requests' = {}
<1> DEFINE D == DOMAIN results
           list == GetAllResults
           last == Exporting!Fold(Entries, Nothing, D).previous
<1>1. Exported(Exporting!Fold(Entries, Nothing, D), D)
  BY ExportedAll
<1>2. /\ last \in Nat
      /\ \A k \in D : k <= last
      /\ list \in [1 .. last -> {results[k] : k \in D} \cup {Nil}]
      /\ \A i \in 1 .. last : list[i] = IF i \in D THEN results[i] ELSE Nil
  BY <1>1, ExportIsFold DEF Exported
<1>3. /\ results' = [id \in {i \in DOMAIN list : list[i] # Nil} |-> list[id]]
      /\ requestCount' = Len(list)
      /\ DOMAIN requests' = {}
  BY DEF ExportAndStart, InitGenesis
<1>4. D \subseteq Nat \ {0} /\ \A id \in D : results[id] # Nil
  BY DEF GenesisInv
<1> HIDE DEF list, last
<1>5. DOMAIN list = 1 .. last
  BY <1>2
<1>6. Len(list) = last
  BY <1>2, <1>5
<1>7. {i \in DOMAIN list : list[i] # Nil} = D
  <2>1. \A i \in D : i \in 1 .. last
    BY <1>2, <1>4
  <2> HIDE DEF D
  <2>2. \A i \in 1 .. last : list[i] # Nil <=> i \in D
    BY <1>2, <1>4
  <2> QED
    BY <1>5, <2>1, <2>2
<1>8. \A id \in D : list[id] = results[id]
  BY <1>2, <1>4
<1>9. results' = [id \in D |-> results[id]]
  BY <1>3, <1>7, <1>8
<1> QED
  BY <1>2, <1>3, <1>6, <1>9 DEF GenesisInv

(* Saving the result of a request that is there. *)
LEMMA SaveResultGenesis ==
  ASSUME GenesisInv, NEW id \in DOMAIN requests, NEW status \in Status,
         SaveResult(id, status), UNCHANGED <<requestCount, requests>>
  PROVE  GenesisInv' /\ DOMAIN results \subseteq DOMAIN results'
<1>1. PICK value : value.status = status /\ results' = SetKey(results, id, value)
  BY DEF SaveResult
<1>2. /\ DOMAIN results' = DOMAIN results \cup {id}
      /\ \A k \in DOMAIN results' : results'[k] = IF k = id THEN value ELSE results[k]
      /\ results' = [k \in DOMAIN results' |-> results'[k]]
  BY <1>1 DEF SetKey
<1>3. value # Nil
  <2>1. Nil.status = "nil" /\ status # "nil"
    BY DEF Nil, Status
  <2> QED
    BY <1>1, <2>1
<1> QED
  BY <1>2, <1>3 DEF GenesisInv

(* A step of the chain between two exports. *)
LEMMA NextGenesis ==
  ASSUME GenesisInv, [Next]_vars
  PROVE  GenesisInv' /\ DOMAIN results \subseteq DOMAIN results'
<1>1. CASE RequestData \/ OnRecvPacket
  <2>1. PICK askCount \in 0 .. MaxAskCount, minCount \in 0 .. MaxMinCount, ibc \in BOOLEAN :
          PrepareRequest(askCount, minCount, ibc)
    BY <1>1 DEF RequestData, OnRecvPacket
  <2>2. /\ requestCount' = requestCount + 1
        /\ DOMAIN requests' = DOMAIN requests \cup {requestCount + 1}
        /\ results' = results
    BY <2>1 DEF PrepareRequest, SetKey, txVars
  <2> QED
    BY <2>2 DEF GenesisInv
<1>2. CASE ResolveRequest
  <2>1. PICK id \in DOMAIN requests, status \in FinalStatus : SaveResult(id, status)
    BY <1>2 DEF ResolveRequest
  <2> QED
    BY <1>2, <2>1, SaveResultGenesis DEF ResolveRequest, Status, FinalStatus
<1>3. CASE ExpireRequest
  <2>1. PICK id \in DOMAIN requests : SaveResult(id, "Expired") \/ UNCHANGED results
    BY <1>3 DEF ExpireRequest
  <2>2. UNCHANGED <<requestCount, requests>>
    BY <1>3 DEF ExpireRequest
  <2>3. CASE SaveResult(id, "Expired")
    BY <2>2, <2>3, SaveResultGenesis DEF Status
  <2>4. CASE UNCHANGED results
    BY <2>2, <2>4 DEF GenesisInv
  <2> QED
    BY <2>1, <2>3, <2>4
<1>4. CASE UNCHANGED <<requestCount, requests, results>>
  BY <1>4 DEF GenesisInv
<1> QED
  BY <1>1, <1>2, <1>3, <1>4
     DEF Next, DeliverTx, HandleEndBlock, ReportData, AddReporter, RemoveReporter,
         StakingChange, EndBlock, ClearPendingList, Commit, vars, txVars

LEMMA GenesisInductive == GenesisSpec => []GenesisInv
<1>1. Init => GenesisInv
  BY DEF Init, GenesisInv
<1>2. ASSUME GenesisInv, [GenesisNext]_vars PROVE GenesisInv'
  <2>1. CASE [Next]_vars
    BY <1>2, <2>1, NextGenesis
  <2>2. CASE ExportAndStart
    <3>1. /\ results' = results
          /\ requestCount' \in Nat
          /\ \A id \in DOMAIN results : id <= requestCount'
          /\ DOMAIN requests' = {}
      BY <1>2, <2>2, ExportAndStartEffect
    <3> QED
      BY <1>2, <3>1 DEF GenesisInv
  <2> QED
    BY <1>2, <2>1, <2>2 DEF GenesisNext
<1> QED
  BY <1>1, <1>2, PTL DEF GenesisSpec

(* However often a chain is exported and started again, RequestCount is no  *)
(* less than the ID of any result: no new request gets an ID whose result   *)
(* is there already, which AddReport would take for its own.                *)
THEOREM FreshRequestIDs == GenesisSpec => []NoResultBeforeRequest
<1>1. GenesisInv => NoResultBeforeRequest
  BY DEF GenesisInv, NoResultBeforeRequest
<1> QED
  BY <1>1, GenesisInductive, PTL

(* GetAllResults and InitGenesis bring every result back under its own ID,  *)
(* gaps included, and no step of the chain removes one.                     *)
THEOREM ResultsStay == GenesisSpec => ResultsKeepIDs
<1>1. ASSUME GenesisInv, [GenesisNext]_vars
      PROVE  [/\ DOMAIN results \subseteq DOMAIN results'
              /\ ExportAndStart => results' = results]_vars
  <2>1. ExportAndStart => results' = results
    BY <1>1, ExportAndStartEffect
  <2>2. CASE [Next]_vars
    BY <1>1, <2>1, <2>2, NextGenesis
  <2>3. CASE ExportAndStart
    BY <2>1, <2>3
  <2> QED
    BY <1>1, <2>2, <2>3 DEF GenesisNext
<1> QED
  BY <1>1, GenesisInductive, PTL DEF GenesisSpec, ResultsKeepIDs
=============================================================================
