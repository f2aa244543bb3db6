---------------------------- MODULE OracleGenesis ----------------------------
(***************************************************************************)
(* Export of the oracle module's state and start of a new chain from it    *)
(* (ExportGenesis, GetAllResults, InitGenesis), between two blocks of      *)
(* OracleRequests.  The exported state has the results and the miss        *)
(* counters; requests, reports, the pending list, reporters and            *)
(* RequestLastExpired are not part of it.                                  *)
(***************************************************************************)
EXTENDS OracleRequests, SequencesExt

Nil == [status |-> "nil"]   \* the entry of a request without a result

(* Mutant: one Nil entry too many before a result that follows a gap. *)
AddExportedOffByOne(entry, exported) ==
  [previous |-> entry.key,
   list     |-> exported.list
                \o [i \in 1 .. entry.key - exported.previous |-> Nil]
                \o <<entry.value>>]

(* One iteration of GetAllResults: a Nil for each ID that was skipped. *)
AddExported(entry, exported) ==
  [previous |-> entry.key,
   list     |-> exported.list
                \o [i \in 1 .. entry.key - exported.previous - 1 |-> Nil]
                \o <<entry.value>>]

(* The iterator goes through the result keys in ascending order, so the     *)
(* largest one is added last.                                               *)
GetAllResults ==
  LET entries == [id \in DOMAIN results |-> [key |-> id, value |-> results[id]]]
  IN  MapThenFoldSet(AddExported, [previous |-> 0, list |-> << >>],
                     LAMBDA id : entries[id], Max, DOMAIN results).list

(* Mutant: the request counter is left at zero. *)
InitGenesisNoCount(list) ==
  /\ results' = [id \in {i \in DOMAIN list : list[i] # Nil} |-> list[id]]
  /\ requestCount' = 0
  /\ lastExpired' = 0
  /\ requests' = [i \in {} |-> {}]
  /\ reports' = [i \in {} |-> {}]
  /\ pending' = << >>
  /\ reporters' = {}
  /\ UNCHANGED missed

(* InitGenesis on an empty store. *)
InitGenesis(list) ==
  /\ results' = [id \in {i \in DOMAIN list : list[i] # Nil} |-> list[id]]
  /\ requestCount' = Len(list)
  /\ lastExpired' = 0
  /\ requests' = [i \in {} |-> {}]
  /\ reports' = [i \in {} |-> {}]
  /\ pending' = << >>
  /\ reporters' = {}
  /\ UNCHANGED missed

(* The chain stops after a commit, its state is exported and a new chain    *)
(* starts from it at height 1 (staking is exported by its own module).      *)
ExportAndStart ==
  /\ phase = "expire"
  /\ lastExpired < requestCount =>
       /\ lastExpired + 1 \in DOMAIN requests
       /\ ~IsExpired(lastExpired + 1)
  /\ InitGenesis(GetAllResults)
  /\ phase' = "deliver"
  /\ height' = 1
  /\ UNCHANGED <<staking, packets>>

GenesisNext == Next \/ ExportAndStart

GenesisSpec == Init /\ [][GenesisNext]_vars

-----------------------------------------------------------------------------
(* Results keep their request IDs: neither export nor start, nor anything   *)
(* the chain does later, loses or moves a committed result.                 *)
ResultsKeepIDs ==
  [][/\ DOMAIN results \subseteq DOMAIN results'
     /\ ExportAndStart => results' = results]_vars

(* No request is given an ID that has a result already: AddReport would     *)
(* take its reports for late ones.                                          *)
NoResultBeforeRequest ==
  \A id \in DOMAIN results : id <= requestCount
=============================================================================
