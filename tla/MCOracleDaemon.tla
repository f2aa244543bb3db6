--------------------------- MODULE MCOracleDaemon ---------------------------
(* Small instances of OracleDaemon for TLC. *)
EXTENDS OracleDaemon, TLC

Raw(eid, executable) == [eid |-> eid, executable |-> executable]

Log(action, id, hasMe, raws) ==
  [action |-> action, id |-> id, hasMe |-> hasMe, raws |-> raws]

TwoKeys == <<11, 12>>

(* Three requests for two keys, one of them without raw requests and one    *)
(* with a short data source; one of another validator; one behind a packet  *)
(* that makes no request, one behind a request log without an ID; and a     *)
(* failed transaction.                                                      *)
SomeTransactions ==
  [t1 |-> [code |-> 0,
           logs |-> <<Log("other", 0, FALSE, << >>),
                      Log("request", 4, TRUE, << >>),
                      Log("request", 1, TRUE, <<Raw(1, "whole"), Raw(2, "whole")>>),
                      Log("packet", 2, TRUE, <<Raw(1, "short")>>)>>],
   t2 |-> [code |-> 0,
           logs |-> <<Log("request", 0, FALSE, << >>),
                      Log("request", 3, FALSE, <<Raw(1, "whole")>>),
                      Log("packet", 0, FALSE, << >>),
                      Log("request", 5, TRUE, <<Raw(1, "whole")>>)>>],
   t3 |-> [code |-> 1, logs |-> << >>]]
=============================================================================
