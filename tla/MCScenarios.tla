----------------------------- MODULE MCScenarios -----------------------------
(***************************************************************************)
(* Instances of Repository for TLC.  Server children are interchangeable   *)
(* in the safety runs.  The run "repository" explores for each form of     *)
(* upload the requests that may meet it: the form of a behaviour never     *)
(* changes, so that the run is a sum of scenarios, and every scenario has  *)
(* the bounds it can afford.                                               *)
(***************************************************************************)
EXTENDS Repository, FiniteSets, TLC

Children == Permutations(Procs)

Accepted ==
    [none     |-> {},
     serial   |-> {"put", "lock", "unlock", "extend", "get", "dlt", "cron"},
     parallel |-> {"put", "block", "put_ack", "lock", "unlock", "get", "getdlt",
                   "cron"},
     onestep  |-> {"upload1", "zip", "extend", "owner_dlt", "user_dlt", "set_email",
                   "clear_email", "dlt"}]
AtWork   == [none |-> 0, serial |-> 3, parallel |-> 2, onestep |-> 2]
Repeated == [none |-> {}, serial |-> {}, parallel |-> {"block"}, onestep |-> {"extend"}]
LastDay  == [none |-> 1, serial |-> 1, parallel |-> 3, onestep |-> 1]
MostDays == [none |-> 0, serial |-> 1, parallel |-> 0, onestep |-> 2 * ExtendMax]

(* The bounds of the scenario on a step: the requests, the children at     *)
(* work (an audit meets one other at a time, and so does a request after   *)
(* the serial upload) and the requests that two of them may serve at once, *)
(* the clock, the days of the extensions (ExtensionBound has the 1-step    *)
(* upload stay below them); an item is extended or has a flag set, the     *)
(* owner's or the one for e-mail.  The uploader asks for the deletion: a   *)
(* get that deletes nothing is one that ends before it unlinks.            *)
Within ==
    /\ \A p \in Procs : op'[p] \in Accepted[form'] \cup {"none"}
    /\ LET atwork == {p \in Procs : pc'[p] # "idle"}
           served == {op'[p] : p \in atwork}
       IN  /\ Cardinality(atwork) <= AtWork[form']
           /\ "cron" \in served \/ "put" \notin served => Cardinality(atwork) <= 2
    /\ \A p, q \in Procs :
           op'[p] = op'[q] => p = q \/ op'[p] \in Repeated[form'] \cup {"none"}
    /\ \A p \in Procs : pc'[p] = "put_md" => fs'[p].body.dlt = "yes"
    /\ now' <= LastDay[form']
    /\ md'.body.ext <= MostDays[form']
    /\ md'.body.ext > 0 => ~md'.body.email /\ md'.body.dlt # "owner"
=============================================================================
