----------------------------- MODULE MCServices -----------------------------
(***************************************************************************)
(* The parts of the system that meet in no state of their own: a separate  *)
(* upload, a parallel retrieval, the rewriting of a locked file, a search  *)
(* for the serving repository, the sending of keywords, the layout of      *)
(* blocks, the choice of a transfer's form, the accepting of connections.  *)
(* A behaviour exercises one of them, focus, and leaves the others in one  *)
(* initial state, so that one run explores the sum of their state spaces   *)
(* and not the product.                                                    *)
(***************************************************************************)
EXTENDS SeparateTransfer, ParallelGet, LockedFile, Failover, SecureKeyword,
        BlockLayout, TransferForm, Listener

VARIABLE focus

svars == <<sepvars, gvars, lvars, fvars, kvars, layoutVars, formVars, nvars, focus>>

Services == {"separate", "get", "locked", "search", "keyword", "layout", "form",
             "listen"}
-----------------------------------------------------------------------------
(* Three blocks, the last one empty; two blocks of two chunks and one.     *)
MCSepLength == [b \in 0 .. 2 |-> IF b = 2 THEN 0 ELSE 1]
MCSepOff    == [b \in 0 .. 3 |-> IF b = 3 THEN 2 ELSE b]
MCSepWeight == [b \in 0 .. 2 |-> 1]
MCGLength   == [b \in 0 .. 1 |-> 2 - b]
MCGOff      == [b \in 0 .. 2 |-> IF b = 2 THEN 3 ELSE 2 * b]
MCGWeight   == [b \in 0 .. 1 |-> 1]

MCJobs == {[p \in Updaters |-> IF p = "u1" THEN "prune" ELSE "mod"],
           [p \in Updaters |-> "add"], [p \in Updaters |-> "mod"]}
MCRepositories == <<"r1", "r2", "r3">>
MCItem == [p \in Issuers |-> IF p = "k1" THEN "i1" ELSE "i2"]
-----------------------------------------------------------------------------
(* The initial state of a service that the behaviour leaves alone.         *)
LockedIdle == table = [there |-> TRUE, has |-> {}] /\ job = [p \in Updaters |-> "mod"]
SearchIdle ==
    /\ build = "TRANSCEND" /\ request = "ping"
    /\ up = {} /\ holders = {} /\ home = NoServer
    /\ search = [server |-> Repositories[1], cnt |-> 1, ret |-> "none", first |-> "none",
                 ended |-> FALSE]
LayoutIdle == cut = [form |-> "separate", size |-> 0, asked |-> 0]
FormIdle ==
    ask = [dir |-> "put", option |-> "none", delete |-> FALSE, kind |-> "file",
           zipped |-> FALSE, several |-> FALSE, size |-> LeastServer, plain |-> TRUE,
           platform |-> "unix", build |-> "TRANSCEND", stray |-> FALSE]

ServicesInit ==
    /\ focus \in Services
    /\ SepInit /\ GInit /\ KInit /\ NInit
    /\ (IF focus = "locked" THEN TRUE ELSE LockedIdle) /\ LInit
    /\ (IF focus = "search" THEN TRUE ELSE SearchIdle) /\ FInit
    /\ (IF focus = "layout" THEN TRUE ELSE LayoutIdle) /\ LayoutInit
    /\ (IF focus = "form"   THEN TRUE ELSE FormIdle)   /\ FormInit

SepService ==
    /\ focus = "separate" /\ SepNext
    /\ UNCHANGED <<gvars, lvars, fvars, kvars, layoutVars, formVars, nvars, focus>>
GetService ==
    /\ focus = "get" /\ GNext
    /\ UNCHANGED <<sepvars, lvars, fvars, kvars, layoutVars, formVars, nvars, focus>>
LockService ==
    /\ focus = "locked" /\ LNext
    /\ UNCHANGED <<sepvars, gvars, fvars, kvars, layoutVars, formVars, nvars, focus>>
SearchService ==
    /\ focus = "search" /\ FNext
    /\ UNCHANGED <<sepvars, gvars, lvars, kvars, layoutVars, formVars, nvars, focus>>
KeywordService ==
    /\ focus = "keyword" /\ KNext
    /\ UNCHANGED <<sepvars, gvars, lvars, fvars, layoutVars, formVars, nvars, focus>>
LayoutService ==
    /\ focus = "layout" /\ LayoutNext
    /\ UNCHANGED <<sepvars, gvars, lvars, fvars, kvars, formVars, nvars, focus>>
FormService ==
    /\ focus = "form" /\ FormNext
    /\ UNCHANGED <<sepvars, gvars, lvars, fvars, kvars, layoutVars, nvars, focus>>
ListenService ==
    /\ focus = "listen" /\ NNext
    /\ UNCHANGED <<sepvars, gvars, lvars, fvars, kvars, layoutVars, formVars, focus>>

ServicesNext ==
    \/ SepService \/ GetService \/ LockService \/ SearchService
    \/ KeywordService \/ LayoutService \/ FormService \/ ListenService

(* The fairness of each service, for the behaviours that exercise it.      *)
ServicesFairness ==
    /\ WF_sepvars(focus = "separate" /\ SepClientStep)
    /\ WF_sepvars(focus = "separate" /\ WaiterStep)
    /\ \A b \in SepBlocks, t \in SepAttempts :
         WF_sepvars(focus = "separate" /\ WriterStep(b, t))
    /\ \A b \in GBlocks : WF_gvars(focus = "get" /\ GetterStep(b))
    /\ \A b \in GBlocks, t \in GAttempts : WF_gvars(focus = "get" /\ GiverStep(b, t))
    /\ WF_gvars(focus = "get" /\ GParentStep)
    /\ WF_gvars(focus = "get" /\ GServStep)
    /\ \A p \in Updaters : WF_lvars(focus = "locked" /\ UpdaterStep(p))
    /\ WF_fvars(focus = "search" /\ ClientSearches)
    /\ \A p \in Issuers : WF_kvars(focus = "keyword" /\ IssuerStep(p))

ServicesSpec == ServicesInit /\ [][ServicesNext]_svars /\ ServicesFairness
-----------------------------------------------------------------------------
(* Every service keeps its state within its types: no counter of attempts, *)
(* waits, draws, contacts or blocks leaves its range.                      *)
ServicesTypeOK ==
    /\ SepTypeOK /\ GTypeOK /\ LTypeOK /\ FTypeOK
    /\ KTypeOK /\ LayoutTypeOK /\ FormTypeOK /\ NTypeOK

(* Without failures both sides of a separate upload come to an end (with   *)
(* one, rcv_separate may wait for a count that never comes).               *)
SeparateSettles == focus = "separate" => SepSettles

(* Without failures both sides of a parallel retrieval come to an end.     *)
RetrievalSettles == focus = "get" => GetSettles

(* A lock file that a killed process left stops nobody for good.           *)
LocksEnd == focus = "locked" => StaleLocksEnd

(* A search for the serving repository ends, whatever the servers answer.  *)
SearchEnds == focus = "search" => FailoverEnds

(* A request for keywords ends, data base or no data base.                 *)
RequestsEnd == focus = "keyword" => KeywordsEnd
=============================================================================
