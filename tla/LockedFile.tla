----------------------------- MODULE LockedFile -----------------------------
(***************************************************************************)
(* The line files of the server that several request processes rewrite:    *)
(* the secure keywords (keyword_mod counts a retrieval, the daily          *)
(* dlt_keyword_entries drops lines) and the server sites                   *)
(* (add_server_site_entry).  Each takes a lock file that holds its process *)
(* number, copies the lines to a file of its own and renames the copy over *)
(* the original.  Whether the lock file is there and its creation are two  *)
(* system calls, and a process that waits in vain takes the lock over.     *)
(***************************************************************************)
EXTENDS Naturals

CONSTANTS
    Updaters,       \* the processes
    Jobs,           \* what the processes are to do: functions to add, mod, prune
    Waits,          \* looks at the lock file before a takeover (5)
    LMaxKills,      \* bound: killed processes
    Nobody          \* no lock file, or 0 read from it

ASSUME LockAssumption ==
    /\ Waits \in Nat \ {0} /\ LMaxKills \in Nat
    /\ Jobs \subseteq [Updaters -> {"add", "mod", "prune"}]
    /\ \A j \in Jobs : \A p, q \in Updaters : j[p] = "add" => j[q] = "add"
                      \* a file of sites is added to, one of keywords rewritten
    /\ Nobody \notin Updaters

VARIABLES
    updater,    \* position, waits, process number read first, lines copied,
                \* index: holds a lock, linked: its lock file has a name
    lock,       \* the process number in the lock file, "empty", or Nobody
    table,      \* the file: whether it is there, the updates its lines have
    job,        \* the job of each process
    overlapped, \* a process began to work while another was at work
    lkills

lvars == <<updater, lock, table, job, overlapped, lkills>>

Inside(p) == updater[p].pc \in {"open", "copy", "log", "aside", "rename", "clear"}

(* What fscanf finds: an empty file leaves the variable uninitialised.     *)
PidRead == IF lock = "empty" THEN Updaters \cup {Nobody} ELSE {lock}

Enter(p) == overlapped' = (overlapped \/ \E q \in Updaters \ {p} : Inside(q))

Goto(p, l) == updater' = [updater EXCEPT ![p].pc = l]
-----------------------------------------------------------------------------
(***************************************************************************)
(* lock_file_set and lock_file_wait.                                       *)
(***************************************************************************)
(* "If the file does not exist, do not bother locking it".                 *)
SetLock(p) ==
    /\ updater[p].pc = "start"
    /\ IF table.there THEN Goto(p, "old") /\ UNCHANGED overlapped
                      ELSE Goto(p, "open") /\ Enter(p)
    /\ UNCHANGED <<lock, table, job, lkills>>

OldPid(p) ==
    /\ updater[p].pc = "old"
    /\ \E pid \in PidRead : updater' = [updater EXCEPT ![p].pc = "look", ![p].old = pid]
    /\ UNCHANGED <<lock, table, job, overlapped, lkills>>

LookLock(p) ==
    /\ updater[p].pc = "look"
    /\ updater' = [updater EXCEPT
         ![p].pc = IF lock = Nobody THEN "create"
                   ELSE IF updater[p].waits + 1 < Waits THEN "look" ELSE "new",
         ![p].waits = IF lock = Nobody THEN @ ELSE @ + 1]
    /\ UNCHANGED <<lock, table, job, overlapped, lkills>>

(* open(O_CREAT) without O_EXCL.                                           *)
CreateLock(p) ==
    /\ updater[p].pc = "create"
    /\ lock' = IF lock = Nobody THEN "empty" ELSE lock
    /\ updater' = [updater EXCEPT ![p].pc = "pid", ![p].linked = TRUE]
    /\ UNCHANGED <<table, job, overlapped, lkills>>

(* Mutant: a process that waited in vain waits again.                      *)
NewPidPatient(p) ==
    /\ updater[p].pc = "new"
    /\ \E pid \in PidRead :
         updater' = [updater EXCEPT ![p].pc = IF pid = updater[p].old THEN "look" ELSE "refused",
                                    ![p].waits = 0]
    /\ UNCHANGED <<lock, table, job, overlapped, lkills>>

(* The same process still holds the lock: it "has aborted".  Otherwise     *)
(* close_down1m.                                                           *)
NewPid(p) ==
    /\ updater[p].pc = "new"
    /\ \E pid \in PidRead : Goto(p, IF pid = updater[p].old THEN "steal" ELSE "refused")
    /\ UNCHANGED <<lock, table, job, overlapped, lkills>>

(* lock_file_mod: fopen "w", which creates the file if it is gone.         *)
StealLock(p) ==
    /\ updater[p].pc = "steal"
    /\ lock' = "empty"
    /\ updater' = [updater EXCEPT ![p].pc = "pid", ![p].linked = TRUE]
    /\ UNCHANGED <<table, job, overlapped, lkills>>

WritePid(p) ==
    /\ updater[p].pc = "pid"
    /\ lock' = IF updater[p].linked THEN p ELSE lock
    /\ updater' = [updater EXCEPT ![p].pc = "open", ![p].index = TRUE]
    /\ Enter(p)
    /\ UNCHANGED <<table, job, lkills>>

(* lock_file_clear: unlinks the lock file, whoever made it.                *)
Unlocked(u) == [q \in Updaters |-> [u[q] EXCEPT !.linked = FALSE]]

ClearLock(p) ==
    /\ updater[p].pc = "clear"
    /\ lock' = IF updater[p].index THEN Nobody ELSE lock
    /\ LET u == IF updater[p].index THEN Unlocked(updater) ELSE updater
       IN  updater' = [u EXCEPT ![p].pc = u[p].result, ![p].index = FALSE]
    /\ UNCHANGED <<table, job, overlapped, lkills>>
-----------------------------------------------------------------------------
(***************************************************************************)
(* The rewriting.                                                          *)
(***************************************************************************)
(* Without the file keyword_mod reports an error and dlt_keyword_entries   *)
(* has nothing to do.                                                      *)
OpenTable(p) ==
    /\ updater[p].pc = "open"
    /\ IF table.there
         THEN updater' = [updater EXCEPT ![p].pc = "copy", ![p].lines = table.has]
         ELSE updater' = [updater EXCEPT ![p].pc = IF job[p] = "add" THEN "log" ELSE "clear",
                                         ![p].result = "refused"]
    /\ UNCHANGED <<lock, table, job, overlapped, lkills>>

(* data_log appends, and makes the file if need be.                        *)
LogLine(p) ==
    /\ updater[p].pc = "log"
    /\ table' = [there |-> TRUE, has |-> table.has \cup {p}]
    /\ updater' = [updater EXCEPT ![p].pc = "clear", ![p].result = "done"]
    /\ UNCHANGED <<lock, job, overlapped, lkills>>

(* Mutant: the lines after the change are not copied.                      *)
CopyTableHead(p) ==
    /\ updater[p].pc = "copy"
    /\ \/ updater' = [updater EXCEPT ![p].lines = {p}, ![p].result = "done",
                        ![p].pc = IF job[p] = "mod" THEN "aside" ELSE "rename"]
       \/ /\ job[p] # "add"
          /\ updater' = [updater EXCEPT ![p].result = "nothing", ![p].pc = "clear"]
    /\ UNCHANGED <<lock, table, job, overlapped, lkills>>

(* The copy has the change, or there is nothing to change and it is        *)
(* unlinked.                                                               *)
CopyTable(p) ==
    /\ updater[p].pc = "copy"
    /\ \/ updater' = [updater EXCEPT ![p].lines = @ \cup {p}, ![p].result = "done",
                        ![p].pc = IF job[p] = "mod" THEN "aside" ELSE "rename"]
       \/ /\ job[p] # "add"
          /\ updater' = [updater EXCEPT ![p].result = "nothing", ![p].pc = "clear"]
    /\ UNCHANGED <<lock, table, job, overlapped, lkills>>

(* keyword_mod moves the original away first.                              *)
RenameAside(p) ==
    /\ updater[p].pc = "aside"
    /\ table' = [table EXCEPT !.there = FALSE]
    /\ Goto(p, "rename")
    /\ UNCHANGED <<lock, job, overlapped, lkills>>

(* Mutant: keyword_mod forgets to move its copy to the file.               *)
RenameCopyOnce(p) ==
    /\ updater[p].pc = "rename"
    /\ table' = IF job[p] = "mod" THEN table ELSE [there |-> TRUE, has |-> updater[p].lines]
    /\ Goto(p, "clear")
    /\ UNCHANGED <<lock, job, overlapped, lkills>>

RenameCopy(p) ==
    /\ updater[p].pc = "rename"
    /\ table' = [there |-> TRUE, has |-> updater[p].lines]
    /\ Goto(p, "clear")
    /\ UNCHANGED <<lock, job, overlapped, lkills>>

(* A killed process leaves its lock file; nothing calls lock_files_clear.  *)
KillUpdater(p) ==
    /\ lkills < LMaxKills
    /\ updater[p].pc \notin {"start", "done", "nothing", "refused", "killed"}
    /\ updater' = [updater EXCEPT ![p].result = updater[p].pc, ![p].pc = "killed"]
    /\ lkills' = lkills + 1
    /\ UNCHANGED <<lock, table, job, overlapped>>
-----------------------------------------------------------------------------
LInit ==
    /\ updater = [p \in Updaters |->
                    [pc |-> "start", waits |-> 0, old |-> Nobody, lines |-> {},
                     index |-> FALSE, linked |-> FALSE, result |-> "none"]]
    /\ lock = Nobody
    /\ job \in Jobs
    /\ table \in [there : BOOLEAN, has : {{}}]
    /\ table.there \/ \A p \in Updaters : job[p] = "add"
    /\ overlapped = FALSE /\ lkills = 0

UpdaterStep(p) ==
    \/ SetLock(p) \/ OldPid(p) \/ LookLock(p) \/ CreateLock(p) \/ NewPid(p)
    \/ StealLock(p) \/ WritePid(p) \/ OpenTable(p) \/ CopyTable(p)
    \/ LogLine(p) \/ RenameAside(p) \/ RenameCopy(p) \/ ClearLock(p)

LNext == \E p \in Updaters : UpdaterStep(p) \/ KillUpdater(p)

LSpec == LInit /\ [][LNext]_lvars

LFairness == \A p \in Updaters : WF_lvars(UpdaterStep(p))
-----------------------------------------------------------------------------
LTypeOK ==
    /\ updater \in [Updaters ->
         [pc : {"start", "old", "look", "create", "new", "steal", "pid", "open", "copy",
                "log", "aside", "rename", "clear", "done", "nothing", "refused", "killed"},
          waits : 0 .. Waits, old : Updaters \cup {Nobody}, lines : SUBSET Updaters,
          index : BOOLEAN, linked : BOOLEAN,
          result : {"none", "done", "nothing", "refused", "old", "look", "create", "new",
                    "steal", "pid", "open", "copy", "log", "aside", "rename", "clear"}]]
    /\ lock \in Updaters \cup {Nobody, "empty"}
    /\ table \in [there : BOOLEAN, has : SUBSET Updaters]
    /\ job \in Jobs /\ overlapped \in BOOLEAN /\ lkills \in 0 .. LMaxKills

Finished(p) == updater[p].pc \in {"done", "nothing", "refused", "killed"}

(* An update that was reported is in the file for good, unless             *)
(* two processes were between lock and unlock at the same time.            *)
UpdatesAreKept ==
    \A p \in Updaters : updater[p].pc = "done" /\ ~overlapped => p \in table.has

(* A keyword file is missing only while keyword_mod is between its two     *)
(* renames, or for good if it is killed there.                             *)
FileIsMissedBriefly ==
    ~table.there =>
        \/ \A p \in Updaters : job[p] = "add"
        \/ \E p \in Updaters :
             /\ job[p] = "mod"
             /\ updater[p].pc = "rename" \/ (updater[p].pc = "killed" /\ updater[p].result = "rename")

(* A lock file that a killed process left stops nobody for good: every     *)
(* other process ends.                                                     *)
StaleLocksEnd == <>[](\A p \in Updaters : Finished(p))
=============================================================================
