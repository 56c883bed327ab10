------------------------------ MODULE Listener ------------------------------
(***************************************************************************)
(* The daemon of a server.  It accepts one connection after the other,     *)
(* reads the table of destinations from the data base again when that is   *)
(* due, and forks a child that serves the request with the table as it was *)
(* at the fork.  The table is read between the accept and the fork, by the *)
(* daemon itself, and a connection to the data base that fails ends the    *)
(* process that wanted it, child or daemon (sql_connect).                  *)
(***************************************************************************)
EXTENDS Integers

CONSTANTS
    Connections,    \* bound: connections, accepted in the order of the queue
    Reload,         \* TIME_TO_RELOAD_DATABASE, in ticks
    LastTick,       \* bound: ticks of the clock
    NMaxFaults      \* bound: failed calls and outages of the data base

ASSUME ListenerAssumption ==
    {Connections, Reload, LastTick, NMaxFaults} \subseteq Nat /\ Reload > 0

Clients == 1 .. Connections

VARIABLES
    clock,
    database,   \* it accepts connections
    daemon,     \* position, connections accepted, last_time_checked
    destinations, \* gl_site_destinations: when it was read, and whether the
                \* last query for it failed
    visit,      \* of each connection: position, time at which the daemon looked
                \* at the clock for it, its child's copy of the table
    nfaults

nvars == <<clock, database, daemon, destinations, visit, nfaults>>

Never == -1     \* the table was never read: it is empty

Fault == nfaults < NMaxFaults /\ nfaults' = nfaults + 1
-----------------------------------------------------------------------------
(***************************************************************************)
(* main of ssl_server.c.                                                   *)
(***************************************************************************)
Accept ==
    /\ daemon.pc = "accept" /\ daemon.client < Connections
    /\ daemon' = [daemon EXCEPT !.pc = "check", !.client = @ + 1]
    /\ UNCHANGED <<clock, database, destinations, visit, nfaults>>

(* close_down1d ends the daemon, not a child.                              *)
AcceptFails ==
    /\ daemon.pc = "accept" /\ Fault
    /\ daemon' = [daemon EXCEPT !.pc = "gone"]
    /\ UNCHANGED <<clock, database, destinations, visit>>

Due == daemon.last = Never \/ clock - daemon.last >= Reload

(* Mutant: every look counts as a check.                                   *)
CheckTimeAlways ==
    /\ daemon.pc = "check"
    /\ daemon' = [daemon EXCEPT !.pc = IF Due THEN "load" ELSE "fork", !.last = clock]
    /\ visit' = [visit EXCEPT ![daemon.client].asked = clock]
    /\ UNCHANGED <<clock, database, destinations, nfaults>>

(* is_it_time_to_reload_database.                                          *)
CheckTime ==
    /\ daemon.pc = "check"
    /\ daemon' = [daemon EXCEPT !.pc = IF Due THEN "load" ELSE "fork",
                                !.last = IF Due THEN clock ELSE @]
    /\ visit' = [visit EXCEPT ![daemon.client].asked = clock]
    /\ UNCHANGED <<clock, database, destinations, nfaults>>

(* database_initializations: the table is read,                            *)
LoadTable ==
    /\ daemon.pc = "load" /\ database
    /\ destinations' = [at |-> clock, failed |-> FALSE]
    /\ daemon' = [daemon EXCEPT !.pc = "fork"]
    /\ UNCHANGED <<clock, database, visit, nfaults>>

(* or the query fails and the table stays as it was for another period,    *)
QueryFails ==
    /\ daemon.pc = "load" /\ database /\ Fault
    /\ destinations' = [destinations EXCEPT !.failed = TRUE]
    /\ daemon' = [daemon EXCEPT !.pc = "fork"]
    /\ UNCHANGED <<clock, database, visit>>

(* or there is no connection to the data base: exit(1) in the daemon.      *)
LoadExits ==
    /\ daemon.pc = "load" /\ ~database
    /\ daemon' = [daemon EXCEPT !.pc = "gone"]
    /\ visit' = [visit EXCEPT ![daemon.client].pc = "dropped"]
    /\ UNCHANGED <<clock, database, destinations, nfaults>>

ForkChild ==
    /\ daemon.pc = "fork"
    /\ daemon' = [daemon EXCEPT !.pc = "accept"]
    /\ visit' = [visit EXCEPT ![daemon.client].pc = "handshake", ![daemon.client].copy = destinations]
    /\ UNCHANGED <<clock, database, destinations, nfaults>>

(* The -1 of fork counts as the parent's side: the connection is closed.   *)
ForkFails ==
    /\ daemon.pc = "fork" /\ Fault
    /\ daemon' = [daemon EXCEPT !.pc = "accept"]
    /\ visit' = [visit EXCEPT ![daemon.client].pc = "dropped"]
    /\ UNCHANGED <<clock, database, destinations>>
-----------------------------------------------------------------------------
(***************************************************************************)
(* The child of client c.                                                  *)
(***************************************************************************)
Handshake(c) ==
    /\ visit[c].pc = "handshake"
    /\ visit' = [visit EXCEPT ![c].pc = "process"]
    /\ UNCHANGED <<clock, database, daemon, destinations, nfaults>>

(* SSL_accept fails.                                                       *)
HandshakeFails(c) ==
    /\ visit[c].pc = "handshake" /\ Fault
    /\ visit' = [visit EXCEPT ![c].pc = "dropped"]
    /\ UNCHANGED <<clock, database, daemon, destinations>>

(* process_request connects to the data base first; no request is served   *)
(* without it.                                                             *)
ConnectDatabase(c) ==
    /\ visit[c].pc = "process"
    /\ visit' = [visit EXCEPT ![c].pc = IF database THEN "serve" ELSE "dropped"]
    /\ UNCHANGED <<clock, database, daemon, destinations, nfaults>>

(* company_table_rtv and server_set report a success with whatever the     *)
(* copy has, get_company_info an error when it is empty.                   *)
AnswerFrom(kind, copy) ==
    IF copy.at # Never THEN "listed" ELSE IF kind = "list" THEN "empty" ELSE "refused"

Answer(c) ==
    /\ visit[c].pc = "serve"
    /\ \E kind \in {"list", "company"} :
         visit' = [visit EXCEPT ![c].pc = AnswerFrom(kind, visit[c].copy)]
    /\ UNCHANGED <<clock, database, daemon, destinations, nfaults>>
-----------------------------------------------------------------------------
Tick ==
    /\ clock < LastTick
    /\ clock' = clock + 1
    /\ UNCHANGED <<database, daemon, destinations, visit, nfaults>>

DatabaseStops ==
    /\ database /\ Fault
    /\ database' = FALSE
    /\ UNCHANGED <<clock, daemon, destinations, visit>>

DatabaseStarts ==
    /\ ~database
    /\ database' = TRUE
    /\ UNCHANGED <<clock, daemon, destinations, visit, nfaults>>

NInit ==
    /\ clock = 0 /\ database = TRUE /\ nfaults = 0
    /\ daemon = [pc |-> "accept", client |-> 0, last |-> Never]
    /\ destinations = [at |-> Never, failed |-> FALSE]
    /\ visit = [c \in Clients |-> [pc |-> "connect", asked |-> 0, copy |-> destinations]]

DaemonStep ==
    \/ Accept \/ CheckTime \/ LoadTable \/ LoadExits \/ ForkChild

ChildStep(c) == Handshake(c) \/ ConnectDatabase(c) \/ Answer(c)

NNext ==
    \/ DaemonStep \/ AcceptFails \/ QueryFails \/ ForkFails
    \/ \E c \in Clients : ChildStep(c) \/ HandshakeFails(c)
    \/ Tick \/ DatabaseStops \/ DatabaseStarts

NSpec == NInit /\ [][NNext]_nvars
-----------------------------------------------------------------------------
NTypeOK ==
    /\ clock \in 0 .. LastTick /\ database \in BOOLEAN /\ nfaults \in 0 .. NMaxFaults
    /\ daemon \in [pc : {"accept", "check", "load", "fork", "gone"},
                   client : 0 .. Connections, last : Never .. LastTick]
    /\ destinations \in [at : Never .. LastTick, failed : BOOLEAN]
    /\ visit \in [Clients -> [pc : {"connect", "handshake", "process", "serve",
                                    "listed", "empty", "refused", "dropped"},
                              asked : 0 .. LastTick,
                              copy : [at : Never .. LastTick, failed : BOOLEAN]]]

Forked(c) == visit[c].pc \in {"handshake", "process", "serve", "listed", "empty", "refused"}

(* A child serves its request with destinations that were read less than a *)
(* period before its connection was looked at, however long the daemon was *)
(* idle or the data base took, or the last query for them failed; then,    *)
(* and only then, a client may be told that there are none.                *)
TableIsRecent ==
    \A c \in Clients : Forked(c) =>
        \/ visit[c].copy.failed
        \/ visit[c].copy.at # Never /\ visit[c].copy.at + Reload > visit[c].asked
=============================================================================
