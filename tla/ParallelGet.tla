---------------------------- MODULE ParallelGet ----------------------------
(***************************************************************************)
(* The parallel retrieval of one file.  The client forks a child per block,*)
(* each reads its block from a server child of its own and tries again     *)
(* when that fails.  Both sides count in a table with a slot per block; the*)
(* server's process waits until all slots are finished, the client's one   *)
(* until all are finished or the sizes add up.  Then the client sends its  *)
(* totals, the server compares, answers and deletes the data if the        *)
(* request or the owner said so.                                           *)
(***************************************************************************)
EXTENDS Naturals

CONSTANTS
    GN,             \* NUM_PARALLEL_PROCESSES
    GLength,        \* GLength[b]: the chunks of block b
    GOff,           \* GOff[b]: its offset, GOff[GN] the file's size
    GWeight,        \* GWeight[b]: what a chunk of block b adds to the checksum
    GTries,         \* attempts of a client child
    GReport,        \* a client child reports its progress every GReport chunks
    GMaxFaults      \* bound: broken connections, failed writes, killed children

GBlocks == 0 .. GN - 1
GAttempts == 1 .. GTries

ASSUME GetAssumption ==
    /\ GN \in Nat \ {0} /\ GTries \in Nat \ {0} /\ GReport \in Nat \ {0}
    /\ GMaxFaults \in Nat
    /\ GLength \in [GBlocks -> Nat] /\ GWeight \in [GBlocks -> Nat]
    /\ GOff \in [0 .. GN -> Nat] /\ GOff[0] = 0
    /\ \A b \in GBlocks : GOff[b + 1] = GOff[b] + GLength[b]

VARIABLES
    getter,      \* client child: position, attempt, chunks read, connection broken
    gslot,       \* the client's table
    onDisk,      \* onDisk[b]: chunks of block b in the client's file
    giver,       \* server child of each attempt at each block
    gsslot,      \* the server's table
    served,      \* the data file exists on the server
    gpar,        \* the client's process: its pass over the table
    gserv,       \* get_parallel and what follows it: its pass, its position
    told,        \* what the client's user is told
    gfaults

gclient == <<getter, gslot, onDisk>>
gserver == <<giver, gsslot, served>>
gvars   == <<gclient, gserver, gpar, gserv, told, gfaults>>

GTotal == GOff[GN]                      \* fs.compressed_size
-----------------------------------------------------------------------------
(***************************************************************************)
(* trans_block_get, in the children of trans_get_parallel_compressed.      *)
(***************************************************************************)
GSlot(b, size, sum, fin) ==
    gslot' = [gslot EXCEPT ![b] = [size |-> size, sum |-> sum, fin |-> fin]]

GFinish(b) == gslot' = [gslot EXCEPT ![b].fin = TRUE]

GAgain(b) ==
    LET more == getter[b].try < GTries IN
    getter' = [getter EXCEPT ![b].pc = IF more THEN "init" ELSE "end",
                             ![b].try = IF more THEN @ + 1 ELSE @]

GetInit(b) ==
    /\ getter[b].pc = "init"
    /\ GSlot(b, 0, 0, FALSE)
    /\ getter' = [getter EXCEPT ![b].pc = "connect", ![b].got = 0, ![b].down = FALSE]
    /\ UNCHANGED <<onDisk, gserver, gpar, gserv, told, gfaults>>

GetConnect(b) ==
    /\ getter[b].pc = "connect"
    /\ getter' = [getter EXCEPT ![b].pc = "hello"]
    /\ giver' = [giver EXCEPT ![b][getter[b].try] = "start"]
    /\ UNCHANGED <<gslot, onDisk, gsslot, served, gpar, gserv, told, gfaults>>

GetHello(b) ==
    /\ getter[b].pc = "hello" /\ ~getter[b].down
    /\ giver[b][getter[b].try] \in {"send", "done"}
    /\ getter' = [getter EXCEPT ![b].pc = "read"]
    /\ UNCHANGED <<gslot, onDisk, gserver, gpar, gserv, told, gfaults>>

(* The connection fails or the server child reports an error.              *)
GetNoServer(b) ==
    /\ getter[b].pc = "hello"
    /\ getter[b].down \/ giver[b][getter[b].try] = "error"
    /\ GFinish(b)
    /\ GAgain(b)
    /\ UNCHANGED <<onDisk, gserver, gpar, gserv, told, gfaults>>

GetRead(b) ==
    LET n == getter[b].got + 1 IN
    /\ getter[b].pc = "read" /\ getter[b].got < GLength[b]
    /\ giver[b][getter[b].try] \in {"send", "done"}
    /\ getter' = [getter EXCEPT ![b].got = n]
    /\ onDisk' = [onDisk EXCEPT ![b] = IF n > @ THEN n ELSE @]
    /\ IF n % GReport = 0 THEN GSlot(b, n, n * GWeight[b], FALSE) ELSE UNCHANGED gslot
    /\ UNCHANGED <<gserver, gpar, gserv, told, gfaults>>

(* The word that ends the data, or a broken connection: the slot is        *)
(* finished with what came, before the return code is read.                *)
GetEnd(b) ==
    LET n == getter[b].got IN
    /\ getter[b].pc = "read"
    /\ getter[b].down \/ (n = GLength[b] /\ giver[b][getter[b].try] = "done")
    /\ IF n % GReport # 0 THEN GSlot(b, n, n * GWeight[b], TRUE) ELSE GFinish(b)
    /\ getter' = [getter EXCEPT ![b].pc = "code"]
    /\ UNCHANGED <<onDisk, gserver, gpar, gserv, told, gfaults>>

(* trans_ret_code_get.                                                     *)
GetCode(b) ==
    /\ getter[b].pc = "code"
    /\ \/ ~getter[b].down /\ getter' = [getter EXCEPT ![b].pc = "end"]
       \/ getter[b].down /\ GAgain(b)
    /\ UNCHANGED <<gslot, onDisk, gserver, gpar, gserv, told, gfaults>>

(* The client's disk takes no more.                                        *)
GetWriteFails(b) ==
    /\ gfaults < GMaxFaults
    /\ getter[b].pc = "read" /\ getter[b].got < GLength[b]
    /\ giver[b][getter[b].try] \in {"send", "done"}
    /\ GSlot(b, 0, 0, TRUE)
    /\ GAgain(b)
    /\ gfaults' = gfaults + 1
    /\ UNCHANGED <<onDisk, gserver, gpar, gserv, told>>

GetDrop(b) ==
    /\ gfaults < GMaxFaults
    /\ getter[b].pc \in {"hello", "read", "code"} /\ ~getter[b].down
    /\ getter' = [getter EXCEPT ![b].down = TRUE]
    /\ gfaults' = gfaults + 1
    /\ UNCHANGED <<gslot, onDisk, gserver, gpar, gserv, told>>

GetKill(b) ==
    /\ gfaults < GMaxFaults
    /\ getter[b].pc \notin {"end", "dead"}
    /\ getter' = [getter EXCEPT ![b].pc = "dead"]
    /\ gfaults' = gfaults + 1
    /\ UNCHANGED <<gslot, onDisk, gserver, gpar, gserv, told>>
-----------------------------------------------------------------------------
(***************************************************************************)
(* block_get: the server child of attempt t at block b.                    *)
(***************************************************************************)
GetBroken(b, t) == t < getter[b].try \/ getter[b].down \/ getter[b].pc = "dead"

(* Opens the file, or marks the slot and reports the error when another    *)
(* request has deleted it.                                                 *)
GiveOpen(b, t) ==
    /\ giver[b][t] = "start"
    /\ IF served
         THEN giver' = [giver EXCEPT ![b][t] = "send"] /\ UNCHANGED gsslot
         ELSE /\ giver' = [giver EXCEPT ![b][t] = "error"]
              /\ gsslot' = [gsslot EXCEPT ![b].fin = TRUE]
    /\ UNCHANGED <<gclient, served, gpar, gserv, told, gfaults>>

(* Mutant: the slot is finished before the last chunk is counted.          *)
GiveSendShort(b, t) ==
    /\ giver[b][t] = "send"
    /\ giver' = [giver EXCEPT ![b][t] = "done"]
    /\ gsslot' = [gsslot EXCEPT ![b] = [sum |-> 0, fin |-> TRUE]]
    /\ UNCHANGED <<gclient, served, gpar, gserv, told, gfaults>>

(* All chunks go out (into a connection that may break later) and the slot *)
(* counts them.  get_parallel reads the slot's finished field first, which *)
(* shared_memory_write sets last.                                          *)
GiveSend(b, t) ==
    /\ giver[b][t] = "send"
    /\ giver' = [giver EXCEPT ![b][t] = "done"]
    /\ gsslot' = [gsslot EXCEPT ![b] = [sum |-> GLength[b] * GWeight[b], fin |-> TRUE]]
    /\ UNCHANGED <<gclient, served, gpar, gserv, told, gfaults>>

(* The broken connection is noticed: shut_down, the slot stays.            *)
GiveDie(b, t) ==
    /\ giver[b][t] \in {"start", "send"} /\ GetBroken(b, t)
    /\ giver' = [giver EXCEPT ![b][t] = "gone"]
    /\ UNCHANGED <<gclient, gsslot, served, gpar, gserv, told, gfaults>>

(* Another request deletes the item.                                       *)
ServedGone ==
    /\ served /\ gfaults < GMaxFaults
    /\ served' = FALSE
    /\ gfaults' = gfaults + 1
    /\ UNCHANGED <<gclient, giver, gsslot, gpar, gserv, told>>
-----------------------------------------------------------------------------
(***************************************************************************)
(* trans_get_parallel_compressed, the parent.                              *)
(***************************************************************************)
FreshPass(pc) == [pc |-> pc, k |-> 0, fin |-> 0, size |-> 0, sum |-> 0]

GPollSlot ==
    /\ gpar.pc = "poll" /\ gpar.k < GN
    /\ gpar' = [gpar EXCEPT !.k = @ + 1,
                            !.fin = @ + IF gslot[gpar.k].fin THEN 1 ELSE 0,
                            !.size = @ + gslot[gpar.k].size,
                            !.sum = @ + gslot[gpar.k].sum]
    /\ UNCHANGED <<gclient, gserver, gserv, told, gfaults>>

(* With all slots finished and nothing received it gives up at once.       *)
GPollEnd ==
    /\ gpar.pc = "poll" /\ gpar.k = GN
    /\ IF gpar.fin >= GN \/ gpar.size >= GTotal
         THEN /\ gpar' = [gpar EXCEPT !.pc = IF gpar.fin >= GN /\ gpar.size = 0
                                               THEN "end" ELSE "report"]
              /\ told' = IF gpar.fin >= GN /\ gpar.size = 0 THEN "error" ELSE told
         ELSE gpar' = FreshPass("poll") /\ UNCHANGED told
    /\ UNCHANGED <<gclient, gserver, gserv, gfaults>>

GReply ==
    /\ gpar.pc = "report" /\ gserv.pc \in {"unlink", "end"}
    /\ gpar' = [gpar EXCEPT !.pc = "end"]
    /\ told' = gserv.said
    /\ UNCHANGED <<gclient, gserver, gserv, gfaults>>
-----------------------------------------------------------------------------
(***************************************************************************)
(* get_parallel, client_size_verify and the end of get_big_file.           *)
(***************************************************************************)
GServSlot ==
    /\ gserv.pc = "poll" /\ gserv.k < GN
    /\ gserv' = [gserv EXCEPT !.k = @ + 1,
                              !.fin = @ + IF gsslot[gserv.k].fin THEN 1 ELSE 0,
                              !.sum = @ + gsslot[gserv.k].sum]
    /\ UNCHANGED <<gclient, gserver, gpar, told, gfaults>>

(* Mutant: the server waits for one slot too many.                         *)
GServPollMore ==
    /\ gserv.pc = "poll" /\ gserv.k = GN
    /\ gserv' = IF gserv.fin > GN
                  THEN [gserv EXCEPT !.pc = "verify"]
                  ELSE [gserv EXCEPT !.k = 0, !.fin = 0, !.sum = 0]
    /\ UNCHANGED <<gclient, gserver, gpar, told, gfaults>>

GServPoll ==
    /\ gserv.pc = "poll" /\ gserv.k = GN
    /\ gserv' = IF gserv.fin >= GN
                  THEN [gserv EXCEPT !.pc = "verify"]
                  ELSE [gserv EXCEPT !.k = 0, !.fin = 0, !.sum = 0]
    /\ UNCHANGED <<gclient, gserver, gpar, told, gfaults>>

(* Mutant: only the checksum is compared.                                  *)
GServVerifySum ==
    /\ gserv.pc = "verify" /\ gpar.pc = "report"
    /\ gserv' = IF gserv.sum = gpar.sum
                  THEN [gserv EXCEPT !.pc = "unlink", !.said = "success"]
                  ELSE [gserv EXCEPT !.pc = "end", !.said = "error"]
    /\ UNCHANGED <<gclient, gserver, gpar, told, gfaults>>

(* The client's size must be the file's, its checksum the server's.        *)
GServVerify ==
    /\ gserv.pc = "verify" /\ gpar.pc = "report"
    /\ gserv' = IF gpar.size = GTotal /\ gserv.sum = gpar.sum
                  THEN [gserv EXCEPT !.pc = "unlink", !.said = "success"]
                  ELSE [gserv EXCEPT !.pc = "end", !.said = "error"]
    /\ UNCHANGED <<gclient, gserver, gpar, told, gfaults>>

(* The client went away without its totals: shut_down.                     *)
GServAlone ==
    /\ gserv.pc = "verify" /\ gpar.pc = "end"
    /\ gserv' = [gserv EXCEPT !.pc = "end"]
    /\ UNCHANGED <<gclient, gserver, gpar, told, gfaults>>

(* put_success_msg, then a retrieval with deletion unlinks the data.       *)
GServUnlink ==
    /\ gserv.pc = "unlink"
    /\ \E delete \in BOOLEAN :
         /\ served' = (served /\ ~delete)
         /\ gserv' = [gserv EXCEPT !.pc = "end", !.deleted = delete]
    /\ UNCHANGED <<gclient, giver, gsslot, gpar, told, gfaults>>
-----------------------------------------------------------------------------
GInit ==
    /\ getter = [b \in GBlocks |-> [pc |-> "init", try |-> 1, got |-> 0, down |-> FALSE]]
    /\ gslot = [b \in GBlocks |-> [size |-> 0, sum |-> 0, fin |-> FALSE]]
    /\ onDisk = [b \in GBlocks |-> 0]
    /\ giver = [b \in GBlocks |-> [t \in GAttempts |-> "none"]]
    /\ gsslot = [b \in GBlocks |-> [sum |-> 0, fin |-> FALSE]]
    /\ served = TRUE
    /\ gpar = FreshPass("poll")
    /\ gserv = [pc |-> "poll", k |-> 0, fin |-> 0, sum |-> 0, said |-> "none",
                deleted |-> FALSE]
    /\ told = "none" /\ gfaults = 0

GetterStep(b) ==
    \/ GetInit(b) \/ GetConnect(b) \/ GetHello(b) \/ GetNoServer(b)
    \/ GetRead(b) \/ GetEnd(b) \/ GetCode(b)

GiverStep(b, t) == GiveOpen(b, t) \/ GiveSend(b, t) \/ GiveDie(b, t)

GParentStep == GPollSlot \/ GPollEnd \/ GReply

GServStep == GServSlot \/ GServPoll \/ GServVerify \/ GServAlone \/ GServUnlink

GNext ==
    \/ \E b \in GBlocks : GetterStep(b) \/ GetWriteFails(b) \/ GetDrop(b) \/ GetKill(b)
    \/ \E b \in GBlocks, t \in GAttempts : GiverStep(b, t)
    \/ ServedGone \/ GParentStep \/ GServStep

GSpec == GInit /\ [][GNext]_gvars

(* Processes that are not killed run on.                                   *)
GFairness ==
    /\ \A b \in GBlocks : WF_gvars(GetterStep(b))
    /\ \A b \in GBlocks, t \in GAttempts : WF_gvars(GiverStep(b, t))
    /\ WF_gvars(GParentStep) /\ WF_gvars(GServStep)
-----------------------------------------------------------------------------
GTypeOK ==
    /\ getter \in [GBlocks -> [pc : {"init", "connect", "hello", "read", "code", "end", "dead"},
                               try : GAttempts, got : Nat, down : BOOLEAN]]
    /\ gslot \in [GBlocks -> [size : Nat, sum : Nat, fin : BOOLEAN]]
    /\ onDisk \in [GBlocks -> Nat]
    /\ giver \in [GBlocks -> [GAttempts -> {"none", "start", "send", "done", "error", "gone"}]]
    /\ gsslot \in [GBlocks -> [sum : Nat, fin : BOOLEAN]]
    /\ served \in BOOLEAN
    /\ gpar \in [pc : {"poll", "report", "end"}, k : 0 .. GN, fin : Nat, size : Nat, sum : Nat]
    /\ gserv \in [pc : {"poll", "verify", "unlink", "end"}, k : 0 .. GN, fin : Nat, sum : Nat,
                  said : {"none", "success", "error"}, deleted : BOOLEAN]
    /\ told \in {"none", "success", "error"} /\ gfaults \in Nat

GWhole == \A b \in GBlocks : onDisk[b] = GLength[b]

(* The data are deleted on the server, and the user told that they came,   *)
(* only when the client's file has every chunk of every block, whatever    *)
(* attempts failed and whenever the table was read.                        *)
GetDeletesOnlyDelivered == gserv.deleted \/ told = "success" => GWhole

(* A retrieval without failures is verified: no poll of either side sees   *)
(* totals that do not fit.                                                 *)
GetCleanSucceeds == gfaults = 0 => gserv.said # "error" /\ told # "error"

(* Without failures both sides come to an end.                             *)
GetSettles == <>(gfaults > 0 \/ (gserv.pc = "end" /\ gpar.pc = "end"))
=============================================================================
