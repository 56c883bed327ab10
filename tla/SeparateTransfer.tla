-------------------------- MODULE SeparateTransfer --------------------------
(***************************************************************************)
(* The separate transfer of one upload.  The client sends one block after  *)
(* the other, each from a forked child over a connection of its own; the   *)
(* server child of a block adds what it wrote to the one slot that all of  *)
(* them share, without a lock, and the process of the upload waits in      *)
(* rcv_separate until the slot has counted every block.                    *)
(***************************************************************************)
EXTENDS Naturals

CONSTANTS
    P,              \* num_processes: the blocks of the file
    SepLength,      \* SepLength[b]: the bytes of block b (in any unit)
    SepOff,         \* SepOff[b]: its offset, SepOff[P] the file's size
    SepWeight,      \* SepWeight[b]: the checksum of a unit of block b
    SepTries,       \* attempts of a client child
    SepMaxFaults    \* bound: broken connections and killed children

SepBlocks == 0 .. P - 1
SepAttempts == 1 .. SepTries

ASSUME SeparateAssumption ==
    /\ P \in Nat \ {0} /\ SepTries \in Nat \ {0} /\ SepMaxFaults \in Nat
    /\ SepLength \in [SepBlocks -> Nat] /\ SepWeight \in [SepBlocks -> Nat]
    /\ SepOff \in [0 .. P -> Nat] /\ SepOff[0] = 0
    /\ \A b \in SepBlocks : SepOff[b + 1] = SepOff[b] + SepLength[b]

VARIABLES
    sender,     \* the client's process: position, block, totals last read
    child,      \* the client's child: position, attempt, connection broken,
                \* checksum it would add
    cmem,       \* the client's slot
    wchild,     \* server child of each attempt at each block: position, loaded value
    smem,       \* the server's slot
    inFile,     \* the blocks in the data file
    waiter,     \* rcv_separate: position and what it read
    verdict,    \* what became of the upload
    sepfaults

sepclient == <<sender, child, cmem>>
sepserver == <<wchild, smem, inFile>>
sepvars   == <<sepclient, sepserver, waiter, verdict, sepfaults>>

SepTotal == SepOff[P]
SepSum(b) == SepLength[b] * SepWeight[b]
Fields == <<"size", "sum", "fin">>     \* in the order of shared_memory_update
-----------------------------------------------------------------------------
(***************************************************************************)
(* The client: trans_put_separate_compressed_data.                         *)
(***************************************************************************)
SepFork ==
    /\ sender.pc = "fork"
    /\ IF sender.block < P
         THEN /\ sender' = [sender EXCEPT !.pc = "wait"]
              /\ child' = [pc |-> "connect", try |-> 1, down |-> FALSE, sum |-> sender.sum]
         ELSE sender' = [sender EXCEPT !.pc = "report"] /\ UNCHANGED child
    /\ UNCHANGED <<cmem, sepserver, waiter, verdict, sepfaults>>

(* shared_memory1read until the child has counted its block.               *)
SepReap ==
    /\ sender.pc = "wait" /\ cmem.fin > sender.block
    /\ sender' = [pc |-> "fork", block |-> sender.block + 1,
                  size |-> cmem.size, sum |-> cmem.sum]
    /\ UNCHANGED <<child, cmem, sepserver, waiter, verdict, sepfaults>>

(* trans_socket_init: the server forks a child for the request.            *)
SepConnect ==
    /\ child.pc = "connect"
    /\ child' = [child EXCEPT !.pc = "hello"]
    /\ wchild' = [wchild EXCEPT ![sender.block][child.try].pc = "start"]
    /\ UNCHANGED <<sender, cmem, smem, inFile, waiter, verdict, sepfaults>>

SepHello ==
    /\ child.pc = "hello" /\ ~child.down
    /\ wchild[sender.block][child.try].pc = "receive"
    /\ child' = [child EXCEPT !.pc = "send"]
    /\ UNCHANGED <<sender, cmem, sepserver, waiter, verdict, sepfaults>>

(* Mutant: one attempt too many.                                           *)
SepNextTryOnceMore(sum) ==
    child' = IF child.try <= SepTries
               THEN [pc |-> "connect", try |-> child.try + 1, down |-> FALSE, sum |-> sum]
               ELSE [child EXCEPT !.pc = "failed", !.sum = sum]

(* "Successful if transferred_size > 0".                                   *)
SepNextTry(sum) ==
    child' = IF child.try < SepTries
               THEN [pc |-> "connect", try |-> child.try + 1, down |-> FALSE, sum |-> sum]
               ELSE [child EXCEPT !.pc = "failed", !.sum = sum]

SepNoServer ==
    /\ child.pc = "hello" /\ child.down
    /\ SepNextTry(child.sum)
    /\ UNCHANGED <<sender, cmem, sepserver, waiter, verdict, sepfaults>>

(* The block and the word that ends it; writes to a broken connection are  *)
(* not noticed.                                                            *)
SepSend ==
    /\ child.pc = "send"
    /\ child' = [child EXCEPT !.pc = "answer"]
    /\ wchild' = [wchild EXCEPT ![sender.block][child.try].pc =
                    IF @ = "receive" /\ ~child.down THEN "full" ELSE @]
    /\ UNCHANGED <<sender, cmem, smem, inFile, waiter, verdict, sepfaults>>

(* trans_ret_code_get, whose result is not looked at: what was sent counts.*)
SepAnswer ==
    /\ child.pc = "answer"
    /\ child.down \/ wchild[sender.block][child.try].pc = "done"
    /\ IF SepLength[sender.block] > 0
         THEN child' = [child EXCEPT !.pc = "sent", !.sum = SepSum(sender.block)]
         ELSE SepNextTry(0)
    /\ UNCHANGED <<sender, cmem, sepserver, waiter, verdict, sepfaults>>

(* shared_memory_update of the client, also after three failures; then the *)
(* checksum is still what the parent had read before the fork.             *)
SepCount ==
    /\ child.pc \in {"sent", "failed"}
    /\ cmem' = [size |-> cmem.size + IF child.pc = "sent" THEN SepLength[sender.block] ELSE 0,
                sum |-> cmem.sum + child.sum,
                fin |-> cmem.fin + 1]
    /\ child' = [child EXCEPT !.pc = "none"]
    /\ UNCHANGED <<sender, sepserver, waiter, verdict, sepfaults>>

(* The parent sends its totals and reads the answer.                       *)
SepReport ==
    /\ sender.pc = "report"
    /\ sender' = [sender EXCEPT !.pc = "reply"]
    /\ UNCHANGED <<child, cmem, sepserver, waiter, verdict, sepfaults>>

SepReply ==
    /\ sender.pc = "reply" /\ verdict # "none"
    /\ sender' = [sender EXCEPT !.pc = "end"]
    /\ UNCHANGED <<child, cmem, sepserver, waiter, verdict, sepfaults>>

(* A connection of a block breaks.                                         *)
SepDrop ==
    /\ sepfaults < SepMaxFaults
    /\ child.pc \in {"hello", "send", "answer"} /\ ~child.down
    /\ child' = [child EXCEPT !.down = TRUE]
    /\ sepfaults' = sepfaults + 1
    /\ UNCHANGED <<sender, cmem, sepserver, waiter, verdict>>

SepKill ==
    /\ sepfaults < SepMaxFaults
    /\ child.pc # "none"
    /\ child' = [child EXCEPT !.pc = "none"]
    /\ sepfaults' = sepfaults + 1
    /\ UNCHANGED <<sender, cmem, sepserver, waiter, verdict>>
-----------------------------------------------------------------------------
(***************************************************************************)
(* separate_block_put: the server child of attempt t at block b.           *)
(***************************************************************************)
SepBroken(b, t) ==
    \/ b # sender.block \/ t # child.try
    \/ child.down \/ child.pc = "none"

(* disk_index_read, shared_memory1allocate, open, lseek.                   *)
WriterInit(b, t) ==
    /\ wchild[b][t].pc = "start" /\ verdict # "rejected"
    /\ wchild' = [wchild EXCEPT ![b][t].pc = "receive"]
    /\ UNCHANGED <<sepclient, smem, inFile, waiter, verdict, sepfaults>>

(* Mutant: the block is written by name once it is complete.               *)
WriterReceiveByName(b, t) ==
    /\ wchild[b][t].pc = "full"
    /\ inFile' = inFile \cup {b}
    /\ wchild' = [wchild EXCEPT ![b][t].pc = "load", ![b][t].field = 1]
    /\ UNCHANGED <<sepclient, smem, waiter, verdict, sepfaults>>

WriterReceive(b, t) ==
    /\ wchild[b][t].pc = "full"
    /\ inFile' = IF verdict = "rejected" THEN inFile ELSE inFile \cup {b}
    /\ wchild' = [wchild EXCEPT ![b][t].pc = "load", ![b][t].field = 1]
    /\ UNCHANGED <<sepclient, smem, waiter, verdict, sepfaults>>

(* get_string fails on a broken connection: shut_down, nothing is counted. *)
WriterDie(b, t) ==
    /\ wchild[b][t].pc \in {"start", "receive"}
    /\ SepBroken(b, t) \/ verdict = "rejected"
    /\ wchild' = [wchild EXCEPT ![b][t].pc = "gone"]
    /\ UNCHANGED <<sepclient, smem, inFile, waiter, verdict, sepfaults>>

(* shared_memory_update: three additions to memory that other processes    *)
(* add to, each a load and a store.                                        *)
WriterLoad(b, t) ==
    LET f == Fields[wchild[b][t].field] IN
    /\ wchild[b][t].pc = "load"
    /\ wchild' = [wchild EXCEPT ![b][t].pc = "store", ![b][t].reg = smem[f]]
    /\ UNCHANGED <<sepclient, smem, inFile, waiter, verdict, sepfaults>>

Added(b) == [size |-> SepLength[b], sum |-> SepSum(b), fin |-> 1]

WriterStore(b, t) ==
    LET w == wchild[b][t]
        f == Fields[w.field] IN
    /\ w.pc = "store"
    /\ smem' = [smem EXCEPT ![f] = w.reg + Added(b)[f]]
    /\ wchild' = [wchild EXCEPT ![b][t].pc = IF w.field < 3 THEN "load" ELSE "done",
                                ![b][t].field = IF w.field < 3 THEN @ + 1 ELSE @]
    /\ UNCHANGED <<sepclient, inFile, waiter, verdict, sepfaults>>
-----------------------------------------------------------------------------
(***************************************************************************)
(* rcv_separate.                                                           *)
(***************************************************************************)
(* shared_memory1read: the checksum, then the size, then the count.        *)
WaitSum ==
    /\ waiter.pc = "sum"
    /\ waiter' = [waiter EXCEPT !.pc = "size", !.sum = smem.sum]
    /\ UNCHANGED <<sepclient, sepserver, verdict, sepfaults>>

WaitSize ==
    /\ waiter.pc = "size"
    /\ waiter' = [waiter EXCEPT !.pc = "fin", !.size = smem.size]
    /\ UNCHANGED <<sepclient, sepserver, verdict, sepfaults>>

(* Mutant: it waits for more blocks than the file has.                     *)
WaitFinMore ==
    /\ waiter.pc = "fin"
    /\ waiter' = [waiter EXCEPT !.pc = IF smem.fin > P + 1 THEN "get" ELSE "sum"]
    /\ UNCHANGED <<sepclient, sepserver, verdict, sepfaults>>

WaitFin ==
    /\ waiter.pc = "fin"
    /\ waiter' = [waiter EXCEPT !.pc = IF smem.fin >= P THEN "get" ELSE "sum"]
    /\ UNCHANGED <<sepclient, sepserver, verdict, sepfaults>>

SepFileSize ==
    IF \A b \in inFile : SepLength[b] = 0 THEN 0
    ELSE LET last == CHOOSE b \in inFile : \A c \in inFile : SepOff[c + 1] <= SepOff[b + 1]
         IN  SepOff[last + 1]

(* Mutant: only the size of the file is compared.                          *)
WaitCheckFileSize ==
    /\ waiter.pc = "get" /\ sender.pc = "reply"
    /\ waiter' = [waiter EXCEPT !.pc = "end"]
    /\ IF SepFileSize = sender.size
         THEN verdict' = "accepted" /\ UNCHANGED inFile
         ELSE verdict' = "rejected" /\ inFile' = {}
    /\ UNCHANGED <<sepclient, wchild, smem, sepfaults>>

(* The client's totals arrive; size of the file, size and checksum counted.*)
WaitCheck ==
    /\ waiter.pc = "get" /\ sender.pc = "reply"
    /\ waiter' = [waiter EXCEPT !.pc = "end"]
    /\ IF /\ SepFileSize = sender.size
          /\ waiter.size = SepTotal
          /\ waiter.sum = sender.sum
         THEN verdict' = "accepted" /\ UNCHANGED inFile
         ELSE verdict' = "rejected" /\ inFile' = {}
    /\ UNCHANGED <<sepclient, wchild, smem, sepfaults>>

(* The client is gone before its totals: shut_down.                        *)
WaitAbandon ==
    /\ waiter.pc = "get" /\ sepfaults < SepMaxFaults
    /\ waiter' = [waiter EXCEPT !.pc = "end"]
    /\ verdict' = "abandoned"
    /\ sepfaults' = sepfaults + 1
    /\ UNCHANGED <<sepclient, sepserver>>
-----------------------------------------------------------------------------
SepInit ==
    /\ sender = [pc |-> "fork", block |-> 0, size |-> 0, sum |-> 0]
    /\ child = [pc |-> "none", try |-> 1, down |-> FALSE, sum |-> 0]
    /\ cmem = [size |-> 0, sum |-> 0, fin |-> 0]
    /\ wchild = [b \in SepBlocks |-> [t \in SepAttempts |->
                    [pc |-> "none", field |-> 1, reg |-> 0]]]
    /\ smem = [size |-> 0, sum |-> 0, fin |-> 0]
    /\ inFile = {}
    /\ waiter = [pc |-> "sum", sum |-> 0, size |-> 0]
    /\ verdict = "none" /\ sepfaults = 0

SepClientStep ==
    \/ SepFork \/ SepReap \/ SepConnect \/ SepHello \/ SepNoServer \/ SepSend
    \/ SepAnswer \/ SepCount \/ SepReport \/ SepReply

WriterStep(b, t) ==
    \/ WriterInit(b, t) \/ WriterReceive(b, t) \/ WriterDie(b, t)
    \/ WriterLoad(b, t) \/ WriterStore(b, t)

WaiterStep == WaitSum \/ WaitSize \/ WaitFin \/ WaitCheck

SepNext ==
    \/ SepClientStep \/ SepDrop \/ SepKill
    \/ \E b \in SepBlocks, t \in SepAttempts : WriterStep(b, t)
    \/ WaiterStep \/ WaitAbandon

SepSpec == SepInit /\ [][SepNext]_sepvars

(* Processes that are not killed run on.                                   *)
SepFairness ==
    /\ WF_sepvars(SepClientStep) /\ WF_sepvars(WaiterStep)
    /\ \A b \in SepBlocks, t \in SepAttempts : WF_sepvars(WriterStep(b, t))
-----------------------------------------------------------------------------
SepTypeOK ==
    /\ sender \in [pc : {"fork", "wait", "report", "reply", "end"}, block : 0 .. P,
                   size : Nat, sum : Nat]
    /\ child \in [pc : {"none", "connect", "hello", "send", "answer", "sent", "failed"},
                  try : SepAttempts, down : BOOLEAN, sum : Nat]
    /\ cmem \in [size : Nat, sum : Nat, fin : Nat]
    /\ wchild \in [SepBlocks -> [SepAttempts ->
                    [pc : {"none", "start", "receive", "full", "load", "store", "done", "gone"},
                     field : 1 .. 3, reg : Nat]]]
    /\ smem \in [size : Nat, sum : Nat, fin : Nat]
    /\ inFile \subseteq SepBlocks
    /\ waiter \in [pc : {"sum", "size", "fin", "get", "end"}, sum : Nat, size : Nat]
    /\ verdict \in {"none", "accepted", "rejected", "abandoned"}
    /\ sepfaults \in Nat

(* A separate upload is accepted only when every block is in the file:     *)
(* neither an empty block that is counted several times nor a lost update  *)
(* of the shared slot hides a block that never came.                       *)
SepAcceptedIsWhole ==
    verdict = "accepted" => \A b \in SepBlocks : SepLength[b] > 0 => b \in inFile

(* Without failures both sides come to an end (with one, rcv_separate may  *)
(* wait for a count that never comes).                                     *)
SepSettles == <>(sepfaults > 0 \/ (waiter.pc = "end" /\ sender.pc = "end"))

(* The separate transfer implements the same promise, for any count of the *)
(* client; an upload whose client is gone has no verdict.                  *)
SepPromise == INSTANCE TransferPromise WITH
    Parts <- SepBlocks, Filled <- {b \in SepBlocks : SepLength[b] > 0},
    stored <- inFile, counted <- TRUE,
    decision <- IF verdict = "abandoned" THEN "none" ELSE verdict,
    answer <- CASE sender.pc # "end" -> "none"
                [] sender.pc = "end" /\ verdict = "accepted" -> "success"
                [] OTHER -> "error"

SepKeepsPromise == SepPromise!PromiseSpec
=============================================================================
