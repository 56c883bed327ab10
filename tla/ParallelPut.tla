---------------------------- MODULE ParallelPut ----------------------------
(***************************************************************************)
(* The parallel transfer of one upload.  The client forks a child per      *)
(* block; each child connects to a server child of its own, sends its      *)
(* block and tries again when that fails.  Both sides count the bytes and  *)
(* the checksum of every block in a slot of a table (mapped files on the   *)
(* client, shared memory on the server); when the client's table says that *)
(* all is sent, its parent sends DBPUT_ACK and put_ack compares the tables *)
(* and the file.  Nothing orders the slot writes of the processes.         *)
(***************************************************************************)
EXTENDS Naturals

CONSTANTS
    N,          \* NUM_PARALLEL_PROCESSES
    Length,     \* Length[b]: the chunks of block b
    Off,        \* Off[b]: the offset of block b in chunks, Off[N] the file's size
    Weight,     \* Weight[b]: what a chunk of block b adds to the checksum
    Tries,      \* attempts of a child
    Report,     \* a child reports its progress every Report (100) chunks
    Limit,      \* polls of the parent between two looks at the progress (20)
    MaxFaults   \* bound: failed connections and killed children

Blocks == 0 .. N - 1
Attempts == 1 .. Tries

ASSUME ParallelAssumption ==
    /\ N \in Nat \ {0} /\ Tries \in Nat \ {0} /\ Report \in Nat \ {0}
    /\ Limit \in Nat \ {0} /\ MaxFaults \in Nat
    /\ Length \in [Blocks -> Nat] /\ Weight \in [Blocks -> Nat]
    /\ Off \in [0 .. N -> Nat] /\ Off[0] = 0
    /\ \A b \in Blocks : Off[b + 1] = Off[b] + Length[b] /\ Off[b + 1] <= Off[N]

VARIABLES
    cpc, try, sent,    \* client child: position, attempt, chunks sent
    down,              \* the connection of the current attempt is broken
    cslot,             \* the client's table: size, checksum, finished
    spc,               \* server child of each attempt of each block
    sslot,             \* the server's table: size, checksum
    written,           \* the blocks found in the data file
    par, cnt, wrn, old,    \* the client's parent: its poll, its stall check
    ack, outcome,      \* the put_ack process and what became of the item
    reply,             \* what the client's user is told
    faults

childvars  == <<cpc, try, sent, down, cslot>>
servervars == <<spc, sslot, written>>
parentvars == <<par, cnt, wrn, old>>
ackvars    == <<ack, outcome, reply>>
vars       == <<childvars, servervars, parentvars, ackvars, faults>>

Total == Off[N]                      \* original_size
Checksum(b, n) == n * Weight[b]

-----------------------------------------------------------------------------
(***************************************************************************)
(* trans_block_put, in the children of trans_parallel_put.                 *)
(***************************************************************************)
Slot(b, size, sum, fin) ==
    cslot' = [cslot EXCEPT ![b] = [size |-> size, sum |-> sum, fin |-> fin]]

(* shared_memory_finish: the sizes stay.                                   *)
Finish(b) == cslot' = [cslot EXCEPT ![b].fin = TRUE]

(* The loop over the attempts in trans_parallel_put.                       *)
Again(b) ==
    IF try[b] < Tries
      THEN /\ cpc' = [cpc EXCEPT ![b] = "init"]
           /\ try' = [try EXCEPT ![b] = @ + 1]
      ELSE cpc' = [cpc EXCEPT ![b] = "end"] /\ UNCHANGED try

ChildInit(b) ==
    /\ cpc[b] = "init"
    /\ Slot(b, 0, 0, FALSE)
    /\ cpc' = [cpc EXCEPT ![b] = "connect"]
    /\ sent' = [sent EXCEPT ![b] = 0]
    /\ down' = [down EXCEPT ![b] = FALSE]
    /\ UNCHANGED <<try, servervars, parentvars, ackvars, faults>>

(* trans_socket_init: the server forks a child for the request.            *)
ChildConnect(b) ==
    /\ cpc[b] = "connect"
    /\ cpc' = [cpc EXCEPT ![b] = "hello"]
    /\ spc' = [spc EXCEPT ![b][try[b]] = "start"]
    /\ UNCHANGED <<try, sent, down, cslot, sslot, written, parentvars, ackvars, faults>>

ChildHello(b) ==
    /\ cpc[b] = "hello" /\ ~down[b]
    /\ spc[b][try[b]] = "receive"
    /\ cpc' = [cpc EXCEPT ![b] = "send"]
    /\ UNCHANGED <<try, sent, down, cslot, servervars, parentvars, ackvars, faults>>

(* The file cannot be read or the server does not answer.                  *)
ChildNoServer(b) ==
    /\ cpc[b] = "hello" /\ down[b]
    /\ Finish(b)
    /\ Again(b)
    /\ UNCHANGED <<sent, down, servervars, parentvars, ackvars, faults>>

(* Mutant: the last chunk is always reported as progress.                  *)
ChildSendLast(b) ==
    /\ cpc[b] = "send" /\ sent[b] < Length[b]
    /\ sent' = [sent EXCEPT ![b] = @ + 1]
    /\ IF sent'[b] % Report = 0 \/ sent'[b] = Length[b]
         THEN Slot(b, sent'[b], Checksum(b, sent'[b]), FALSE)
         ELSE UNCHANGED cslot
    /\ UNCHANGED <<cpc, try, down, servervars, parentvars, ackvars, faults>>

ChildSend(b) ==
    /\ cpc[b] = "send" /\ sent[b] < Length[b]
    /\ sent' = [sent EXCEPT ![b] = @ + 1]
    /\ IF sent'[b] % Report = 0
         THEN Slot(b, sent'[b], Checksum(b, sent'[b]), FALSE)
         ELSE UNCHANGED cslot
    /\ UNCHANGED <<cpc, try, down, servervars, parentvars, ackvars, faults>>

(* The word that ends the data; it reaches a server child that still reads.*)
ChildSent(b) ==
    /\ cpc[b] = "send" /\ sent[b] = Length[b]
    /\ cpc' = [cpc EXCEPT ![b] = "wait"]
    /\ spc' = [spc EXCEPT ![b][try[b]] = IF @ = "receive" THEN "full" ELSE @]
    /\ UNCHANGED <<try, sent, down, cslot, sslot, written, parentvars, ackvars, faults>>

ChildOk(b) ==
    /\ cpc[b] = "wait" /\ ~down[b]
    /\ spc[b][try[b]] = "done"
    /\ IF sent[b] % Report # 0
         THEN Slot(b, sent[b], Checksum(b, sent[b]), TRUE)
         ELSE Finish(b)
    /\ cpc' = [cpc EXCEPT ![b] = "end"]
    /\ UNCHANGED <<try, sent, down, servervars, parentvars, ackvars, faults>>

(* Mutant: the progress already counted is taken back as a difference.     *)
ChildLostDelta(b) ==
    /\ cpc[b] = "wait" /\ down[b]
    /\ Slot(b, 0 - sent[b], Checksum(b, sent[b]), TRUE)
    /\ Again(b)
    /\ UNCHANGED <<sent, down, servervars, parentvars, ackvars, faults>>

(* trans_ret_code_get fails.                                               *)
ChildLost(b) ==
    /\ cpc[b] = "wait" /\ down[b]
    /\ Slot(b, 0, Checksum(b, sent[b]), TRUE)
    /\ Again(b)
    /\ UNCHANGED <<sent, down, servervars, parentvars, ackvars, faults>>

(* The connection breaks, or the server child answers with an error.       *)
Drop(b) ==
    /\ faults < MaxFaults
    /\ cpc[b] \in {"hello", "send", "wait"} /\ ~down[b]
    /\ down' = [down EXCEPT ![b] = TRUE]
    /\ faults' = faults + 1
    /\ UNCHANGED <<cpc, try, sent, cslot, servervars, parentvars, ackvars>>

Kill(b) ==
    /\ faults < MaxFaults
    /\ cpc[b] \notin {"end", "dead"}
    /\ cpc' = [cpc EXCEPT ![b] = "dead"]
    /\ faults' = faults + 1
    /\ UNCHANGED <<try, sent, down, cslot, servervars, parentvars, ackvars>>

-----------------------------------------------------------------------------
(***************************************************************************)
(* block_put: the server child of attempt t for block b.                   *)
(***************************************************************************)
Broken(b, t) == t < try[b] \/ down[b] \/ cpc[b] = "dead"

At(b, t, l) == spc' = [spc EXCEPT ![b][t] = l]

(* disk_index_read, shared_memory_allocate and _init, open.  Once put_ack  *)
(* has released the segment a new one is created, which nobody reads.      *)
BlockInit(b, t) ==
    /\ spc[b][t] = "start"
    /\ outcome # "rejected"
    /\ sslot' = IF ack.pc \in {"none", "read"}
                  THEN [sslot EXCEPT ![b] = [size |-> 0, sum |-> 0]] ELSE sslot
    /\ At(b, t, "receive")
    /\ UNCHANGED <<written, childvars, parentvars, ackvars, faults>>

(* Mutant: the block is written by name once it is complete.               *)
BlockReceiveByName(b, t) ==
    /\ spc[b][t] = "full"
    /\ written' = written \cup {b}
    /\ At(b, t, "size")
    /\ UNCHANGED <<sslot, childvars, parentvars, ackvars, faults>>

(* All of the block arrived and is in the file.  (It lands in no file at   *)
(* all if the name was unlinked after the open.)                           *)
BlockReceive(b, t) ==
    /\ spc[b][t] = "full"
    /\ written' = IF outcome = "rejected" THEN written ELSE written \cup {b}
    /\ At(b, t, "size")
    /\ UNCHANGED <<sslot, childvars, parentvars, ackvars, faults>>

(* shared_memory_write: first the size, then the checksum.                 *)
BlockSize(b, t) ==
    /\ spc[b][t] = "size"
    /\ sslot' = [sslot EXCEPT ![b].size = Length[b]]
    /\ At(b, t, "sum")
    /\ UNCHANGED <<written, childvars, parentvars, ackvars, faults>>

(* The checksum; then put_success_msg.                                     *)
BlockSum(b, t) ==
    /\ spc[b][t] = "sum"
    /\ sslot' = [sslot EXCEPT ![b].sum = Checksum(b, Length[b])]
    /\ At(b, t, "done")
    /\ UNCHANGED <<written, childvars, parentvars, ackvars, faults>>

(* get_string fails on a broken connection: shut_down, the slot stays.     *)
BlockDie(b, t) ==
    /\ spc[b][t] \in {"start", "receive", "full"}
    /\ Broken(b, t) \/ outcome = "rejected"
    /\ At(b, t, "gone")
    /\ UNCHANGED <<sslot, written, childvars, parentvars, ackvars, faults>>

-----------------------------------------------------------------------------
(***************************************************************************)
(* trans_parallel_put, the parent: it polls the client's table.            *)
(***************************************************************************)
PollSlot ==
    /\ par.pc = "poll" /\ par.k < N
    /\ par' = [par EXCEPT !.k = @ + 1,
                          !.fin = @ + IF cslot[par.k].fin THEN 1 ELSE 0,
                          !.size = @ + cslot[par.k].size,
                          !.sum = @ + cslot[par.k].sum]
    /\ UNCHANGED <<cnt, wrn, old, childvars, servervars, ackvars, faults>>

AllSent == par.fin >= N \/ par.size >= Total

PollLeave ==
    /\ par.pc = "poll" /\ par.k = N /\ AllSent
    /\ par' = [par EXCEPT !.pc = "ack"]
    /\ UNCHANGED <<cnt, wrn, old, childvars, servervars, ackvars, faults>>

(* The check for a transfer that does not move: at the first look that     *)
(* finds no progress the warning flag is set and cnt goes on beyond Limit. *)
PollAgain ==
    /\ par.pc = "poll" /\ par.k = N /\ ~AllSent
    /\ IF cnt + 1 # Limit
         THEN /\ cnt' = IF cnt > Limit THEN cnt ELSE cnt + 1
              /\ UNCHANGED <<wrn, old, reply>>
              /\ par' = [pc |-> "poll", k |-> 0, fin |-> 0, size |-> 0, sum |-> 0]
         ELSE IF old = par.size
         THEN /\ wrn' = TRUE /\ cnt' = Limit /\ UNCHANGED old
              /\ reply' = IF wrn THEN "error" ELSE reply      \* trans_exit
              /\ par' = [pc |-> IF wrn THEN "end" ELSE "poll",
                         k |-> 0, fin |-> 0, size |-> 0, sum |-> 0]
         ELSE /\ wrn' = FALSE /\ cnt' = 0 /\ old' = par.size
              /\ UNCHANGED reply
              /\ par' = [pc |-> "poll", k |-> 0, fin |-> 0, size |-> 0, sum |-> 0]
    /\ UNCHANGED <<ack, outcome, childvars, servervars, faults>>

(* Mutant: the parent waits for a verdict that a dead put_ack never gives. *)
ParentEndVerdict ==
    /\ par.pc = "ack" /\ ack.pc = "end" /\ outcome # "none"
    /\ par' = [par EXCEPT !.pc = "end"]
    /\ reply' \in IF outcome = "accepted" THEN {"success", "error"} ELSE {"error"}
    /\ UNCHANGED <<cnt, wrn, old, ack, outcome, childvars, servervars, faults>>

(* get_log_string: the reply, unless it is lost on the way.                *)
ParentEnd ==
    /\ par.pc = "ack" /\ ack.pc = "end"
    /\ par' = [par EXCEPT !.pc = "end"]
    /\ reply' \in IF outcome = "accepted" THEN {"success", "error"} ELSE {"error"}
    /\ UNCHANGED <<cnt, wrn, old, ack, outcome, childvars, servervars, faults>>

-----------------------------------------------------------------------------
(***************************************************************************)
(* put_ack: the server child of the DBPUT_ACK connection.                  *)
(***************************************************************************)
AckStart ==
    /\ par.pc = "ack" /\ ack.pc = "none"
    /\ ack' = [ack EXCEPT !.pc = "read"]
    /\ UNCHANGED <<outcome, reply, childvars, servervars, parentvars, faults>>

(* shared_memory_read, slot by slot.                                       *)
AckSlot ==
    /\ ack.pc = "read" /\ ack.k < N
    /\ ack' = [ack EXCEPT !.k = @ + 1, !.size = @ + sslot[ack.k].size,
                          !.sum = @ + sslot[ack.k].sum]
    /\ UNCHANGED <<outcome, reply, childvars, servervars, parentvars, faults>>

AckRelease ==
    /\ ack.pc = "read" /\ ack.k = N
    /\ ack' = [ack EXCEPT !.pc = "stat"]
    /\ UNCHANGED <<outcome, reply, childvars, servervars, parentvars, faults>>

(* delete_file_and_exit.                                                   *)
Reject ==
    /\ outcome' = "rejected" /\ written' = {}
    /\ ack' = [ack EXCEPT !.pc = "end"]

(* The file ends after the last block in it.                               *)
FileSize == IF written = {} THEN 0
            ELSE LET last == CHOOSE b \in written : \A c \in written : c <= b
                 IN  Off[last + 1]

(* Mutant: the truncation takes the last block with it.                    *)
AckStatOffByOne ==
    /\ ack.pc = "stat"
    /\ IF FileSize < par.size
         THEN Reject
         ELSE /\ written' = {b \in written : Off[b + 1] < par.size}
              /\ ack' = [ack EXCEPT !.pc = "check"]
              /\ UNCHANGED outcome
    /\ UNCHANGED <<reply, spc, sslot, childvars, parentvars, faults>>

(* stat: "If client sent extra data, delete it".                           *)
AckStat ==
    /\ ack.pc = "stat"
    /\ IF FileSize < par.size
         THEN Reject
         ELSE /\ written' = {b \in written : Off[b + 1] <= par.size}
              /\ ack' = [ack EXCEPT !.pc = "check"]
              /\ UNCHANGED outcome
    /\ UNCHANGED <<reply, spc, sslot, childvars, parentvars, faults>>

AckCheck ==
    /\ ack.pc = "check"
    /\ IF ack.size = Total /\ ack.sum = par.sum
         THEN /\ outcome' = "accepted" /\ UNCHANGED written
              /\ ack' = [ack EXCEPT !.pc = "end"]
         ELSE Reject
    /\ UNCHANGED <<reply, spc, sslot, childvars, parentvars, faults>>

(* The connection of the acknowledgement breaks, or was never made.        *)
AckDie ==
    /\ par.pc = "ack" /\ ack.pc \in {"none", "read", "stat"}
    /\ faults < MaxFaults
    /\ ack' = [ack EXCEPT !.pc = "end"]
    /\ faults' = faults + 1
    /\ UNCHANGED <<outcome, reply, childvars, servervars, parentvars>>
-----------------------------------------------------------------------------
Init ==
    /\ cpc = [b \in Blocks |-> "init"]
    /\ try = [b \in Blocks |-> 1]
    /\ sent = [b \in Blocks |-> 0]
    /\ down = [b \in Blocks |-> FALSE]
    /\ cslot = [b \in Blocks |-> [size |-> 0, sum |-> 0, fin |-> FALSE]]
    /\ spc = [b \in Blocks |-> [t \in Attempts |-> "none"]]
    /\ sslot = [b \in Blocks |-> [size |-> 0, sum |-> 0]]
    /\ written = {}
    /\ par = [pc |-> "poll", k |-> 0, fin |-> 0, size |-> 0, sum |-> 0]
    /\ cnt = 1 /\ wrn = FALSE /\ old = 0
    /\ ack = [pc |-> "none", k |-> 0, size |-> 0, sum |-> 0]
    /\ outcome = "none" /\ reply = "none" /\ faults = 0

ChildStep(b) ==
    \/ ChildInit(b) \/ ChildConnect(b) \/ ChildHello(b) \/ ChildNoServer(b)
    \/ ChildSend(b) \/ ChildSent(b) \/ ChildOk(b) \/ ChildLost(b)

BlockStep(b, t) ==
    \/ BlockInit(b, t) \/ BlockReceive(b, t) \/ BlockSize(b, t)
    \/ BlockSum(b, t) \/ BlockDie(b, t)

ParentStep == PollSlot \/ PollLeave \/ PollAgain \/ ParentEnd

AckStep == AckStart \/ AckSlot \/ AckRelease \/ AckStat \/ AckCheck

Next ==
    \/ \E b \in Blocks : ChildStep(b) \/ Drop(b) \/ Kill(b)
    \/ \E b \in Blocks, t \in Attempts : BlockStep(b, t)
    \/ ParentStep \/ AckStep \/ AckDie

Spec == Init /\ [][Next]_vars

(* Processes that are not killed run on.                                   *)
Fairness ==
    /\ \A b \in Blocks : WF_vars(ChildStep(b))
    /\ \A b \in Blocks, t \in Attempts : WF_vars(BlockStep(b, t))
    /\ WF_vars(ParentStep) /\ WF_vars(AckStep)

FairSpec == Spec /\ Fairness
-----------------------------------------------------------------------------
TypeOK ==
    /\ cpc \in [Blocks -> {"init", "connect", "hello", "send", "wait", "end", "dead"}]
    /\ try \in [Blocks -> Attempts]
    /\ sent \in [Blocks -> Nat]
    /\ down \in [Blocks -> BOOLEAN]
    /\ cslot \in [Blocks -> [size : Nat, sum : Nat, fin : BOOLEAN]]
    /\ spc \in [Blocks -> [Attempts -> {"none", "start", "receive", "full", "size",
                                        "sum", "done", "gone"}]]
    /\ sslot \in [Blocks -> [size : Nat, sum : Nat]]
    /\ written \subseteq Blocks
    /\ par \in [pc : {"poll", "ack", "end"}, k : 0 .. N, fin : Nat, size : Nat, sum : Nat]
    /\ cnt \in Nat /\ wrn \in BOOLEAN /\ old \in Nat
    /\ ack \in [pc : {"none", "read", "stat", "check", "end"}, k : 0 .. N,
                size : Nat, sum : Nat]
    /\ outcome \in {"none", "accepted", "rejected"}
    /\ reply \in {"none", "success", "error"} /\ faults \in Nat

(* If the client counted every byte, an accepted file has every block: no  *)
(* retry, late server child or reset slot makes the tables agree while a   *)
(* block is missing.                                                       *)
AcceptedIsWhole ==
    outcome = "accepted" /\ par.size = Total
        => \A b \in Blocks : Length[b] > 0 => b \in written

(* An accepted file has every block, whatever the client counted: "If the  *)
(* checksum or file size is not correct, the file transferred is deleted". *)
AcceptedIsIntact ==
    outcome = "accepted" => \A b \in Blocks : Length[b] > 0 => b \in written

(* put_ack does not delete a file whose transfer met no failure: the parent*)
(* does not send DBPUT_ACK before the server has counted every block.  It  *)
(* holds where no block's length is a multiple of Report; otherwise the    *)
(* last chunk is counted by a progress report, before the server's answer. *)
CleanIsAccepted == faults = 0 => outcome # "rejected"

(* Unless a child of the client is killed, its parent gets to the end of   *)
(* the transfer, however many connections fail.                            *)
EventuallyAnswered ==
    <>(par.pc = "end" \/ \E b \in Blocks : cpc[b] = "dead")

(* What the parallel transfer is for: its tables, children and retries     *)
(* implement the promise of an upload in blocks.                           *)
Promise == INSTANCE TransferPromise WITH
    Parts <- Blocks, Filled <- {b \in Blocks : Length[b] > 0},
    stored <- written, counted <- par.pc # "poll" /\ par.size = Total,
    decision <- outcome, answer <- reply

KeepsPromise == Promise!PromiseSpec
=============================================================================
