--------------------------- MODULE ServicesProofs ---------------------------
(***************************************************************************)
(* What holds of the services for every number of blocks, retries, waits,  *)
(* servers, connections and failures: of a separate upload, a parallel     *)
(* retrieval, the rewriting of a locked file, the accepting of connections *)
(* and the search for the serving repository; and that their composition   *)
(* keeps every part's promises.  Each part has its types, the effect of    *)
(* its steps field by field, an inductive invariant and its theorems.      *)
(***************************************************************************)
EXTENDS MCServices, SecureKeywordProofs, BlockLayoutProofs, TransferFormProofs,
        FiniteSetTheorems, WellFoundedInduction, TLAPS

(* Induction over an initial piece of the natural numbers, for a set.      *)
LEMMA Least == ASSUME NEW T \in SUBSET Nat, T # {} PROVE \E x \in T : \A y \in T : x <= y
<1>1. PICK x \in T : \A y \in T : ~ (<<y, x>> \in OpToRel(<, Nat))
  BY NatLessThanWellFounded, WFMin
<1>2. \A y \in T : y \in Nat /\ (<<y, x>> \in OpToRel(<, Nat) <=> y < x)
  BY DEF OpToRel
<1>3. \A y \in T : ~(y < x)  BY <1>1, <1>2
<1> QED BY <1>3

LEMMA UpTo ==
  ASSUME NEW n \in Nat, NEW T, 0 \in T, \A i \in 0 .. n - 1 : i \in T => i + 1 \in T
  PROVE  0 .. n \subseteq T
<1> DEFINE M == (0 .. n) \ T
<1> SUFFICES ASSUME M # {} PROVE FALSE  OBVIOUS
<1>1. PICK x \in M : \A y \in M : x <= y
  <2>1. M \in SUBSET Nat  OBVIOUS
  <2> HIDE DEF M
  <2> QED BY <2>1, Least
<1>2. x \in Nat /\ x <= n /\ x # 0 /\ x \notin T  OBVIOUS
<1>3. x - 1 \in 0 .. n - 1 /\ x - 1 \in T  BY <1>1, <1>2
<1> QED BY <1>2, <1>3
-----------------------------------------------------------------------------
(* A value of the counter of bytes: the lengths of the blocks of a set that*)
(* the server has counted, added up in the order of the file.              *)
Adds(sum, S) ==
    /\ sum \in [0 .. P -> Nat] /\ sum[0] = 0
    /\ \A b \in SepBlocks : sum[b + 1] = sum[b] + IF b \in S THEN SepLength[b] ELSE 0

SumOf(v, T) == \E S \in SUBSET T, sum \in [0 .. P -> Nat] : Adds(sum, S) /\ v = sum[P]

Counting(b, t) == wchild[b][t].pc \in {"full", "load", "store", "done"}
BlockStored(b) == \E t \in SepAttempts :
    \/ wchild[b][t].pc = "done"
    \/ wchild[b][t].pc \in {"load", "store"} /\ wchild[b][t].field > 1
StoredBlocks == {b \in SepBlocks : BlockStored(b)}

LEMMA SumOfNothing == SumOf(0, {})
<1> DEFINE s == [i \in 0 .. P |-> 0]
<1>1. P \in Nat /\ SepLength \in [SepBlocks -> Nat]  BY SeparateAssumption
<1>2. s \in [0 .. P -> Nat] /\ Adds(s, {}) /\ 0 = s[P]
  BY <1>1 DEF Adds, SepBlocks
<1> QED BY <1>2 DEF SumOf

LEMMA SumOfMore ==
  ASSUME NEW v, NEW T, NEW U, T \subseteq U, SumOf(v, T)
  PROVE  SumOf(v, U)
BY DEF SumOf

LEMMA SumOfNat == ASSUME NEW v, NEW T, SumOf(v, T) PROVE v \in Nat
BY SeparateAssumption DEF SumOf

(* A block that the value does not have yet is added to it.                *)
LEMMA SumOfAdded ==
  ASSUME NEW T \in SUBSET SepBlocks, NEW b \in SepBlocks, NEW v, SumOf(v, T),
         b \notin T \/ SepLength[b] = 0
  PROVE  SumOf(v + SepLength[b], T \cup {b})
<1>0. P \in Nat /\ SepLength \in [SepBlocks -> Nat]  BY SeparateAssumption
<1>1. PICK S \in SUBSET T, sum \in [0 .. P -> Nat] : Adds(sum, S) /\ v = sum[P]
  BY DEF SumOf
<1>2. CASE SepLength[b] = 0
  <2>1. v + SepLength[b] = v  BY <1>0, <1>1, <1>2
  <2> QED BY <1>1, <2>1 DEF SumOf
<1>3. CASE b \notin T
  <2> DEFINE more == [i \in 0 .. P |-> IF i <= b THEN sum[i] ELSE sum[i] + SepLength[b]]
  <2>1. more \in [0 .. P -> Nat]  BY <1>0, <1>1
  <2>2. b \in 0 .. P - 1  BY DEF SepBlocks
  <2>3. more[0] = 0 /\ more[P] = v + SepLength[b]  BY <1>0, <1>1, <2>2 DEF Adds
  <2>4. ASSUME NEW c \in SepBlocks
        PROVE  more[c + 1] = more[c] + IF c \in S \cup {b} THEN SepLength[c] ELSE 0
    <3>1. c \in 0 .. P - 1 /\ c \in 0 .. P /\ c + 1 \in 0 .. P  BY <1>0 DEF SepBlocks
    <3>2. sum[c] \in Nat /\ sum[c + 1] \in Nat /\ SepLength[c] \in Nat /\ SepLength[b] \in Nat
      BY <1>0, <1>1, <3>1
    <3>3. sum[c + 1] = sum[c] + IF c \in S THEN SepLength[c] ELSE 0  BY <1>1 DEF Adds
    <3>4. CASE c < b  BY <2>2, <3>1, <3>2, <3>3, <3>4
    <3>5. CASE c = b  BY <1>3, <2>2, <3>1, <3>2, <3>3, <3>5
    <3>6. CASE c > b  BY <2>2, <3>1, <3>2, <3>3, <3>6
    <3> QED BY <2>2, <3>1, <3>4, <3>5, <3>6
  <2> HIDE DEF more
  <2>5. Adds(more, S \cup {b})  BY <2>1, <2>3, <2>4 DEF Adds
  <2> QED BY <2>1, <2>3, <2>5 DEF SumOf
<1> QED BY <1>2, <1>3

(* A value that is the size of the file has every block with data.         *)
LEMMA SumOfAll ==
  ASSUME NEW T \in SUBSET SepBlocks, SumOf(SepTotal, T),
         NEW b \in SepBlocks, SepLength[b] > 0
  PROVE  b \in T
<1>0. /\ P \in Nat \ {0} /\ SepLength \in [SepBlocks -> Nat] /\ SepOff \in [0 .. P -> Nat]
      /\ SepOff[0] = 0
      /\ \A c \in SepBlocks : SepOff[c + 1] = SepOff[c] + SepLength[c]
  BY SeparateAssumption
<1>1. PICK S \in SUBSET T, sum \in [0 .. P -> Nat] : Adds(sum, S) /\ SepTotal = sum[P]
  BY DEF SumOf
<1> SUFFICES ASSUME b \notin S PROVE FALSE  BY <1>1
<1>2. b \in 0 .. P - 1  BY DEF SepBlocks
<1> DEFINE Below == {i \in 0 .. P : sum[i] + (IF i > b THEN 1 ELSE 0) <= SepOff[i]}
<1>3. 0 \in Below  BY <1>0, <1>1, <1>2 DEF Adds
<1>4. ASSUME NEW i \in 0 .. P - 1, i \in Below PROVE i + 1 \in Below
  <2>1. i \in SepBlocks /\ i \in 0 .. P /\ i + 1 \in 0 .. P  BY <1>0 DEF SepBlocks
  <2>2. /\ sum[i] \in Nat /\ sum[i + 1] \in Nat /\ SepLength[i] \in Nat
        /\ SepOff[i] \in Nat /\ SepOff[i + 1] \in Nat
    BY <1>0, <1>1, <2>1
  <2>3. /\ sum[i + 1] = sum[i] + IF i \in S THEN SepLength[i] ELSE 0
        /\ SepOff[i + 1] = SepOff[i] + SepLength[i]
    BY <1>0, <1>1, <2>1 DEF Adds
  <2>4. sum[i] + (IF i > b THEN 1 ELSE 0) <= SepOff[i]  BY <1>4
  <2>5. CASE i < b  BY <1>2, <2>1, <2>2, <2>3, <2>4, <2>5
  <2>6. CASE i = b  BY <1>2, <2>1, <2>2, <2>3, <2>4, <2>6
  <2>7. CASE i > b  BY <1>2, <2>1, <2>2, <2>3, <2>4, <2>7
  <2> QED BY <1>2, <2>1, <2>5, <2>6, <2>7
<1> HIDE DEF Below
<1>5. 0 .. P \subseteq Below  BY <1>0, <1>3, <1>4, UpTo
<1>6. P \in Below  BY <1>0, <1>5
<1> USE DEF Below
<1>7. sum[P] + 1 <= SepOff[P]  BY <1>0, <1>2, <1>6
<1> QED BY <1>0, <1>1, <1>7 DEF SepTotal
-----------------------------------------------------------------------------
(* Where the client's processes are: one child at a time, and the server   *)
(* has heard of no later block and no later attempt.                       *)
SepCourse ==
    /\ sender.pc = "wait" => sender.block < P /\ cmem.fin \in {sender.block, sender.block + 1}
    /\ sender.pc = "fork" => cmem.fin = sender.block
    /\ child.pc # "none" => sender.pc = "wait" /\ cmem.fin = sender.block

Unheard(b, t) ==
    \/ b > sender.block
    \/ b = sender.block /\ sender.pc = "fork"
    \/ b = sender.block /\ sender.pc = "wait" /\ t > child.try
    \/ b = sender.block /\ sender.pc = "wait" /\ t = child.try /\ child.pc = "connect"

SepAhead ==
    \A b \in SepBlocks, t \in SepAttempts : Unheard(b, t) => wchild[b][t].pc = "none"

(* A block with data is sent whole in one attempt only: after it the child *)
(* tries no more.                                                          *)
SepOnce ==
    /\ sender.pc = "wait" /\ SepLength[sender.block] > 0 =>
         \A t \in SepAttempts :
            t < child.try \/ (t = child.try /\ child.pc \in {"connect", "hello", "send"})
               => ~Counting(sender.block, t)
    /\ \A b \in SepBlocks : SepLength[b] > 0 =>
         \A t \in SepAttempts, u \in SepAttempts : Counting(b, t) /\ Counting(b, u) => t = u

SepOrder == SepTypeOK /\ SepCourse /\ SepAhead /\ SepOnce

(* What was counted is in the file, and the size that was found is the sum *)
(* of blocks that were counted, whichever additions were lost.             *)
SepSums ==
    /\ SumOf(smem.size, StoredBlocks) /\ SumOf(waiter.size, StoredBlocks)
    /\ \A b \in SepBlocks, t \in SepAttempts :
         wchild[b][t].pc = "store" /\ wchild[b][t].field = 1 => SumOf(wchild[b][t].reg, StoredBlocks)

SepFile ==
    /\ \A b \in SepBlocks, t \in SepAttempts :
         wchild[b][t].pc \in {"load", "store", "done"} /\ verdict # "rejected" => b \in inFile
    /\ waiter.pc = "end" <=> verdict # "none"
    /\ sender.pc = "end" => verdict # "none"
    /\ verdict = "accepted" => waiter.size = SepTotal
    /\ verdict = "rejected" => inFile = {}

SepInv == SepOrder /\ SepSums /\ SepFile
-----------------------------------------------------------------------------
LEMMA SepInitial == SepInit => SepInv
<1> SUFFICES ASSUME SepInit PROVE SepInv  OBVIOUS
<1>0. P \in Nat \ {0} /\ SepTries \in Nat \ {0} /\ 1 \in SepAttempts /\ 0 \in SepBlocks
  BY SeparateAssumption DEF SepAttempts, SepBlocks
<1>1. SepTypeOK  BY <1>0 DEF SepInit, SepTypeOK
<1>2. \A b \in SepBlocks, t \in SepAttempts : wchild[b][t].pc = "none"  BY DEF SepInit
<1>3. SepCourse /\ SepAhead /\ SepOnce
  BY <1>0, <1>2 DEF SepInit, SepCourse, SepAhead, SepOnce, Counting
<1>4. StoredBlocks = {}  BY <1>2 DEF StoredBlocks, BlockStored
<1>5. SepSums  BY <1>2, <1>4, SumOfNothing DEF SepInit, SepSums
<1>6. SepFile  BY <1>2 DEF SepInit, SepFile
<1> QED BY <1>1, <1>3, <1>5, <1>6 DEF SepInv, SepOrder


WriterRec == [pc : {"none", "start", "receive", "full", "load", "store", "done", "gone"},
              field : 1 .. 3, reg : Nat]
ChildRec == [pc : {"none", "connect", "hello", "send", "answer", "sent", "failed"},
             try : SepAttempts, down : BOOLEAN, sum : Nat]
SenderRec == [pc : {"fork", "wait", "report", "reply", "end"}, block : 0 .. P,
              size : Nat, sum : Nat]
SlotRec == [size : Nat, sum : Nat, fin : Nat]
WriterTable == [SepBlocks -> [SepAttempts -> WriterRec]]

LEMMA SepTypes ==
    SepTypeOK <=>
      /\ sender \in SenderRec /\ child \in ChildRec /\ cmem \in SlotRec
      /\ wchild \in WriterTable /\ smem \in SlotRec /\ inFile \subseteq SepBlocks
      /\ waiter \in [pc : {"sum", "size", "fin", "get", "end"}, sum : Nat, size : Nat]
      /\ verdict \in {"none", "accepted", "rejected", "abandoned"}
      /\ sepfaults \in Nat
  BY DEF SepTypeOK, SenderRec, ChildRec, SlotRec, WriterTable, WriterRec

LEMMA SepNumbers ==
    /\ P \in Nat /\ 0 < P /\ SepTries \in Nat /\ 0 < SepTries /\ 1 \in SepAttempts
    /\ \A b \in SepBlocks : SepLength[b] \in Nat /\ SepSum(b) \in Nat
    /\ \A b \in 0 .. P : b < P => b \in SepBlocks /\ b + 1 \in 0 .. P
<1>1. \A m, n \in Nat : m * n \in Nat  OBVIOUS
<1>2. \A b \in SepBlocks : SepLength[b] \in Nat /\ SepWeight[b] \in Nat
  BY SeparateAssumption
<1>3. \A b \in SepBlocks : SepSum(b) \in Nat
  BY <1>1, <1>2 DEF SepSum
<1> QED BY <1>2, <1>3, SeparateAssumption DEF SepAttempts, SepBlocks

LEMMA Nested ==
  ASSUME NEW A, NEW B, NEW R, NEW f \in [A -> [B -> R]], NEW a \in A, NEW b \in B, NEW r \in R
  PROVE  /\ [f EXCEPT ![a][b] = r] \in [A -> [B -> R]]
         /\ \A c \in A, d \in B :
              [f EXCEPT ![a][b] = r][c][d] = IF c = a /\ d = b THEN r ELSE f[c][d]
OBVIOUS

(* The server child of attempt t at block b moves, and no other does.      *)
Moves(b, t, l, f, r) ==
    /\ wchild' \in WriterTable
    /\ \A c \in SepBlocks, u \in SepAttempts :
         /\ wchild'[c][u].pc = IF c = b /\ u = t THEN l ELSE wchild[c][u].pc
         /\ wchild'[c][u].field = IF c = b /\ u = t THEN f ELSE wchild[c][u].field
         /\ wchild'[c][u].reg = IF c = b /\ u = t THEN r ELSE wchild[c][u].reg

LEMMA Moved ==
  ASSUME wchild \in WriterTable, NEW b \in SepBlocks, NEW t \in SepAttempts,
         NEW w \in WriterRec, wchild' = [wchild EXCEPT ![b][t] = w]
  PROVE  Moves(b, t, w.pc, w.field, w.reg)
<1>1. /\ wchild' \in WriterTable
      /\ \A c \in SepBlocks, u \in SepAttempts :
           wchild'[c][u] = IF c = b /\ u = t THEN w ELSE wchild[c][u]
  <2> HIDE DEF WriterRec
  <2> QED BY Nested DEF WriterTable
<1> QED BY <1>1 DEF Moves

LEMMA WriterMoves ==
  ASSUME SepTypeOK, NEW b \in SepBlocks, NEW t \in SepAttempts
  PROVE  LET w == wchild[b][t] IN
         /\ WriterInit(b, t) => Moves(b, t, "receive", w.field, w.reg)
         /\ WriterReceive(b, t) => Moves(b, t, "load", 1, w.reg)
         /\ WriterDie(b, t) => Moves(b, t, "gone", w.field, w.reg)
         /\ WriterLoad(b, t) => Moves(b, t, "store", w.field, smem[Fields[w.field]])
         /\ WriterStore(b, t) =>
              Moves(b, t, IF w.field < 3 THEN "load" ELSE "done",
                    IF w.field < 3 THEN w.field + 1 ELSE w.field, w.reg)
<1> DEFINE w == wchild[b][t]
<1>1. wchild \in WriterTable /\ w \in WriterRec /\ smem \in SlotRec
  <2>1. wchild \in WriterTable /\ smem \in SlotRec  BY SepTypes
  <2> QED BY <2>1 DEF WriterTable
<1>2. /\ w.pc \in {"none", "start", "receive", "full", "load", "store", "done", "gone"}
      /\ w.field \in 1 .. 3 /\ w.reg \in Nat
  BY <1>1 DEF WriterRec
<1>3. Fields[w.field] \in {"size", "sum", "fin"} /\ smem[Fields[w.field]] \in Nat
  <2>1. smem.size \in Nat /\ smem.sum \in Nat /\ smem.fin \in Nat  BY <1>1 DEF SlotRec
  <2>2. CASE w.field = 1  BY <2>1, <2>2 DEF Fields
  <2>3. CASE w.field = 2  BY <2>1, <2>3 DEF Fields
  <2>4. CASE w.field = 3  BY <2>1, <2>4 DEF Fields
  <2> QED BY <1>2, <2>2, <2>3, <2>4
<1>4. ASSUME NEW x \in WriterRec, wchild' = [wchild EXCEPT ![b][t] = x]
      PROVE  Moves(b, t, x.pc, x.field, x.reg)
  BY <1>1, <1>4, Moved
<1>6. ASSUME WriterInit(b, t) PROVE Moves(b, t, "receive", w.field, w.reg)
  <2> DEFINE x == [w EXCEPT !.pc = "receive"]
  <2>1. wchild' = [wchild EXCEPT ![b][t] = x]  BY <1>1, <1>6 DEF WriterInit, WriterTable
  <2>2. x \in WriterRec /\ x.pc = "receive" /\ x.field = w.field /\ x.reg = w.reg
    BY <1>1 DEF WriterRec
  <2> HIDE DEF x, w
  <2>3. Moves(b, t, x.pc, x.field, x.reg)  BY <1>4, <2>1, <2>2
  <2> QED BY <2>2, <2>3
<1>7. ASSUME WriterReceive(b, t) PROVE Moves(b, t, "load", 1, w.reg)
  <2> DEFINE f == 1
  <2>0. wchild' = [wchild EXCEPT ![b][t].pc = "load", ![b][t].field = f] /\ f \in 1 .. 3
    BY <1>7 DEF WriterReceive
  <2> HIDE DEF f
  <2> DEFINE x == [[w EXCEPT !.pc = "load"] EXCEPT !.field = f]
  <2>1. wchild' = [wchild EXCEPT ![b][t] = x]  BY <1>1, <2>0 DEF WriterTable
  <2>2. x \in WriterRec /\ x.pc = "load" /\ x.field = f /\ x.reg = w.reg
    BY <1>1, <2>0 DEF WriterRec
  <2> HIDE DEF x, w
  <2>3. Moves(b, t, x.pc, x.field, x.reg)  BY <1>4, <2>1, <2>2
  <2> QED BY <2>2, <2>3 DEF f
<1>8. ASSUME WriterDie(b, t) PROVE Moves(b, t, "gone", w.field, w.reg)
  <2> DEFINE x == [w EXCEPT !.pc = "gone"]
  <2>1. wchild' = [wchild EXCEPT ![b][t] = x]  BY <1>1, <1>8 DEF WriterDie, WriterTable
  <2>2. x \in WriterRec /\ x.pc = "gone" /\ x.field = w.field /\ x.reg = w.reg
    BY <1>1 DEF WriterRec
  <2> HIDE DEF x, w
  <2>3. Moves(b, t, x.pc, x.field, x.reg)  BY <1>4, <2>1, <2>2
  <2> QED BY <2>2, <2>3
<1>9. ASSUME WriterLoad(b, t) PROVE Moves(b, t, "store", w.field, smem[Fields[w.field]])
  <2> DEFINE r == smem[Fields[w.field]]
  <2>0. r \in Nat /\ wchild' = [wchild EXCEPT ![b][t].pc = "store", ![b][t].reg = r]
    BY <1>3, <1>9 DEF WriterLoad
  <2> HIDE DEF r
  <2> DEFINE x == [[w EXCEPT !.pc = "store"] EXCEPT !.reg = r]
  <2>1. wchild' = [wchild EXCEPT ![b][t] = x]  BY <1>1, <2>0 DEF WriterTable
  <2>2. x \in WriterRec /\ x.pc = "store" /\ x.field = w.field /\ x.reg = r
    BY <1>1, <2>0 DEF WriterRec
  <2> HIDE DEF x, w
  <2>3. Moves(b, t, x.pc, x.field, x.reg)  BY <1>4, <2>1, <2>2
  <2> QED BY <2>2, <2>3 DEF r
<1>10. ASSUME WriterStore(b, t)
       PROVE  Moves(b, t, IF w.field < 3 THEN "load" ELSE "done",
                    IF w.field < 3 THEN w.field + 1 ELSE w.field, w.reg)
  <2> DEFINE l == IF w.field < 3 THEN "load" ELSE "done"
             f == IF w.field < 3 THEN w.field + 1 ELSE w.field
  <2>0. /\ l \in {"load", "done"} /\ f \in 1 .. 3
        /\ wchild' = [wchild EXCEPT ![b][t].pc = l, ![b][t].field = f]
    BY <1>1, <1>2, <1>10 DEF WriterStore, WriterTable
  <2> HIDE DEF l, f
  <2> DEFINE x == [[w EXCEPT !.pc = l] EXCEPT !.field = f]
  <2>1. wchild' = [wchild EXCEPT ![b][t] = x]  BY <1>1, <2>0 DEF WriterTable
  <2>2. x \in WriterRec /\ x.pc = l /\ x.field = f /\ x.reg = w.reg
    BY <1>1, <2>0 DEF WriterRec
  <2> HIDE DEF x, w
  <2>3. Moves(b, t, x.pc, x.field, x.reg)  BY <1>4, <2>1, <2>2
  <2> QED BY <2>2, <2>3 DEF l, f
<1> QED BY <1>6, <1>7, <1>8, <1>9, <1>10

(* The client's processes keep their types; the server child that they make*)
(* or feed moves.                                                          *)
LEMMA ChildRecord ==
  ASSUME NEW l \in {"none", "connect", "hello", "send", "answer", "sent", "failed"},
         NEW i \in SepAttempts, NEW d \in BOOLEAN, NEW s \in Nat
  PROVE  [pc |-> l, try |-> i, down |-> d, sum |-> s] \in ChildRec
BY DEF ChildRec

LEMMA ClientMoves ==
  ASSUME SepTypeOK, SepCourse
  PROVE  /\ SepConnect =>
              /\ sender.block \in SepBlocks
              /\ Moves(sender.block, child.try, "start",
                       wchild[sender.block][child.try].field, wchild[sender.block][child.try].reg)
         /\ SepSend =>
              /\ sender.block \in SepBlocks
              /\ Moves(sender.block, child.try,
                       IF wchild[sender.block][child.try].pc = "receive" /\ ~child.down
                         THEN "full" ELSE wchild[sender.block][child.try].pc,
                       wchild[sender.block][child.try].field, wchild[sender.block][child.try].reg)
<1> DEFINE b == sender.block
           t == child.try
           w == wchild[b][t]
<1>1. child.pc # "none" => b \in SepBlocks
  <2>1. b \in 0 .. P  BY SepTypes DEF SenderRec
  <2> QED BY <2>1, SepNumbers DEF SepCourse
<1>2. wchild \in WriterTable /\ t \in SepAttempts
  BY SepTypes DEF ChildRec
<1>3. b \in SepBlocks => w \in WriterRec
  BY <1>2 DEF WriterTable
<1>4. ASSUME b \in SepBlocks, NEW x \in WriterRec, wchild' = [wchild EXCEPT ![b][t] = x]
      PROVE  Moves(b, t, x.pc, x.field, x.reg)
  <2> HIDE DEF b, t
  <2> QED BY <1>2, <1>4, Moved
<1>5. ASSUME SepConnect PROVE b \in SepBlocks /\ Moves(b, t, "start", w.field, w.reg)
  <2> DEFINE x == [w EXCEPT !.pc = "start"]
  <2>0. b \in SepBlocks  BY <1>1, <1>5 DEF SepConnect
  <2>1. wchild' = [wchild EXCEPT ![b][t] = x]
    BY <1>2, <1>5, <2>0 DEF SepConnect, WriterTable
  <2>2. x \in WriterRec /\ x.pc = "start" /\ x.field = w.field /\ x.reg = w.reg
    BY <1>3, <2>0 DEF WriterRec
  <2> HIDE DEF x, w
  <2>3. Moves(b, t, x.pc, x.field, x.reg)  BY <1>4, <2>0, <2>1, <2>2
  <2> QED BY <2>0, <2>2, <2>3
<1>6. ASSUME SepSend
      PROVE  b \in SepBlocks
             /\ Moves(b, t, IF w.pc = "receive" /\ ~child.down THEN "full" ELSE w.pc, w.field, w.reg)
  <2> DEFINE l == IF w.pc = "receive" /\ ~child.down THEN "full" ELSE w.pc
             x == [w EXCEPT !.pc = l]
  <2>0. b \in SepBlocks  BY <1>1, <1>6 DEF SepSend
  <2>1. wchild' = [wchild EXCEPT ![b][t] = x]
    BY <1>2, <1>6, <2>0 DEF SepSend, WriterTable
  <2>2. x \in WriterRec /\ x.pc = l /\ x.field = w.field /\ x.reg = w.reg
    BY <1>3, <2>0 DEF WriterRec
  <2> HIDE DEF x, w, l
  <2>3. Moves(b, t, x.pc, x.field, x.reg)  BY <1>4, <2>0, <2>1, <2>2
  <2> QED BY <2>0, <2>2, <2>3 DEF l
<1> QED BY <1>5, <1>6

(* Every step keeps the types.                                             *)
LEMMA SepTypeStep == ASSUME SepOrder, [SepNext]_sepvars PROVE SepTypeOK'
<1> USE DEF sepclient, sepserver
<1>0. SepTypeOK /\ SepCourse  BY DEF SepOrder
<1>a. /\ sender \in SenderRec /\ child \in ChildRec /\ cmem \in SlotRec
      /\ wchild \in WriterTable /\ smem \in SlotRec /\ inFile \subseteq SepBlocks
      /\ waiter \in [pc : {"sum", "size", "fin", "get", "end"}, sum : Nat, size : Nat]
      /\ verdict \in {"none", "accepted", "rejected", "abandoned"}
      /\ sepfaults \in Nat
  BY <1>0, SepTypes
<1>b. /\ sender.block \in 0 .. P /\ sender.size \in Nat /\ sender.sum \in Nat
      /\ child.try \in SepAttempts /\ child.down \in BOOLEAN /\ child.sum \in Nat
      /\ child.pc \in {"none", "connect", "hello", "send", "answer", "sent", "failed"}
  BY <1>a DEF SenderRec, ChildRec
<1>c. /\ cmem.size \in Nat /\ cmem.sum \in Nat /\ cmem.fin \in Nat
      /\ smem.size \in Nat /\ smem.sum \in Nat /\ smem.fin \in Nat
  BY <1>a DEF SlotRec
<1>d. FALSE \in BOOLEAN  OBVIOUS
<1>e. \A s \in Nat : SepNextTry(s) => child' \in ChildRec
  <2> SUFFICES ASSUME NEW s \in Nat, SepNextTry(s) PROVE child' \in ChildRec  OBVIOUS
  <2>1. CASE child.try < SepTries
    <3>1. child.try + 1 \in SepAttempts  BY <1>b, <2>1, SepNumbers DEF SepAttempts
    <3>2. child' = [pc |-> "connect", try |-> child.try + 1, down |-> FALSE, sum |-> s]
      BY <2>1 DEF SepNextTry
    <3> QED BY <1>d, <3>1, <3>2, ChildRecord
  <2>2. CASE ~(child.try < SepTries)
    <3>1. child' = [child EXCEPT !.pc = "failed", !.sum = s]  BY <2>2 DEF SepNextTry
    <3> QED BY <1>a, <3>1 DEF ChildRec
  <2> QED BY <2>1, <2>2
<1>1. ASSUME SepFork PROVE SepTypeOK'
  <2>1. child' \in ChildRec
    <3>1. CASE sender.block < P
      <4>1. child' = [pc |-> "connect", try |-> 1, down |-> FALSE, sum |-> sender.sum]
        BY <1>1, <3>1 DEF SepFork
      <4> QED BY <1>b, <1>d, <4>1, SepNumbers, ChildRecord
    <3> QED BY <1>1, <1>a, <3>1 DEF SepFork
  <2>2. sender' \in SenderRec  BY <1>1, <1>a DEF SepFork, SenderRec
  <2> QED BY <1>1, <1>a, <2>1, <2>2, SepTypes DEF SepFork, SepTypeOK, SenderRec, ChildRec
<1>2. ASSUME SepReap PROVE SepTypeOK'
  <2>1. sender.block + 1 \in 0 .. P  BY <1>0, <1>2, <1>b, SepNumbers DEF SepReap, SepCourse
  <2>2. sender' \in SenderRec  BY <1>2, <1>c, <2>1 DEF SepReap, SenderRec
  <2> QED BY <1>2, <1>0, <2>2 DEF SepReap, SepTypeOK, SenderRec
<1>3. ASSUME SepConnect PROVE SepTypeOK'
  <2>1. child' \in ChildRec  BY <1>3, <1>a DEF SepConnect, ChildRec
  <2>2. wchild' \in WriterTable  BY <1>3, <1>0, ClientMoves DEF Moves
  <2> QED BY <1>3, <1>0, <2>1, <2>2 DEF SepConnect, SepTypeOK, ChildRec, WriterTable, WriterRec
<1>4. ASSUME SepHello PROVE SepTypeOK'
  <2>1. child' \in ChildRec  BY <1>4, <1>a DEF SepHello, ChildRec
  <2> QED BY <1>4, <1>0, <2>1 DEF SepHello, SepTypeOK, ChildRec
<1>5. ASSUME SepNoServer PROVE SepTypeOK'
  <2>1. child' \in ChildRec  BY <1>5, <1>b, <1>e DEF SepNoServer
  <2> QED BY <1>5, <1>0, <2>1 DEF SepNoServer, SepTypeOK, ChildRec
<1>6. ASSUME SepSend PROVE SepTypeOK'
  <2>1. child' \in ChildRec  BY <1>6, <1>a DEF SepSend, ChildRec
  <2>2. wchild' \in WriterTable  BY <1>6, <1>0, ClientMoves DEF Moves
  <2> QED BY <1>6, <1>0, <2>1, <2>2 DEF SepSend, SepTypeOK, ChildRec, WriterTable, WriterRec
<1>7. ASSUME SepAnswer PROVE SepTypeOK'
  <2>1. child' \in ChildRec
    <3>1. sender.block \in SepBlocks
      BY <1>7, <1>0, <1>b, SepNumbers DEF SepAnswer, SepCourse
    <3>2. CASE SepLength[sender.block] > 0
      <4>1. child' = [child EXCEPT !.pc = "sent", !.sum = SepSum(sender.block)]
        BY <1>7, <3>2 DEF SepAnswer
      <4>2. SepSum(sender.block) \in Nat  BY <3>1, SepNumbers
      <4> HIDE DEF SepSum
      <4> QED BY <1>a, <4>1, <4>2 DEF ChildRec
    <3>3. CASE ~(SepLength[sender.block] > 0)
      <4>1. SepNextTry(0)  BY <1>7, <3>3 DEF SepAnswer
      <4> QED BY <1>e, <4>1
    <3> QED BY <3>2, <3>3
  <2> QED BY <1>7, <1>0, <2>1 DEF SepAnswer, SepTypeOK, ChildRec
<1>8. ASSUME SepCount PROVE SepTypeOK'
  <2>1. child' \in ChildRec  BY <1>8, <1>a DEF SepCount, ChildRec
  <2>2. SepLength[sender.block] \in Nat
    BY <1>8, <1>0, <1>b, SepNumbers DEF SepCount, SepCourse
  <2>3. cmem' \in SlotRec  BY <1>8, <1>b, <1>c, <2>2 DEF SepCount, SlotRec
  <2> QED BY <1>8, <1>0, <2>1, <2>3 DEF SepCount, SepTypeOK, ChildRec, SlotRec
<1>9. ASSUME SepReport PROVE SepTypeOK'
  BY <1>9, <1>0 DEF SepReport, SepTypeOK
<1>10. ASSUME SepReply PROVE SepTypeOK'
  BY <1>10, <1>0 DEF SepReply, SepTypeOK
<1>11. ASSUME SepDrop PROVE SepTypeOK'
  <2>1. [child EXCEPT !.down = TRUE] \in ChildRec
    <3>1. \A d \in BOOLEAN : [child EXCEPT !.down = d] \in ChildRec  BY <1>a DEF ChildRec
    <3> QED BY <3>1
  <2>2. child' \in ChildRec  BY <1>11, <2>1 DEF SepDrop
  <2> QED BY <1>11, <1>0, <2>2 DEF SepDrop, SepTypeOK, ChildRec
<1>12. ASSUME SepKill PROVE SepTypeOK'
  <2>1. child' \in ChildRec  BY <1>12, <1>a DEF SepKill, ChildRec
  <2> QED BY <1>12, <1>0, <2>1 DEF SepKill, SepTypeOK, ChildRec
<1>13. ASSUME WaitSum PROVE SepTypeOK'
  BY <1>13, <1>0, <1>c DEF WaitSum, SepTypeOK
<1>14. ASSUME WaitSize PROVE SepTypeOK'
  BY <1>14, <1>0, <1>c DEF WaitSize, SepTypeOK
<1>15. ASSUME WaitFin PROVE SepTypeOK'
  BY <1>15, <1>0 DEF WaitFin, SepTypeOK
<1>16. ASSUME WaitCheck PROVE SepTypeOK'
  BY <1>16, <1>0 DEF WaitCheck, SepTypeOK
<1>17. ASSUME WaitAbandon PROVE SepTypeOK'
  BY <1>17, <1>0 DEF WaitAbandon, SepTypeOK
<1>18. ASSUME NEW b \in SepBlocks, NEW t \in SepAttempts, WriterStep(b, t) PROVE SepTypeOK'
  <2>1. wchild' \in WriterTable  BY <1>18, <1>0, WriterMoves DEF WriterStep, Moves
  <2>2. inFile' \subseteq SepBlocks
    BY <1>18, <1>a DEF WriterStep, WriterInit, WriterReceive, WriterDie, WriterLoad, WriterStore
  <2>3. smem' \in SlotRec
    <3>1. CASE WriterStore(b, t)
      <4>1. wchild[b][t].reg \in Nat /\ wchild[b][t].field \in 1 .. 3
        BY <1>a DEF WriterTable, WriterRec
      <4>2. Added(b).size \in Nat /\ Added(b).sum \in Nat /\ Added(b).fin \in Nat
        BY SepNumbers DEF Added
      <4> HIDE DEF Added
      <4> DEFINE w == wchild[b][t]
      <4>3. CASE w.field = 1
        <5>1. smem' = [smem EXCEPT !["size"] = w.reg + Added(b)["size"]]
          BY <3>1, <4>3 DEF WriterStore, Fields
        <5> QED BY <1>a, <4>1, <4>2, <5>1 DEF SlotRec
      <4>4. CASE w.field = 2
        <5>1. smem' = [smem EXCEPT !["sum"] = w.reg + Added(b)["sum"]]
          BY <3>1, <4>4 DEF WriterStore, Fields
        <5> QED BY <1>a, <4>1, <4>2, <5>1 DEF SlotRec
      <4>5. CASE w.field = 3
        <5>1. smem' = [smem EXCEPT !["fin"] = w.reg + Added(b)["fin"]]
          BY <3>1, <4>5 DEF WriterStore, Fields
        <5> QED BY <1>a, <4>1, <4>2, <5>1 DEF SlotRec
      <4> QED BY <4>1, <4>3, <4>4, <4>5
    <3>2. CASE ~WriterStore(b, t)
      BY <1>18, <1>a, <3>2 DEF WriterStep, WriterInit, WriterReceive, WriterDie, WriterLoad
    <3> QED BY <3>1, <3>2
  <2>3a. UNCHANGED <<sepclient, waiter, verdict, sepfaults>>
    BY <1>18 DEF WriterStep, WriterInit, WriterReceive, WriterDie, WriterLoad, WriterStore
  <2> QED BY <1>0, <2>1, <2>2, <2>3, <2>3a DEF SepTypeOK, WriterTable, WriterRec, SlotRec
<1>19. ASSUME UNCHANGED sepvars PROVE SepTypeOK'
  BY <1>19, <1>0 DEF SepTypeOK, sepvars
<1> HIDE DEF sepclient, sepserver
<1> QED BY <1>1, <1>2, <1>3, <1>4, <1>5, <1>6, <1>7, <1>8, <1>9, <1>10, <1>11, <1>12,
           <1>13, <1>14, <1>15, <1>16, <1>17, <1>18, <1>19
        DEF SepNext, SepClientStep, WaiterStep

(* The client has one child at a time.                                     *)
LEMMA SepCourseStep == ASSUME SepOrder, SepTypeOK', [SepNext]_sepvars PROVE SepCourse'
<1> USE DEF sepclient, sepserver
<1>0. SepTypeOK /\ SepCourse /\ SepAhead /\ SepOnce  BY DEF SepOrder
<1>a. /\ sender \in SenderRec /\ child \in ChildRec /\ cmem \in SlotRec
      /\ sender' \in SenderRec /\ child' \in ChildRec /\ cmem' \in SlotRec
  BY <1>0 DEF SepTypeOK, SenderRec, ChildRec, SlotRec
<1>b. /\ sender.block \in 0 .. P /\ child.try \in SepAttempts /\ cmem.fin \in Nat
      /\ sender.block \in Nat /\ child.try \in Nat /\ P \in Nat
      /\ sender.pc \in {"fork", "wait", "report", "reply", "end"}
      /\ child.pc \in {"none", "connect", "hello", "send", "answer", "sent", "failed"}
  BY <1>a, SepNumbers DEF SenderRec, ChildRec, SlotRec, SepAttempts
<1>c. /\ \A b \in SepBlocks : b \in Nat /\ b < P /\ SepLength[b] \in Nat
      /\ \A t \in SepAttempts : t \in Nat /\ t > 0
  BY SepNumbers DEF SepBlocks, SepAttempts
<1>1. CASE SepClientStep
  <2>1. CASE SepFork  BY <2>1, <1>0, <1>a, <1>b DEF SepFork, SepCourse, SenderRec, ChildRec
  <2>2. CASE SepReap  BY <2>2, <1>0, <1>a, <1>b DEF SepReap, SepCourse, SenderRec, ChildRec
  <2>3. CASE SepConnect \/ SepHello \/ SepSend
      BY <2>3, <1>0, <1>a, <1>b DEF SepConnect, SepHello, SepSend, SepCourse, ChildRec
  <2>4. CASE SepNoServer \/ SepAnswer
    <3>1. child.pc # "none" /\ sender' = sender /\ cmem' = cmem
        BY <2>4 DEF SepNoServer, SepAnswer
    <3> QED BY <3>1, <1>0 DEF SepCourse
  <2>5. CASE SepCount  BY <2>5, <1>0, <1>a, <1>b DEF SepCount, SepCourse, ChildRec
  <2>6. CASE SepReport \/ SepReply
      BY <2>6, <1>0, <1>a, <1>b DEF SepReport, SepReply, SepCourse, SenderRec
  <2> QED BY <1>1, <2>1, <2>2, <2>3, <2>4, <2>5, <2>6 DEF SepClientStep
<1>2. CASE SepDrop \/ SepKill
    BY <1>2, <1>0, <1>a, <1>b DEF SepDrop, SepKill, SepCourse, ChildRec
<1>3. CASE UNCHANGED <<sender, child, cmem>>
    BY <1>3, <1>0 DEF SepCourse
<1>4. ASSUME NEW b \in SepBlocks, NEW t \in SepAttempts, WriterStep(b, t)
      PROVE  UNCHANGED <<sender, child, cmem>>
  BY <1>4 DEF WriterStep, WriterInit, WriterReceive, WriterDie, WriterLoad, WriterStore
<1>5. ASSUME WaiterStep \/ WaitAbandon \/ UNCHANGED sepvars
      PROVE  UNCHANGED <<sender, child, cmem>>
  BY <1>5 DEF WaiterStep, WaitSum, WaitSize, WaitFin, WaitCheck, WaitAbandon, sepvars
<1> HIDE DEF sepclient, sepserver
<1> QED BY <1>1, <1>2, <1>3, <1>4, <1>5 DEF SepNext

(* The server hears of the attempts in their order, and of one whole block *)
(* with data.                                                              *)
LEMMA SepAttemptStep == ASSUME SepOrder, SepTypeOK', [SepNext]_sepvars PROVE SepAhead' /\ SepOnce'
<1> USE DEF sepclient, sepserver, Unheard, Counting
<1>0. SepTypeOK /\ SepCourse /\ SepAhead /\ SepOnce  BY DEF SepOrder
<1>a. /\ sender \in SenderRec /\ child \in ChildRec /\ cmem \in SlotRec
      /\ sender' \in SenderRec /\ child' \in ChildRec /\ cmem' \in SlotRec
  BY <1>0 DEF SepTypeOK, SenderRec, ChildRec, SlotRec
<1>b. /\ sender.block \in 0 .. P /\ child.try \in SepAttempts /\ cmem.fin \in Nat
      /\ sender.block \in Nat /\ child.try \in Nat /\ P \in Nat
      /\ sender.pc \in {"fork", "wait", "report", "reply", "end"}
      /\ child.pc \in {"none", "connect", "hello", "send", "answer", "sent", "failed"}
  BY <1>a, SepNumbers DEF SenderRec, ChildRec, SlotRec, SepAttempts
<1>c. /\ \A b \in SepBlocks : b \in Nat /\ b < P /\ SepLength[b] \in Nat
      /\ \A t \in SepAttempts : t \in Nat /\ t > 0
  BY SepNumbers DEF SepBlocks, SepAttempts
<1>2. ASSUME UNCHANGED wchild, \A b \in SepBlocks, t \in SepAttempts : Unheard(b, t)' => Unheard(b, t)
      PROVE  SepAhead'
  BY <1>2, <1>0 DEF SepAhead
<1>3. ASSUME UNCHANGED <<wchild, sender>>,
             sender.pc = "wait" /\ SepLength[sender.block] > 0 =>
               \A t \in SepAttempts :
                 t < child'.try \/ (t = child'.try /\ child'.pc \in {"connect", "hello", "send"})
                   => ~Counting(sender.block, t)
      PROVE  SepOnce'
  BY <1>3, <1>0 DEF SepOnce, Counting
<1>4. ASSUME UNCHANGED <<wchild, sender, child>> PROVE SepAhead' /\ SepOnce'
  BY <1>4, <1>0 DEF SepAhead, SepOnce, Unheard, Counting
<1>5. CASE SepFork
  <2>1. SepAhead'
    <3>1. \A b \in SepBlocks, t \in SepAttempts : Unheard(b, t)' => Unheard(b, t)
      BY <1>5, <1>a, <1>b, <1>c DEF SepFork, Unheard, SenderRec
    <3> QED BY <1>2, <1>5, <3>1 DEF SepFork
  <2>2. SepOnce'
    <3>1. sender.block < P => \A t \in SepAttempts : wchild[sender.block][t].pc = "none"
      BY <1>5, <1>0, <1>b, SepNumbers DEF SepFork, SepAhead, Unheard
    <3>2. sender'.pc = "wait" => sender.block < P /\ sender'.block = sender.block
      BY <1>5, <1>a DEF SepFork, SenderRec
    <3> QED BY <1>5, <1>0, <3>1, <3>2 DEF SepFork, SepOnce, Counting
  <2> QED BY <2>1, <2>2
<1>6. CASE SepReap
  <2>1. child.pc = "none"  BY <1>6, <1>0, <1>b DEF SepReap, SepCourse
  <2>2. \A b \in SepBlocks, t \in SepAttempts : Unheard(b, t)' => Unheard(b, t)
    BY <1>6, <1>b, <1>c DEF SepReap, Unheard
  <2>3. SepOnce'  BY <1>6, <1>0 DEF SepReap, SepOnce, Counting
  <2> QED BY <1>2, <1>6, <2>2, <2>3 DEF SepReap
<1>7. CASE SepConnect
  <2>1. /\ sender.block \in SepBlocks /\ sender.pc = "wait"
        /\ Moves(sender.block, child.try, "start",
                 wchild[sender.block][child.try].field, wchild[sender.block][child.try].reg)
    BY <1>7, <1>0, ClientMoves DEF SepConnect, SepCourse
  <2>2. child'.pc = "hello" /\ child'.try = child.try /\ UNCHANGED sender /\ child.pc = "connect"
    BY <1>7, <1>a DEF SepConnect, ChildRec
  <2>3. SepAhead'
    BY <2>1, <2>2, <1>0, <1>b, <1>c DEF SepAhead, Unheard, Moves
  <2>4. \A b \in SepBlocks, t \in SepAttempts : Counting(b, t)' => Counting(b, t)
    BY <2>1 DEF Moves, Counting
  <2>5. ~(wchild'[sender.block][child.try].pc \in {"full", "load", "store", "done"})
    BY <2>1, <1>b DEF Moves
  <2>6. SepOnce'
    <3>1. \A t \in SepAttempts :
            t < child'.try \/ (t = child'.try /\ child'.pc \in {"connect", "hello", "send"})
              => (SepLength[sender.block] > 0
                    => ~(wchild'[sender.block][t].pc \in {"full", "load", "store", "done"}))
      BY <2>1, <2>2, <2>4, <2>5, <1>0 DEF SepOnce
    <3>2. \A b \in SepBlocks : SepLength[b] > 0 =>
            \A t \in SepAttempts, u \in SepAttempts : Counting(b, t)' /\ Counting(b, u)' => t = u
      <4> SUFFICES ASSUME NEW b \in SepBlocks, SepLength[b] > 0, NEW t \in SepAttempts,
                          NEW u \in SepAttempts, Counting(b, t)', Counting(b, u)'
                   PROVE  t = u
        OBVIOUS
      <4>1. Counting(b, t) /\ Counting(b, u)  BY <2>4
      <4> QED BY <4>1, <1>0 DEF SepOnce
    <3> QED BY <2>1, <2>2, <3>1, <3>2 DEF SepOnce
  <2> QED BY <2>3, <2>6
<1>8. CASE SepHello
  <2>1. child'.pc = "send" /\ child'.try = child.try /\ child.pc = "hello" /\ UNCHANGED <<sender, wchild>>
    BY <1>8, <1>a DEF SepHello, ChildRec
  <2>2. \A b \in SepBlocks, t \in SepAttempts : Unheard(b, t)' => Unheard(b, t)
    BY <2>1 DEF Unheard
  <2>3. SepOnce'  BY <2>1, <1>3, <1>0 DEF SepOnce
  <2> QED BY <1>2, <2>1, <2>2, <2>3
<1>9. ASSUME NEW s \in Nat, SepNextTry(s), child.pc # "none", child.pc # "connect", UNCHANGED <<sender, wchild>>,
             SepLength[sender.block] > 0 => child.pc = "hello"
      PROVE  SepAhead' /\ SepOnce'
  <2>1. child'.try >= child.try /\ (child'.pc = "failed" \/ (child'.pc = "connect" /\ child'.try = child.try + 1))
        /\ (child'.pc = "failed" => child'.try = child.try)
    <3>1. CASE child.try < SepTries
      <4>1. child' = [pc |-> "connect", try |-> child.try + 1, down |-> FALSE, sum |-> s]
        BY <1>9, <3>1 DEF SepNextTry
      <4> QED BY <4>1, <1>b
    <3>2. CASE ~(child.try < SepTries)
      <4>1. child' = [child EXCEPT !.pc = "failed", !.sum = s]
        BY <1>9, <3>2 DEF SepNextTry
      <4>2. child'.pc = "failed" /\ child'.try = child.try  BY <4>1, <1>a DEF ChildRec
      <4> QED BY <4>2, <1>b
    <3> QED BY <3>1, <3>2
  <2>2. \A b \in SepBlocks, t \in SepAttempts : Unheard(b, t)' => Unheard(b, t)
    BY <2>1, <1>9, <1>b, <1>c DEF Unheard
  <2>3. SepOnce'
    <3> SUFFICES ASSUME sender.pc = "wait", SepLength[sender.block] > 0, NEW t \in SepAttempts,
                        t < child'.try \/ (t = child'.try /\ child'.pc \in {"connect", "hello", "send"})
                 PROVE  ~Counting(sender.block, t)
      BY <1>3, <1>9
    <3>1. child.pc = "hello"  BY <1>9
    <3>2. CASE child'.pc = "failed"  BY <2>1, <3>1, <3>2, <1>0 DEF SepOnce
    <3>3. CASE child'.pc = "connect" /\ child'.try = child.try + 1
      <4>1. CASE t = child.try + 1
        <5>1. sender.block \in SepBlocks
          BY <1>0, <1>b, <1>9, SepNumbers DEF SepCourse
        <5> QED BY <4>1, <5>1, <1>0, <1>b DEF SepAhead, Unheard, Counting
      <4>2. CASE t # child.try + 1
        <5>1. t < child.try \/ t = child.try  BY <3>3, <4>2, <1>b, <1>c
        <5> QED BY <5>1, <3>1, <1>0 DEF SepOnce
      <4> QED BY <4>1, <4>2
    <3> QED BY <2>1, <3>2, <3>3
  <2> QED BY <1>2, <1>9, <2>2, <2>3
<1>10. CASE SepNoServer
  <2>1. child.sum \in Nat  BY <1>a DEF ChildRec
  <2> QED BY <1>9, <1>10, <2>1 DEF SepNoServer
<1>11. CASE SepSend
  <2> DEFINE w == wchild[sender.block][child.try]
             l == IF w.pc = "receive" /\ ~child.down THEN "full" ELSE w.pc
  <2>1. /\ sender.block \in SepBlocks /\ sender.pc = "wait"
        /\ Moves(sender.block, child.try, l, w.field, w.reg)
    BY <1>11, <1>0, ClientMoves DEF SepSend, SepCourse
  <2>2. child'.pc = "answer" /\ child'.try = child.try /\ UNCHANGED sender /\ child.pc = "send"
    BY <1>11, <1>a DEF SepSend, ChildRec
  <2> HIDE DEF l, w
  <2>3. SepAhead'
    BY <2>1, <2>2, <1>0, <1>b, <1>c DEF SepAhead, Unheard, Moves
  <2>4. \A b \in SepBlocks, t \in SepAttempts :
           Counting(b, t)' => Counting(b, t) \/ (b = sender.block /\ t = child.try)
    BY <2>1 DEF Moves, Counting
  <2>5. \A t \in SepAttempts : SepLength[sender.block] > 0 /\ Counting(sender.block, t)' => t = child.try
    <3> SUFFICES ASSUME NEW t \in SepAttempts, SepLength[sender.block] > 0,
                        Counting(sender.block, t)', t # child.try
                 PROVE  FALSE
      OBVIOUS
    <3>0. Counting(sender.block, t)  BY <2>1, <2>2, <2>4
    <3>1. t < child.try \/ t > child.try  BY <1>b, <1>c
    <3>2. CASE t < child.try  BY <2>1, <3>0, <3>2, <1>0 DEF SepOnce
    <3>3. CASE t > child.try  BY <2>1, <3>0, <3>3, <1>0 DEF SepAhead
    <3> QED BY <3>1, <3>2, <3>3
  <2>6. SepOnce'
    <3>1. \A t \in SepAttempts : t < child.try => (SepLength[sender.block] > 0 => ~Counting(sender.block, t)')
      BY <2>5, <1>b, <1>c
    <3>2. \A b \in SepBlocks : SepLength[b] > 0 =>
            \A t \in SepAttempts, u \in SepAttempts : Counting(b, t)' /\ Counting(b, u)' => t = u
      <4> SUFFICES ASSUME NEW b \in SepBlocks, SepLength[b] > 0, NEW t \in SepAttempts,
                          NEW u \in SepAttempts, Counting(b, t)', Counting(b, u)'
                   PROVE  t = u
        OBVIOUS
      <4>1. CASE b = sender.block  BY <2>2, <2>5, <4>1
      <4>2. CASE b # sender.block
        <5>1. Counting(b, t) /\ Counting(b, u)  BY <2>4, <4>2
        <5> QED BY <5>1, <1>0 DEF SepOnce
      <4> QED BY <4>1, <4>2
    <3> QED BY <2>2, <3>1, <3>2 DEF SepOnce
  <2> QED BY <2>3, <2>6
<1>12. CASE SepAnswer
  <2>1. CASE SepLength[sender.block] > 0
    <3>1. child'.pc = "sent" /\ child'.try = child.try /\ child.pc = "answer" /\ UNCHANGED <<sender, wchild>>
      BY <1>12, <2>1, <1>a DEF SepAnswer, ChildRec
    <3>2. \A b \in SepBlocks, t \in SepAttempts : Unheard(b, t)' => Unheard(b, t)
      BY <3>1 DEF Unheard
    <3>3. SepOnce'  BY <3>1, <1>3, <1>0 DEF SepOnce
    <3> QED BY <1>2, <3>1, <3>2, <3>3
  <2>2. CASE ~(SepLength[sender.block] > 0)
    BY <1>9, <1>12, <2>2 DEF SepAnswer
  <2> QED BY <2>1, <2>2
<1>13. CASE SepCount \/ SepKill \/ SepDrop
  <2>1. /\ child'.try = child.try /\ UNCHANGED <<sender, wchild>>
        /\ child'.pc = "none" \/ child'.pc = child.pc
    BY <1>13, <1>a DEF SepCount, SepKill, SepDrop, ChildRec
  <2>2. \A b \in SepBlocks, t \in SepAttempts : Unheard(b, t)' => Unheard(b, t)
    BY <2>1 DEF Unheard
  <2>3. SepOnce'  BY <2>1, <1>3, <1>0 DEF SepOnce
  <2> QED BY <1>2, <2>1, <2>2, <2>3
<1>14. CASE SepReport \/ SepReply
  <2>1. UNCHANGED <<child, wchild>> /\ sender'.block = sender.block /\ sender'.pc \in {"reply", "end"}
    BY <1>14, <1>a DEF SepReport, SepReply, SenderRec
  <2>2. \A b \in SepBlocks, t \in SepAttempts : Unheard(b, t)' => Unheard(b, t)
    BY <2>1 DEF Unheard
  <2>3. SepOnce'  BY <2>1, <1>0 DEF SepOnce, Counting
  <2> QED BY <1>2, <2>1, <2>2, <2>3
<1>15. ASSUME NEW b \in SepBlocks, NEW t \in SepAttempts, WriterStep(b, t)
       PROVE SepAhead' /\ SepOnce'
  <2>1. UNCHANGED <<sender, child>> /\ wchild[b][t].pc # "none"
    BY <1>15 DEF WriterStep, WriterInit, WriterReceive, WriterDie, WriterLoad, WriterStore
  <2>2. PICK l, f, r : Moves(b, t, l, f, r) /\ (l \in {"full", "load", "store", "done"} => Counting(b, t))
    <3> DEFINE w == wchild[b][t]
    <3>1. CASE WriterInit(b, t)  BY <3>1, <1>0, WriterMoves
    <3>2. CASE WriterReceive(b, t)  BY <3>2, <1>0, WriterMoves DEF WriterReceive, Counting
    <3>3. CASE WriterDie(b, t)  BY <3>3, <1>0, WriterMoves
    <3>4. CASE WriterLoad(b, t)  BY <3>4, <1>0, WriterMoves DEF WriterLoad, Counting
    <3>5. CASE WriterStore(b, t)  BY <3>5, <1>0, WriterMoves DEF WriterStore, Counting
    <3> QED BY <1>15, <3>1, <3>2, <3>3, <3>4, <3>5 DEF WriterStep
  <2>3. \A c \in SepBlocks, u \in SepAttempts : Counting(c, u)' => Counting(c, u)
    BY <2>2 DEF Moves, Counting
  <2>4. SepAhead'
    BY <2>1, <2>2, <1>0 DEF SepAhead, Unheard, Moves
  <2>5. SepOnce'
    <3>1. sender.pc = "wait" /\ SepLength[sender.block] > 0 =>
            \A u \in SepAttempts :
              u < child.try \/ (u = child.try /\ child.pc \in {"connect", "hello", "send"})
                => ~Counting(sender.block, u)'
      <4> SUFFICES ASSUME sender.pc = "wait", SepLength[sender.block] > 0, NEW u \in SepAttempts,
                     u < child.try \/ (u = child.try /\ child.pc \in {"connect", "hello", "send"}),
                     Counting(sender.block, u)'
                   PROVE  FALSE
        OBVIOUS
      <4>1. sender.block \in SepBlocks  BY <1>0, <1>b, SepNumbers DEF SepCourse
      <4>2. Counting(sender.block, u)  BY <2>1, <2>3, <4>1
      <4> QED BY <4>2, <1>0 DEF SepOnce
    <3>2. \A c \in SepBlocks : SepLength[c] > 0 =>
            \A v \in SepAttempts, u \in SepAttempts : Counting(c, v)' /\ Counting(c, u)' => v = u
      <4> SUFFICES ASSUME NEW c \in SepBlocks, SepLength[c] > 0, NEW v \in SepAttempts,
                          NEW u \in SepAttempts, Counting(c, v)', Counting(c, u)'
                   PROVE  v = u
        OBVIOUS
      <4>1. Counting(c, v) /\ Counting(c, u)  BY <2>3
      <4> QED BY <4>1, <1>0 DEF SepOnce
    <3> QED BY <2>1, <3>1, <3>2 DEF SepOnce
  <2> QED BY <2>4, <2>5
<1>16. CASE SepClientStep
  BY <1>16, <1>5, <1>6, <1>7, <1>8, <1>10, <1>11, <1>12, <1>13, <1>14 DEF SepClientStep
<1>17. CASE WaiterStep \/ WaitAbandon \/ UNCHANGED sepvars
  <2>1. UNCHANGED <<wchild, sender, child>>
    BY <1>17 DEF WaiterStep, WaitSum, WaitSize, WaitFin, WaitCheck, WaitAbandon, sepvars
  <2> QED BY <2>1, <1>4
<1> HIDE DEF sepclient, sepserver, Unheard, Counting
<1> QED BY <1>13, <1>15, <1>16, <1>17 DEF SepNext

(* The counter of bytes, the registers and the size that was read stay sums*)
(* of blocks that were counted.                                            *)
LEMMA SepSumsStep == ASSUME SepOrder, SepSums, SepTypeOK', [SepNext]_sepvars PROVE SepSums'
<1> USE DEF sepclient, sepserver
<1>0. SepTypeOK /\ SepCourse /\ SepOnce  BY DEF SepOrder
<1>a. wchild \in WriterTable /\ smem \in SlotRec  BY <1>0, SepTypes
<1>b. \A b \in SepBlocks, t \in SepAttempts :
        wchild[b][t].field \in 1 .. 3 /\ wchild[b][t].reg \in Nat
  BY <1>a DEF WriterTable, WriterRec
<1>c. StoredBlocks \in SUBSET SepBlocks  BY DEF StoredBlocks
(* no size is touched and no block is taken back *)
<1>1. ASSUME StoredBlocks \subseteq StoredBlocks', smem'.size = smem.size,
             waiter'.size \in {waiter.size, smem.size},
             \A b \in SepBlocks, t \in SepAttempts :
               wchild'[b][t].pc = "store" /\ wchild'[b][t].field = 1 =>
                 \/ wchild'[b][t].reg = smem.size
                 \/ wchild[b][t].pc = "store" /\ wchild[b][t].field = 1
                    /\ wchild'[b][t].reg = wchild[b][t].reg
      PROVE  SepSums'
  <2>1. SumOf(smem'.size, StoredBlocks')  BY <1>1, SumOfMore DEF SepSums
  <2>2. SumOf(waiter'.size, StoredBlocks')  BY <1>1, SumOfMore DEF SepSums
  <2>3. ASSUME NEW b \in SepBlocks, NEW t \in SepAttempts,
               wchild'[b][t].pc = "store", wchild'[b][t].field = 1
        PROVE  SumOf(wchild'[b][t].reg, StoredBlocks')
    <3>1. SumOf(wchild'[b][t].reg, StoredBlocks)  BY <1>1, <2>3 DEF SepSums
    <3> QED BY <1>1, <3>1, SumOfMore
  <2> QED BY <2>1, <2>2, <2>3 DEF SepSums
<1>2. ASSUME NEW b \in SepBlocks, NEW t \in SepAttempts, NEW l, NEW f, NEW r, Moves(b, t, l, f, r),
             wchild[b][t].pc # "done",
             wchild[b][t].pc \in {"load", "store"} /\ wchild[b][t].field > 1 =>
               l = "done" \/ (l \in {"load", "store"} /\ f > 1)
      PROVE  StoredBlocks \subseteq StoredBlocks'
  BY <1>2 DEF StoredBlocks, BlockStored, Moves
<1>3. ASSUME UNCHANGED <<wchild, smem>>, waiter'.size \in {waiter.size, smem.size} PROVE SepSums'
  <2>1. StoredBlocks' = StoredBlocks  BY <1>3 DEF StoredBlocks, BlockStored
  <2> QED BY <1>1, <1>3, <2>1
<1>4. CASE SepClientStep
  <2>1. CASE SepConnect
    <3>1. child.pc = "connect" /\ UNCHANGED <<smem, waiter>>  BY <2>1 DEF SepConnect
    <3>2. PICK b \in SepBlocks, t \in SepAttempts :
            wchild[b][t].pc = "none" /\ \E f, r : Moves(b, t, "start", f, r)
      <4>1. /\ sender.block \in SepBlocks
            /\ Moves(sender.block, child.try, "start",
                     wchild[sender.block][child.try].field, wchild[sender.block][child.try].reg)
        BY <2>1, <1>0, ClientMoves
      <4>2. child.try \in SepAttempts  BY <1>0, SepTypes DEF ChildRec
      <4>3. wchild[sender.block][child.try].pc = "none"
        BY <3>1, <4>1, <4>2, <1>0 DEF SepOrder, SepAhead, Unheard, SepCourse
      <4> QED BY <4>1, <4>2, <4>3
    <3>3. StoredBlocks \subseteq StoredBlocks'  BY <1>2, <3>2
    <3> QED BY <1>1, <3>1, <3>2, <3>3 DEF Moves
  <2>2. CASE SepSend
    <3>1. UNCHANGED <<smem, waiter>>  BY <2>2 DEF SepSend
    <3> DEFINE b == sender.block
               t == child.try
               w == wchild[b][t]
               l == IF w.pc = "receive" /\ ~child.down THEN "full" ELSE w.pc
    <3>2. b \in SepBlocks /\ t \in SepAttempts /\ Moves(b, t, l, w.field, w.reg)
      BY <2>2, <1>0, ClientMoves, SepTypes DEF ChildRec
    <3>3. StoredBlocks \subseteq StoredBlocks'
      BY <3>2 DEF StoredBlocks, BlockStored, Moves
    <3> QED BY <1>1, <3>1, <3>2, <3>3 DEF Moves
  <2>3. CASE ~SepConnect /\ ~SepSend
    BY <1>3, <1>4, <2>3 DEF SepClientStep, SepFork, SepReap, SepHello, SepNoServer, SepAnswer,
       SepCount, SepReport, SepReply
  <2> QED BY <2>1, <2>2, <2>3
<1>5. CASE SepDrop \/ SepKill \/ WaitAbandon \/ UNCHANGED sepvars
  <2>1. CASE WaitAbandon
    <3>1. waiter'.size = waiter.size  BY <2>1, <1>0 DEF WaitAbandon, SepTypeOK
    <3> QED BY <1>3, <2>1, <3>1 DEF WaitAbandon
  <2> QED BY <1>3, <1>5, <2>1 DEF SepDrop, SepKill, sepvars
<1>6. CASE WaiterStep
  <2>1. UNCHANGED <<wchild, smem>> /\ waiter'.size \in {waiter.size, smem.size}
    BY <1>6, <1>0 DEF WaiterStep, WaitSum, WaitSize, WaitFin, WaitCheck, SepTypeOK
  <2> QED BY <1>3, <2>1
<1>7. ASSUME NEW b \in SepBlocks, NEW t \in SepAttempts, WriterStep(b, t) PROVE SepSums'
  <2> DEFINE w == wchild[b][t]
  <2>1. CASE WriterInit(b, t) \/ WriterDie(b, t)
    <3>1. PICK l : Moves(b, t, l, w.field, w.reg) /\ l \in {"receive", "gone"}
          /\ w.pc \in {"start", "receive"} /\ UNCHANGED <<smem, waiter>>
      BY <2>1, <1>0, WriterMoves DEF WriterInit, WriterDie
    <3>2. StoredBlocks \subseteq StoredBlocks'  BY <1>2, <3>1
    <3> QED BY <1>1, <3>1, <3>2 DEF Moves
  <2>2. CASE WriterReceive(b, t)
    <3>1. Moves(b, t, "load", 1, w.reg) /\ w.pc = "full" /\ UNCHANGED <<smem, waiter>>
      BY <2>2, <1>0, WriterMoves DEF WriterReceive
    <3>2. StoredBlocks \subseteq StoredBlocks'  BY <1>2, <3>1
    <3> QED BY <1>1, <3>1, <3>2 DEF Moves
  <2>3. CASE WriterLoad(b, t)
    <3>1. /\ Moves(b, t, "store", w.field, smem[Fields[w.field]]) /\ w.pc = "load"
          /\ UNCHANGED <<smem, waiter>>
      BY <2>3, <1>0, WriterMoves DEF WriterLoad
    <3>2. StoredBlocks \subseteq StoredBlocks'  BY <1>2, <3>1
    <3>3. w.field = 1 => smem[Fields[w.field]] = smem.size  BY DEF Fields
    <3> QED BY <1>1, <3>1, <3>2, <3>3 DEF Moves
  <2>4. CASE WriterStore(b, t)
    <3> DEFINE l == IF w.field < 3 THEN "load" ELSE "done"
               f == IF w.field < 3 THEN w.field + 1 ELSE w.field
    <3>1. Moves(b, t, l, f, w.reg) /\ w.pc = "store" /\ UNCHANGED <<waiter>>
      BY <2>4, <1>0, WriterMoves DEF WriterStore
    <3>2. w.field \in 1 .. 3 /\ l \in {"load", "done"}  BY <1>b
    <3>3. l = "done" \/ f > 1  BY <3>2
    <3>4. CASE w.field # 1
      <4>1. StoredBlocks \subseteq StoredBlocks'
        <5> HIDE DEF l, f
        <5> QED BY <1>2, <3>1, <3>2, <3>3
      <4>2. smem'.size = smem.size
        <5>1. CASE w.field = 2
          <6>1. smem' = [smem EXCEPT !["sum"] = w.reg + Added(b)["sum"]]
            BY <2>4, <5>1 DEF WriterStore, Fields
          <6> QED BY <6>1, <1>a DEF SlotRec
        <5>2. CASE w.field = 3
          <6>1. smem' = [smem EXCEPT !["fin"] = w.reg + Added(b)["fin"]]
            BY <2>4, <5>2 DEF WriterStore, Fields
          <6> QED BY <6>1, <1>a DEF SlotRec
        <5> QED BY <3>2, <3>4, <5>1, <5>2
      <4> QED BY <1>1, <3>1, <3>2, <4>1, <4>2 DEF Moves
    <3>5. CASE w.field = 1
      <4>1. smem' = [smem EXCEPT !["size"] = w.reg + Added(b)["size"]]
        BY <2>4, <3>5 DEF WriterStore, Fields
      <4>2. smem'.size = w.reg + SepLength[b]  BY <4>1, <1>a DEF SlotRec, Added
      <4>3. StoredBlocks' = StoredBlocks \cup {b}
        <5>1. \A c \in SepBlocks : c # b => (BlockStored(c)' <=> BlockStored(c))
          BY <3>1 DEF Moves, BlockStored
        <5>2. BlockStored(b)'
          <6>1. wchild'[b][t].pc = "load" /\ wchild'[b][t].field > 1  BY <3>1, <3>5 DEF Moves
          <6> QED BY <6>1 DEF BlockStored
        <5> QED BY <5>1, <5>2 DEF StoredBlocks
      <4>4. b \notin StoredBlocks \/ SepLength[b] = 0
        <5> SUFFICES ASSUME SepLength[b] > 0, BlockStored(b) PROVE FALSE
          BY SepNumbers DEF StoredBlocks
        <5>1. PICK u \in SepAttempts : Counting(b, u) /\ (wchild[b][u].pc = "done" \/ wchild[b][u].field > 1)
          BY DEF BlockStored, Counting
        <5>2. Counting(b, t)  BY <3>1 DEF Counting
        <5>3. u = t  BY <5>1, <5>2, <1>0 DEF SepOnce
        <5> QED BY <3>1, <3>5, <5>1, <5>3
      <4>5. SumOf(w.reg, StoredBlocks)  BY <3>1, <3>5 DEF SepSums
      <4>6. SumOf(smem'.size, StoredBlocks')
        BY <1>c, <4>2, <4>3, <4>4, <4>5, SumOfAdded
      <4>7. StoredBlocks \subseteq StoredBlocks'  BY <4>3
      <4>8. SumOf(waiter'.size, StoredBlocks')  BY <3>1, <4>7, SumOfMore DEF SepSums
      <4>9. ASSUME NEW c \in SepBlocks, NEW u \in SepAttempts,
                   wchild'[c][u].pc = "store", wchild'[c][u].field = 1
            PROVE  SumOf(wchild'[c][u].reg, StoredBlocks')
        <5>1. ~(c = b /\ u = t)  BY <3>1, <3>5, <4>9 DEF Moves
        <5>2. wchild[c][u].pc = "store" /\ wchild[c][u].field = 1 /\ wchild'[c][u].reg = wchild[c][u].reg
          BY <3>1, <4>9, <5>1 DEF Moves
        <5>3. SumOf(wchild[c][u].reg, StoredBlocks)  BY <5>2 DEF SepSums
        <5> QED BY <4>7, <5>2, <5>3, SumOfMore
      <4> QED BY <4>6, <4>8, <4>9 DEF SepSums
    <3> QED BY <3>4, <3>5
  <2> QED BY <1>7, <2>1, <2>2, <2>3, <2>4 DEF WriterStep
<1> HIDE DEF sepclient, sepserver
<1> QED BY <1>4, <1>5, <1>6, <1>7 DEF SepNext

(* What was counted stays in the file until the upload is rejected.        *)
LEMMA SepFileStep == ASSUME SepOrder, SepFile, SepTypeOK', [SepNext]_sepvars PROVE SepFile'
<1> USE DEF sepclient, sepserver
<1>0. SepTypeOK /\ SepCourse  BY DEF SepOrder
<1>a. /\ waiter \in [pc : {"sum", "size", "fin", "get", "end"}, sum : Nat, size : Nat]
      /\ sender \in SenderRec /\ wchild \in WriterTable
  BY <1>0, SepTypes
<1>1. ASSUME UNCHANGED <<inFile, waiter, verdict>>, sender'.pc = "end" => sender.pc = "end",
             \A b \in SepBlocks, t \in SepAttempts :
               wchild'[b][t].pc \in {"load", "store", "done"} => wchild[b][t].pc \in {"load", "store", "done"}
      PROVE  SepFile'
  BY <1>1 DEF SepFile
<1>2. CASE SepClientStep
  <2>1. CASE SepConnect
    BY <2>1, <1>0, <1>1, ClientMoves DEF SepConnect, Moves
  <2>2. CASE SepSend
    <3> DEFINE b == sender.block
               t == child.try
               w == wchild[b][t]
               l == IF w.pc = "receive" /\ ~child.down THEN "full" ELSE w.pc
    <3>1. Moves(b, t, l, w.field, w.reg)  BY <2>2, <1>0, ClientMoves
    <3>2. l \in {"load", "store", "done"} => w.pc \in {"load", "store", "done"}  OBVIOUS
    <3>3. \A c \in SepBlocks, u \in SepAttempts :
            wchild'[c][u].pc \in {"load", "store", "done"} => wchild[c][u].pc \in {"load", "store", "done"}
      <4> HIDE DEF l
      <4> QED BY <3>1, <3>2 DEF Moves
    <3> QED BY <2>2, <1>1, <3>3 DEF SepSend
  <2>3. CASE SepReply
    BY <2>3, <1>a DEF SepReply, SepFile
  <2>4. CASE ~SepConnect /\ ~SepSend /\ ~SepReply
    <3>1. UNCHANGED <<wchild, inFile, waiter, verdict>> /\ (sender'.pc = "end" => sender.pc = "end")
      BY <1>2, <2>4, <1>a DEF SepClientStep, SepFork, SepReap, SepHello, SepNoServer, SepAnswer,
         SepCount, SepReport, SenderRec
    <3> QED BY <1>1, <3>1
  <2> QED BY <2>1, <2>2, <2>3, <2>4
<1>3. CASE SepDrop \/ SepKill \/ UNCHANGED sepvars
  BY <1>1, <1>3 DEF SepDrop, SepKill, sepvars
<1>4. CASE WaitSum \/ WaitSize \/ WaitFin
  BY <1>4, <1>a DEF WaitSum, WaitSize, WaitFin, SepFile
<1>5. CASE WaitCheck
  BY <1>5, <1>a DEF WaitCheck, SepFile
<1>6. CASE WaitAbandon
  BY <1>6, <1>a DEF WaitAbandon, SepFile
<1>7. ASSUME NEW b \in SepBlocks, NEW t \in SepAttempts, WriterStep(b, t) PROVE SepFile'
  <2>1. CASE WriterReceive(b, t)
    <3>1. /\ Moves(b, t, "load", 1, wchild[b][t].reg) /\ UNCHANGED <<sender, waiter, verdict>>
          /\ inFile' = IF verdict = "rejected" THEN inFile ELSE inFile \cup {b}
      BY <2>1, <1>0, WriterMoves DEF WriterReceive
    <3> QED BY <3>1 DEF SepFile, Moves
  <2>2. CASE WriterInit(b, t)
    BY <2>2, <1>0, <1>1, WriterMoves DEF WriterInit, Moves
  <2>3. CASE WriterDie(b, t)
    BY <2>3, <1>0, <1>1, WriterMoves DEF WriterDie, Moves
  <2>4. CASE WriterLoad(b, t)
    <3>1. PICK f, r : Moves(b, t, "store", f, r)  BY <2>4, <1>0, WriterMoves
    <3> QED BY <2>4, <1>1, <3>1 DEF WriterLoad, Moves
  <2>5. CASE WriterStore(b, t)
    <3>1. PICK l, f, r : Moves(b, t, l, f, r)  BY <2>5, <1>0, WriterMoves
    <3> QED BY <2>5, <1>1, <3>1 DEF WriterStore, Moves
  <2> QED BY <1>7, <2>1, <2>2, <2>3, <2>4, <2>5 DEF WriterStep
<1> HIDE DEF sepclient, sepserver
<1> QED BY <1>2, <1>3, <1>4, <1>5, <1>6, <1>7 DEF SepNext, WaiterStep

LEMMA SeparateInvariant == SepSpec => []SepInv
<1>1. SepInv /\ [SepNext]_sepvars => SepInv'
  <2> SUFFICES ASSUME SepInv, [SepNext]_sepvars PROVE SepInv'  OBVIOUS
  <2>1. SepOrder /\ SepSums /\ SepFile  BY DEF SepInv
  <2>2. SepTypeOK'  BY <2>1, SepTypeStep
  <2>3. SepCourse' /\ SepAhead' /\ SepOnce'  BY <2>1, <2>2, SepCourseStep, SepAttemptStep
  <2>4. SepSums' /\ SepFile'  BY <2>1, <2>2, SepSumsStep, SepFileStep
  <2> QED BY <2>2, <2>3, <2>4 DEF SepInv, SepOrder
<1> QED BY <1>1, SepInitial, PTL DEF SepSpec

(* Every state of a separate transfer is within its types.                 *)
THEOREM SeparateIsTyped == SepSpec => []SepTypeOK
<1>1. SepInv => SepTypeOK  BY DEF SepInv, SepOrder
<1> QED BY <1>1, SeparateInvariant, PTL

LEMMA SepWhole == ASSUME SepInv, verdict = "accepted"
                  PROVE  \A b \in SepBlocks : SepLength[b] > 0 => b \in inFile
<1> SUFFICES ASSUME NEW b \in SepBlocks, SepLength[b] > 0 PROVE b \in inFile  OBVIOUS
<1>1. SumOf(SepTotal, StoredBlocks)  BY DEF SepInv, SepFile, SepSums
<1>2. StoredBlocks \in SUBSET SepBlocks  BY DEF StoredBlocks
<1>3. b \in StoredBlocks  BY <1>1, <1>2, SumOfAll
<1>4. PICK t \in SepAttempts : wchild[b][t].pc \in {"load", "store", "done"}
  BY <1>3 DEF StoredBlocks, BlockStored
<1> QED BY <1>4 DEF SepInv, SepFile

(* A separate upload of any number of blocks is accepted only when every   *)
(* block with data is in the file, whatever is lost between the unlocked   *)
(* additions to the shared slot.                                           *)
THEOREM SeparateIsWhole == SepSpec => []SepAcceptedIsWhole
<1>1. SepInv => SepAcceptedIsWhole  BY SepWhole DEF SepAcceptedIsWhole
<1> QED BY <1>1, SeparateInvariant, PTL

(* Every step of a separate upload is a step of the promise, or changes    *)
(* nothing that it speaks of.                                              *)
LEMMA SepPromiseStep ==
  ASSUME SepInv, SepInv', [SepNext]_sepvars
  PROVE  [SepPromise!PromiseNext]_(SepPromise!promised)
<1> USE DEF sepclient, sepserver
<1>0. SepTypeOK /\ SepFile /\ SepFile'  BY DEF SepInv, SepOrder
<1>a. /\ waiter \in [pc : {"sum", "size", "fin", "get", "end"}, sum : Nat, size : Nat]
      /\ sender \in SenderRec
  BY <1>0, SepTypes
<1>1. ASSUME UNCHANGED <<inFile, verdict>>, sender'.pc = "end" <=> sender.pc = "end"
      PROVE  [SepPromise!PromiseNext]_(SepPromise!promised)
  BY <1>1 DEF SepPromise!promised
<1>2. CASE SepClientStep
  <2>1. CASE SepReply
    <3>1. /\ sender.pc = "reply" /\ sender'.pc = "end" /\ verdict # "none"
          /\ UNCHANGED <<inFile, verdict>>
      BY <2>1, <1>a DEF SepReply, SenderRec
    <3>2. SepPromise!Tell  BY <3>1 DEF SepPromise!Tell
    <3> QED BY <3>2 DEF SepPromise!PromiseNext
  <2>2. CASE ~SepReply
    <3>1. UNCHANGED <<inFile, verdict>> /\ (sender'.pc = "end" <=> sender.pc = "end")
      BY <1>2, <2>2, <1>a DEF SepClientStep, SepFork, SepReap, SepConnect, SepHello, SepNoServer,
         SepSend, SepAnswer, SepCount, SepReport, SenderRec
    <3> QED BY <1>1, <3>1
  <2> QED BY <2>1, <2>2
<1>3. CASE SepDrop \/ SepKill \/ WaitSum \/ WaitSize \/ WaitFin \/ UNCHANGED sepvars
  BY <1>1, <1>3 DEF SepDrop, SepKill, WaitSum, WaitSize, WaitFin, sepvars
<1>4. CASE WaitAbandon
  <2>1. waiter.pc = "get" /\ verdict' = "abandoned" /\ UNCHANGED <<inFile, sender>>
    BY <1>4 DEF WaitAbandon
  <2>2. verdict = "none" /\ sender.pc # "end"  BY <2>1, <1>0 DEF SepFile
  <2> QED BY <2>1, <2>2 DEF SepPromise!promised
<1>5. CASE WaitCheck
  <2>1. waiter.pc = "get" /\ sender.pc = "reply" /\ UNCHANGED sender  BY <1>5 DEF WaitCheck
  <2>2. verdict = "none"  BY <2>1, <1>0 DEF SepFile
  <2>3. CASE verdict' = "accepted" /\ UNCHANGED inFile
    <3>1. \A b \in SepBlocks : SepLength[b] > 0 => b \in inFile
      <4>1. \A b \in SepBlocks : SepLength[b] > 0 => b \in inFile'
        <5>1. (SepInv /\ verdict = "accepted" => \A b \in SepBlocks : SepLength[b] > 0 => b \in inFile)'
          BY SepWhole, PTL
        <5> QED BY <2>3, <5>1
      <4> QED BY <2>3, <4>1
    <3>2. SepPromise!Accept  BY <2>1, <2>2, <2>3, <3>1 DEF SepPromise!Accept
    <3> QED BY <3>2 DEF SepPromise!PromiseNext
  <2>4. CASE verdict' = "rejected" /\ inFile' = {}
    <3>1. SepPromise!Discard  BY <2>1, <2>2, <2>4 DEF SepPromise!Discard
    <3> QED BY <3>1 DEF SepPromise!PromiseNext
  <2> QED BY <1>5, <2>3, <2>4 DEF WaitCheck
<1>6. ASSUME NEW b \in SepBlocks, NEW t \in SepAttempts, WriterStep(b, t)
      PROVE  [SepPromise!PromiseNext]_(SepPromise!promised)
  <2>1. CASE WriterReceive(b, t) /\ verdict # "rejected"
    <3>1. inFile' = inFile \cup {b} /\ UNCHANGED <<verdict, sender>>  BY <2>1 DEF WriterReceive
    <3>2. SepPromise!Store(b)  BY <2>1, <3>1 DEF SepPromise!Store
    <3> QED BY <3>2 DEF SepPromise!PromiseNext
  <2>2. CASE ~(WriterReceive(b, t) /\ verdict # "rejected")
    <3>1. UNCHANGED <<inFile, verdict, sender>>
      BY <1>6, <2>2 DEF WriterStep, WriterInit, WriterReceive, WriterDie, WriterLoad, WriterStore
    <3> QED BY <1>1, <3>1
  <2> QED BY <2>1, <2>2
<1> HIDE DEF sepclient, sepserver
<1> QED BY <1>2, <1>3, <1>4, <1>5, <1>6 DEF SepNext, WaiterStep

(* A separate upload keeps the promise of an upload in blocks: with the    *)
(* client's count not asked for, an accepted file has every block with     *)
(* data, the verdict is final and the user hears of a success only then.   *)
THEOREM SeparateKeepsPromise == SepSpec => SepKeepsPromise
<1>1. SepInit => SepPromise!PromiseInit
  BY DEF SepInit, SepPromise!PromiseInit
<1>2. SepInv /\ SepInv' /\ [SepNext]_sepvars => [SepPromise!PromiseNext]_(SepPromise!promised)
  BY SepPromiseStep
<1> QED BY <1>1, <1>2, SeparateInvariant, PTL DEF SepSpec, SepKeepsPromise, SepPromise!PromiseSpec
-----------------------------------------------------------------------------
GetterRec == [pc : {"init", "connect", "hello", "read", "code", "end", "dead"},
              try : GAttempts, got : Nat, down : BOOLEAN]
GSlotRec == [size : Nat, sum : Nat, fin : BOOLEAN]
GiverPos == {"none", "start", "send", "done", "error", "gone"}
GsSlotRec == [sum : Nat, fin : BOOLEAN]
GparRec == [pc : {"poll", "report", "end"}, k : 0 .. GN, fin : Nat, size : Nat, sum : Nat]
GservRec == [pc : {"poll", "verify", "unlink", "end"}, k : 0 .. GN, fin : Nat, sum : Nat,
             said : {"none", "success", "error"}, deleted : BOOLEAN]

LEMMA GetTypes ==
    GTypeOK <=>
      /\ getter \in [GBlocks -> GetterRec] /\ gslot \in [GBlocks -> GSlotRec]
      /\ onDisk \in [GBlocks -> Nat] /\ giver \in [GBlocks -> [GAttempts -> GiverPos]]
      /\ gsslot \in [GBlocks -> GsSlotRec] /\ served \in BOOLEAN
      /\ gpar \in GparRec /\ gserv \in GservRec
      /\ told \in {"none", "success", "error"} /\ gfaults \in Nat
  BY DEF GTypeOK, GetterRec, GSlotRec, GiverPos, GsSlotRec, GparRec, GservRec

LEMMA GetNumbers ==
    /\ GN \in Nat /\ 0 < GN /\ GTries \in Nat /\ 0 < GTries /\ 1 \in GAttempts
    /\ \A b \in GBlocks : /\ b \in Nat /\ b < GN /\ b + 1 \in 0 .. GN
                          /\ GLength[b] \in Nat /\ GWeight[b] \in Nat
                          /\ GOff[b] \in Nat /\ GOff[b + 1] = GOff[b] + GLength[b]
    /\ \A k \in 0 .. GN : k \in Nat /\ GOff[k] \in Nat /\ (k < GN => k \in GBlocks)
    /\ GOff[0] = 0
<1>1. /\ GN \in Nat /\ 0 < GN /\ GTries \in Nat /\ 0 < GTries /\ 1 \in GAttempts
  BY GetAssumption DEF GAttempts
<1>2. \A b \in GBlocks : b \in Nat /\ b < GN /\ b + 1 \in 0 .. GN /\ b \in 0 .. GN
  BY <1>1 DEF GBlocks
<1>3. \A k \in 0 .. GN : k \in Nat /\ (k < GN => k \in GBlocks)
  BY <1>1 DEF GBlocks
<1> QED BY <1>1, <1>2, <1>3, GetAssumption

LEMMA GProduct == \A b \in GBlocks, n \in Nat : n * GWeight[b] \in Nat
<1>1. \A m, n \in Nat : m * n \in Nat  OBVIOUS
<1> QED BY <1>1, GetNumbers

(* The client child of block b moves to position l, with attempt, count and*)
(* connection given; no other does.                                        *)
GetterMoves(b, l, i, n, d) ==
    /\ getter' \in [GBlocks -> GetterRec]
    /\ \A c \in GBlocks :
         /\ getter'[c].pc = IF c = b THEN l ELSE getter[c].pc
         /\ getter'[c].try = IF c = b THEN i ELSE getter[c].try
         /\ getter'[c].got = IF c = b THEN n ELSE getter[c].got
         /\ (getter'[c].down <=> IF c = b THEN d ELSE getter[c].down)

LEMMA GetterMoved ==
  ASSUME getter \in [GBlocks -> GetterRec], NEW b \in GBlocks, NEW g \in GetterRec,
         getter' = [getter EXCEPT ![b] = g]
  PROVE  GetterMoves(b, g.pc, g.try, g.got, g.down)
<1>1. /\ getter' \in [GBlocks -> GetterRec]
      /\ \A c \in GBlocks : getter'[c] = IF c = b THEN g ELSE getter[c]
  <2> HIDE DEF GetterRec
  <2> QED OBVIOUS
<1> QED BY <1>1 DEF GetterMoves

(* The table of the client, likewise.                                      *)
SlotMoves(b, n, s, f) ==
    /\ gslot' \in [GBlocks -> GSlotRec]
    /\ \A c \in GBlocks :
         /\ gslot'[c].size = IF c = b THEN n ELSE gslot[c].size
         /\ gslot'[c].sum = IF c = b THEN s ELSE gslot[c].sum
         /\ (gslot'[c].fin <=> IF c = b THEN f ELSE gslot[c].fin)

LEMMA SlotWritten ==
  ASSUME gslot \in [GBlocks -> GSlotRec], NEW b \in GBlocks, NEW n \in Nat, NEW s \in Nat,
         NEW f \in BOOLEAN, GSlot(b, n, s, f)
  PROVE  SlotMoves(b, n, s, f)
<1> DEFINE x == [size |-> n, sum |-> s, fin |-> f]
<1>1. x \in GSlotRec /\ x.size = n /\ x.sum = s /\ (x.fin <=> f)  BY DEF GSlotRec
<1>2. gslot' = [gslot EXCEPT ![b] = x]  BY DEF GSlot
<1> HIDE DEF x
<1>3. /\ gslot' \in [GBlocks -> GSlotRec]
      /\ \A c \in GBlocks : gslot'[c] = IF c = b THEN x ELSE gslot[c]
  BY <1>1, <1>2
<1> QED BY <1>1, <1>3 DEF SlotMoves

LEMMA SlotFinished ==
  ASSUME gslot \in [GBlocks -> GSlotRec], NEW b \in GBlocks, GFinish(b)
  PROVE  SlotMoves(b, gslot[b].size, gslot[b].sum, TRUE)
<1>0. gslot[b] \in GSlotRec  OBVIOUS
<1>1. \A f \in BOOLEAN : /\ [gslot[b] EXCEPT !.fin = f] \in GSlotRec
                         /\ [gslot[b] EXCEPT !.fin = f].size = gslot[b].size
                         /\ [gslot[b] EXCEPT !.fin = f].sum = gslot[b].sum
                         /\ ([gslot[b] EXCEPT !.fin = f].fin <=> f)
  BY <1>0 DEF GSlotRec
<1> DEFINE x == [gslot[b] EXCEPT !.fin = TRUE]
<1>2. x \in GSlotRec /\ x.size = gslot[b].size /\ x.sum = gslot[b].sum /\ (x.fin <=> TRUE)
  BY <1>1
<1>3. gslot' = [gslot EXCEPT ![b] = x]  BY DEF GFinish
<1> HIDE DEF x
<1>4. /\ gslot' \in [GBlocks -> GSlotRec]
      /\ \A c \in GBlocks : gslot'[c] = IF c = b THEN x ELSE gslot[c]
  BY <1>2, <1>3
<1> QED BY <1>2, <1>4 DEF SlotMoves

LEMMA GetterAgain ==
  ASSUME getter \in [GBlocks -> GetterRec], NEW b \in GBlocks, GAgain(b)
  PROVE  \E l \in {"init", "end"}, i \in GAttempts :
           GetterMoves(b, l, i, getter[b].got, getter[b].down)
<1> DEFINE g == getter[b]
<1>0. g \in GetterRec /\ g.try \in GAttempts  BY DEF GetterRec
<1>1. CASE g.try < GTries
  <2> DEFINE i == g.try + 1
             x == [[g EXCEPT !.pc = "init"] EXCEPT !.try = i]
  <2>1. i \in GAttempts  BY <1>0, <1>1, GetNumbers DEF GAttempts
  <2>2. getter' = [getter EXCEPT ![b].pc = "init", ![b].try = i]
    BY <1>1 DEF GAgain
  <2> HIDE DEF i
  <2>3. getter' = [getter EXCEPT ![b] = x]  BY <2>2
  <2>4. /\ x \in GetterRec /\ x.pc = "init" /\ x.try = i
        /\ x.got = g.got /\ (x.down <=> g.down)
    BY <1>0, <2>1 DEF GetterRec
  <2> HIDE DEF x
  <2>5. GetterMoves(b, x.pc, x.try, x.got, x.down)  BY <2>3, <2>4, GetterMoved
  <2>6. GetterMoves(b, "init", i, g.got, g.down)  BY <2>4, <2>5 DEF GetterMoves
  <2> QED BY <2>1, <2>6
<1>2. CASE ~(g.try < GTries)
  <2> DEFINE i == g.try
             x == [[g EXCEPT !.pc = "end"] EXCEPT !.try = i]
  <2>1. getter' = [getter EXCEPT ![b].pc = "end", ![b].try = i]
    BY <1>2 DEF GAgain
  <2>2. i \in GAttempts  BY <1>0
  <2> HIDE DEF i
  <2>3. getter' = [getter EXCEPT ![b] = x]  BY <2>1
  <2>4. /\ x \in GetterRec /\ x.pc = "end" /\ x.try = i
        /\ x.got = g.got /\ (x.down <=> g.down)
    BY <1>0, <2>2 DEF GetterRec
  <2> HIDE DEF x
  <2>5. GetterMoves(b, x.pc, x.try, x.got, x.down)  BY <2>3, <2>4, GetterMoved
  <2>6. GetterMoves(b, "end", i, g.got, g.down)  BY <2>4, <2>5 DEF GetterMoves
  <2> QED BY <2>2, <2>6
<1> QED BY <1>1, <1>2

(* A change of position only, and a broken connection.                     *)
LEMMA GetterGoes ==
  ASSUME getter \in [GBlocks -> GetterRec], NEW b \in GBlocks,
         NEW l \in {"init", "connect", "hello", "read", "code", "end", "dead"},
         getter' = [getter EXCEPT ![b].pc = l]
  PROVE  GetterMoves(b, l, getter[b].try, getter[b].got, getter[b].down)
<1> DEFINE g == getter[b]
           x == [g EXCEPT !.pc = l]
<1>0. g \in GetterRec  OBVIOUS
<1>1. /\ x \in GetterRec /\ x.pc = l /\ x.try = g.try /\ x.got = g.got
      /\ (x.down <=> g.down)
  BY <1>0 DEF GetterRec
<1>2. getter' = [getter EXCEPT ![b] = x]  OBVIOUS
<1> HIDE DEF x
<1>3. GetterMoves(b, x.pc, x.try, x.got, x.down)  BY <1>1, <1>2, GetterMoved
<1> QED BY <1>1, <1>3 DEF GetterMoves

(* The server's children and their table, likewise.                        *)
GiverMoves(b, t, v) ==
    /\ giver' \in [GBlocks -> [GAttempts -> GiverPos]]
    /\ \A c \in GBlocks, i \in GAttempts :
         giver'[c][i] = IF c = b /\ i = t THEN v ELSE giver[c][i]

LEMMA GiverMoved ==
  ASSUME giver \in [GBlocks -> [GAttempts -> GiverPos]], NEW b \in GBlocks,
         NEW t \in GAttempts, NEW v \in GiverPos, giver' = [giver EXCEPT ![b][t] = v]
  PROVE  GiverMoves(b, t, v)
<1> DEFINE x == [giver[b] EXCEPT ![t] = v]
<1>1. /\ x \in [GAttempts -> GiverPos]
      /\ \A i \in GAttempts : x[i] = IF i = t THEN v ELSE giver[b][i]
  <2> HIDE DEF GiverPos
  <2> QED OBVIOUS
<1>2. giver' = [giver EXCEPT ![b] = x]  OBVIOUS
<1> HIDE DEF x, GiverPos
<1>3. \A c \in GBlocks : giver'[c] = IF c = b THEN x ELSE giver[c]  BY <1>2
<1>4. giver' \in [GBlocks -> [GAttempts -> GiverPos]]  BY <1>1, <1>2
<1> QED BY <1>1, <1>3, <1>4 DEF GiverMoves

CountMoves(b, s, f) ==
    /\ gsslot' \in [GBlocks -> GsSlotRec]
    /\ \A c \in GBlocks : /\ gsslot'[c].sum = IF c = b THEN s ELSE gsslot[c].sum
                          /\ (gsslot'[c].fin <=> IF c = b THEN f ELSE gsslot[c].fin)

LEMMA CountMoved ==
  ASSUME gsslot \in [GBlocks -> GsSlotRec], NEW b \in GBlocks, NEW x \in GsSlotRec,
         gsslot' = [gsslot EXCEPT ![b] = x]
  PROVE  CountMoves(b, x.sum, x.fin)
<1>1. /\ gsslot' \in [GBlocks -> GsSlotRec]
      /\ \A c \in GBlocks : gsslot'[c] = IF c = b THEN x ELSE gsslot[c]
  <2> HIDE DEF GsSlotRec
  <2> QED OBVIOUS
<1> QED BY <1>1 DEF CountMoves
-----------------------------------------------------------------------------
(***************************************************************************)
(* What each operation does, field by field.                               *)
(***************************************************************************)
LEMMA GetInitDoes ==
  ASSUME GTypeOK, NEW b \in GBlocks, GetInit(b)
  PROVE  /\ GetterMoves(b, "connect", getter[b].try, 0, FALSE)
         /\ SlotMoves(b, 0, 0, FALSE)
<1>0. getter \in [GBlocks -> GetterRec] /\ gslot \in [GBlocks -> GSlotRec]
  BY GetTypes
<1> DEFINE g == getter[b]
<1>1. g \in GetterRec  BY <1>0
<1>2. \A d \in BOOLEAN :
        LET x == [[[g EXCEPT !.pc = "connect"] EXCEPT !.got = 0] EXCEPT !.down = d]
        IN  /\ x \in GetterRec /\ x.pc = "connect" /\ x.try = g.try
            /\ x.got = 0 /\ (x.down <=> d)
  BY <1>1 DEF GetterRec
<1> DEFINE x == [[[g EXCEPT !.pc = "connect"] EXCEPT !.got = 0] EXCEPT !.down = FALSE]
<1>3. getter' = [getter EXCEPT ![b] = x]  BY DEF GetInit
<1>4. /\ x \in GetterRec /\ x.pc = "connect" /\ x.try = g.try
      /\ x.got = 0 /\ (x.down <=> FALSE)
  BY <1>2
<1> HIDE DEF x
<1>5. GetterMoves(b, x.pc, x.try, x.got, x.down)  BY <1>0, <1>3, <1>4, GetterMoved
<1>6. GetterMoves(b, "connect", g.try, 0, FALSE)  BY <1>4, <1>5 DEF GetterMoves
<1>7. SlotMoves(b, 0, 0, FALSE)  BY <1>0, SlotWritten DEF GetInit
<1> QED BY <1>6, <1>7

LEMMA GetConnectDoes ==
  ASSUME GTypeOK, NEW b \in GBlocks, GetConnect(b)
  PROVE  /\ GetterMoves(b, "hello", getter[b].try, getter[b].got, getter[b].down)
         /\ GiverMoves(b, getter[b].try, "start")
<1>0. /\ getter \in [GBlocks -> GetterRec]
      /\ giver \in [GBlocks -> [GAttempts -> GiverPos]]
  BY GetTypes
<1>1. getter[b].try \in GAttempts  BY <1>0 DEF GetterRec
<1>2. "start" \in GiverPos  BY DEF GiverPos
<1> QED BY <1>0, <1>1, <1>2, GetterGoes, GiverMoved DEF GetConnect

LEMMA GetReadDoes ==
  ASSUME GTypeOK, NEW b \in GBlocks, GetRead(b)
  PROVE  LET n == getter[b].got + 1 IN
         /\ n \in Nat /\ n <= GLength[b]
         /\ GetterMoves(b, "read", getter[b].try, n, getter[b].down)
         /\ onDisk' \in [GBlocks -> Nat]
         /\ \A c \in GBlocks : onDisk'[c] = IF c = b /\ n > onDisk[b] THEN n ELSE onDisk[c]
         /\ n % GReport = 0 => SlotMoves(b, n, n * GWeight[b], FALSE)
         /\ n % GReport # 0 => gslot' = gslot
<1> DEFINE n == getter[b].got + 1
<1>0. /\ getter \in [GBlocks -> GetterRec] /\ gslot \in [GBlocks -> GSlotRec]
      /\ onDisk \in [GBlocks -> Nat]
  BY GetTypes
<1> DEFINE g == getter[b]
<1>1. g \in GetterRec /\ g.got \in Nat /\ g.pc = "read"  BY <1>0 DEF GetterRec, GetRead
<1>2. n \in Nat /\ n <= GLength[b]  BY <1>1, GetNumbers DEF GetRead
<1>3. getter' = [getter EXCEPT ![b].got = n]  BY DEF GetRead
<1>4. onDisk' = [onDisk EXCEPT ![b] = IF n > @ THEN n ELSE @]  BY DEF GetRead
<1>5. n % GReport = 0 => GSlot(b, n, n * GWeight[b], FALSE)  BY DEF GetRead
<1>6. n % GReport # 0 => gslot' = gslot  BY DEF GetRead
<1>7. n * GWeight[b] \in Nat  BY <1>2, GProduct
<1> HIDE DEF n
<1> DEFINE x == [g EXCEPT !.got = n]
<1>8. /\ x \in GetterRec /\ x.pc = "read" /\ x.try = g.try
      /\ x.got = n /\ (x.down <=> g.down)
  BY <1>1, <1>2 DEF GetterRec
<1>9. getter' = [getter EXCEPT ![b] = x]  BY <1>3
<1> HIDE DEF x
<1>10. GetterMoves(b, x.pc, x.try, x.got, x.down)  BY <1>0, <1>8, <1>9, GetterMoved
<1>11. GetterMoves(b, "read", g.try, n, g.down)  BY <1>8, <1>10 DEF GetterMoves
<1>12. /\ onDisk' \in [GBlocks -> Nat]
       /\ \A c \in GBlocks : onDisk'[c] = IF c = b /\ n > onDisk[b] THEN n ELSE onDisk[c]
  BY <1>0, <1>2, <1>4
<1>13. n % GReport = 0 => SlotMoves(b, n, n * GWeight[b], FALSE)
  BY <1>0, <1>2, <1>5, <1>7, SlotWritten
<1> QED BY <1>2, <1>6, <1>11, <1>12, <1>13 DEF n

LEMMA GetEndDoes ==
  ASSUME GTypeOK, NEW b \in GBlocks, GetEnd(b)
  PROVE  LET n == getter[b].got IN
         /\ n \in Nat
         /\ GetterMoves(b, "code", getter[b].try, n, getter[b].down)
         /\ n % GReport # 0 => SlotMoves(b, n, n * GWeight[b], TRUE)
         /\ n % GReport = 0 => SlotMoves(b, gslot[b].size, gslot[b].sum, TRUE)
<1> DEFINE n == getter[b].got
<1>0. getter \in [GBlocks -> GetterRec] /\ gslot \in [GBlocks -> GSlotRec]  BY GetTypes
<1>1. n \in Nat  BY <1>0 DEF GetterRec
<1>2. n * GWeight[b] \in Nat  BY <1>1, GProduct
<1>3. GetterMoves(b, "code", getter[b].try, n, getter[b].down)
  BY <1>0, GetterGoes DEF GetEnd
<1>4. n % GReport # 0 => SlotMoves(b, n, n * GWeight[b], TRUE)
  <2>1. n % GReport # 0 => GSlot(b, n, n * GWeight[b], TRUE)  BY DEF GetEnd
  <2> HIDE DEF n
  <2> QED BY <1>0, <1>1, <1>2, <2>1, SlotWritten
<1>5. n % GReport = 0 => SlotMoves(b, gslot[b].size, gslot[b].sum, TRUE)
  BY <1>0, SlotFinished DEF GetEnd
<1> QED BY <1>1, <1>3, <1>4, <1>5

LEMMA GetDropDoes ==
  ASSUME GTypeOK, NEW b \in GBlocks, GetDrop(b)
  PROVE  GetterMoves(b, getter[b].pc, getter[b].try, getter[b].got, TRUE)
<1>0. getter \in [GBlocks -> GetterRec]  BY GetTypes
<1> DEFINE g == getter[b]
           x == [g EXCEPT !.down = TRUE]
<1>1. g \in GetterRec  BY <1>0
<1>2. \A d \in BOOLEAN : LET y == [g EXCEPT !.down = d] IN
        /\ y \in GetterRec /\ y.pc = g.pc /\ y.try = g.try /\ y.got = g.got /\ (y.down <=> d)
  BY <1>1 DEF GetterRec
<1>3. /\ x \in GetterRec /\ x.pc = g.pc /\ x.try = g.try /\ x.got = g.got
      /\ (x.down <=> TRUE)
  BY <1>2
<1>4. getter' = [getter EXCEPT ![b] = x]  BY DEF GetDrop
<1> HIDE DEF x
<1>5. GetterMoves(b, x.pc, x.try, x.got, x.down)  BY <1>0, <1>3, <1>4, GetterMoved
<1> QED BY <1>3, <1>5 DEF GetterMoves

LEMMA GiveOpenDoes ==
  ASSUME GTypeOK, NEW b \in GBlocks, NEW t \in GAttempts, GiveOpen(b, t)
  PROVE  \/ served /\ GiverMoves(b, t, "send") /\ gsslot' = gsslot
         \/ ~served /\ GiverMoves(b, t, "error") /\ CountMoves(b, gsslot[b].sum, TRUE)
<1>0. /\ giver \in [GBlocks -> [GAttempts -> GiverPos]]
      /\ gsslot \in [GBlocks -> GsSlotRec]
  BY GetTypes
<1>1. "send" \in GiverPos /\ "error" \in GiverPos  BY DEF GiverPos
<1>2. CASE served  BY <1>0, <1>1, <1>2, GiverMoved DEF GiveOpen
<1>3. CASE ~served
  <2>1. \A f \in BOOLEAN : LET y == [gsslot[b] EXCEPT !.fin = f] IN
          y \in GsSlotRec /\ y.sum = gsslot[b].sum /\ (y.fin <=> f)
    BY <1>0 DEF GsSlotRec
  <2> DEFINE x == [gsslot[b] EXCEPT !.fin = TRUE]
  <2>2. x \in GsSlotRec /\ x.sum = gsslot[b].sum /\ (x.fin <=> TRUE)  BY <2>1
  <2>3. gsslot' = [gsslot EXCEPT ![b] = x]  BY <1>3 DEF GiveOpen
  <2> HIDE DEF x
  <2>4. CountMoves(b, x.sum, x.fin)  BY <1>0, <2>2, <2>3, CountMoved
  <2>5. CountMoves(b, gsslot[b].sum, TRUE)  BY <2>2, <2>4 DEF CountMoves
  <2>6. GiverMoves(b, t, "error")  BY <1>0, <1>1, <1>3, GiverMoved DEF GiveOpen
  <2> QED BY <1>3, <2>5, <2>6
<1> QED BY <1>2, <1>3

LEMMA GiveSendDoes ==
  ASSUME GTypeOK, NEW b \in GBlocks, NEW t \in GAttempts, GiveSend(b, t)
  PROVE  GiverMoves(b, t, "done") /\ CountMoves(b, GLength[b] * GWeight[b], TRUE)
<1>0. /\ giver \in [GBlocks -> [GAttempts -> GiverPos]]
      /\ gsslot \in [GBlocks -> GsSlotRec]
  BY GetTypes
<1>1. GiverMoves(b, t, "done")
  <2>1. "done" \in GiverPos  BY DEF GiverPos
  <2> QED BY <1>0, <2>1, GiverMoved DEF GiveSend
<1> DEFINE s == GLength[b] * GWeight[b]
           x == [sum |-> s, fin |-> TRUE]
<1>2. s \in Nat  BY GetNumbers, GProduct
<1>3. gsslot' = [gsslot EXCEPT ![b] = x]  BY DEF GiveSend
<1> HIDE DEF s
<1>4. x \in GsSlotRec /\ x.sum = s /\ (x.fin <=> TRUE)  BY <1>2 DEF GsSlotRec
<1> HIDE DEF x
<1>5. CountMoves(b, x.sum, x.fin)  BY <1>0, <1>3, <1>4, CountMoved
<1>6. CountMoves(b, s, TRUE)  BY <1>4, <1>5 DEF CountMoves
<1> QED BY <1>1, <1>6 DEF s

(* A pass over the client's table takes one slot more.                     *)
LEMMA GPollSlotDoes ==
  ASSUME GTypeOK, GPollSlot
  PROVE  LET b == gpar.k IN
         /\ b \in GBlocks /\ gpar' \in GparRec /\ gpar'.pc = gpar.pc /\ gpar.pc = "poll"
         /\ gpar'.k = b + 1 /\ gpar'.fin = gpar.fin + IF gslot[b].fin THEN 1 ELSE 0
         /\ gpar'.size = gpar.size + gslot[b].size
         /\ gpar'.sum = gpar.sum + gslot[b].sum
<1>0. gpar \in GparRec /\ gslot \in [GBlocks -> GSlotRec]  BY GetTypes
<1> DEFINE b == gpar.k
           k1 == b + 1
           f1 == gpar.fin + IF gslot[b].fin THEN 1 ELSE 0
           n1 == gpar.size + gslot[b].size
           s1 == gpar.sum + gslot[b].sum
<1>1. b \in GBlocks /\ k1 \in 0 .. GN
  <2>1. b \in 0 .. GN /\ b < GN  BY <1>0 DEF GparRec, GPollSlot
  <2> QED BY <2>1, GetNumbers
<1>2. gslot[b] \in GSlotRec  BY <1>0, <1>1
<1>3. f1 \in Nat /\ n1 \in Nat /\ s1 \in Nat  BY <1>0, <1>2 DEF GparRec, GSlotRec
<1>4. gpar' = [gpar EXCEPT !.k = k1, !.fin = f1, !.size = n1, !.sum = s1] /\ gpar.pc = "poll"
  BY DEF GPollSlot
<1> HIDE DEF k1, f1, n1, s1
<1>5. /\ gpar' \in GparRec /\ gpar'.pc = gpar.pc /\ gpar'.k = k1 /\ gpar'.fin = f1
      /\ gpar'.size = n1 /\ gpar'.sum = s1
  BY <1>0, <1>1, <1>3, <1>4 DEF GparRec
<1> QED BY <1>1, <1>4, <1>5 DEF k1, f1, n1, s1

LEMMA GPollEndDoes ==
  ASSUME GTypeOK, GPollEnd
  PROVE  /\ gpar' \in GparRec /\ told' \in {"none", "success", "error"}
         /\ gpar.pc = "poll" /\ gpar.k = GN
         /\ \/ /\ gpar.fin >= GN \/ gpar.size >= GTotal
               /\ gpar'.pc \in {"end", "report"} /\ gpar'.k = gpar.k
               /\ gpar'.fin = gpar.fin /\ gpar'.size = gpar.size /\ gpar'.sum = gpar.sum
               /\ told' = told \/ (told' = "error" /\ gpar.fin >= GN /\ gpar.size = 0)
            \/ /\ gpar'.pc = "poll" /\ gpar'.k = 0 /\ gpar'.fin = 0
               /\ gpar'.size = 0 /\ gpar'.sum = 0 /\ told' = told
<1>0. gpar \in GparRec /\ told \in {"none", "success", "error"}  BY GetTypes
<1>1. CASE gpar.fin >= GN \/ gpar.size >= GTotal
  <2> DEFINE l == IF gpar.fin >= GN /\ gpar.size = 0 THEN "end" ELSE "report"
  <2>1. gpar' = [gpar EXCEPT !.pc = l]  BY <1>1 DEF GPollEnd
  <2>2. l \in {"end", "report"}  OBVIOUS
  <2> HIDE DEF l
  <2>3. /\ gpar' \in GparRec /\ gpar'.pc = l /\ gpar'.k = gpar.k
        /\ gpar'.fin = gpar.fin /\ gpar'.size = gpar.size /\ gpar'.sum = gpar.sum
    BY <1>0, <2>1, <2>2 DEF GparRec
  <2>4. told' = told \/ (told' = "error" /\ gpar.fin >= GN /\ gpar.size = 0)
    BY <1>1 DEF GPollEnd
  <2>5. gpar.pc = "poll" /\ gpar.k = GN  BY DEF GPollEnd
  <2> QED BY <1>0, <1>1, <2>2, <2>3, <2>4, <2>5
<1>2. CASE ~(gpar.fin >= GN \/ gpar.size >= GTotal)
  BY <1>0, <1>2, GetNumbers DEF GPollEnd, FreshPass, GparRec
<1> QED BY <1>1, <1>2

LEMMA GServSlotDoes ==
  ASSUME GTypeOK, GServSlot
  PROVE  LET b == gserv.k IN
         /\ b \in GBlocks /\ gserv' \in GservRec /\ gserv'.pc = "poll" /\ gserv.pc = "poll"
         /\ gserv'.k = b + 1 /\ gserv'.fin = gserv.fin + IF gsslot[b].fin THEN 1 ELSE 0
         /\ gserv'.sum = gserv.sum + gsslot[b].sum
         /\ gserv'.said = gserv.said /\ (gserv'.deleted <=> gserv.deleted)
<1>0. gserv \in GservRec /\ gsslot \in [GBlocks -> GsSlotRec]  BY GetTypes
<1> DEFINE b == gserv.k
           k1 == b + 1
           f1 == gserv.fin + IF gsslot[b].fin THEN 1 ELSE 0
           s1 == gserv.sum + gsslot[b].sum
<1>1. b \in GBlocks /\ k1 \in 0 .. GN
  <2>1. b \in 0 .. GN /\ b < GN  BY <1>0 DEF GservRec, GServSlot
  <2> QED BY <2>1, GetNumbers
<1>2. gsslot[b] \in GsSlotRec  BY <1>0, <1>1
<1>3. f1 \in Nat /\ s1 \in Nat  BY <1>0, <1>2 DEF GservRec, GsSlotRec
<1>4. gserv' = [gserv EXCEPT !.k = k1, !.fin = f1, !.sum = s1] /\ gserv.pc = "poll"
  BY DEF GServSlot
<1> HIDE DEF k1, f1, s1
<1>5. /\ gserv' \in GservRec /\ gserv'.pc = "poll" /\ gserv'.k = k1 /\ gserv'.fin = f1
      /\ gserv'.sum = s1 /\ gserv'.said = gserv.said /\ (gserv'.deleted <=> gserv.deleted)
  BY <1>0, <1>1, <1>3, <1>4 DEF GservRec
<1> QED BY <1>1, <1>4, <1>5 DEF k1, f1, s1

LEMMA GServPollDoes ==
  ASSUME GTypeOK, GServPoll
  PROVE  /\ gserv' \in GservRec /\ gserv'.said = gserv.said /\ gserv.pc = "poll"
         /\ gserv.k = GN /\ (gserv'.deleted <=> gserv.deleted)
         /\ \/ /\ gserv.fin >= GN /\ gserv'.pc = "verify" /\ gserv'.k = gserv.k
               /\ gserv'.fin = gserv.fin /\ gserv'.sum = gserv.sum
            \/ gserv'.pc = "poll" /\ gserv'.k = 0 /\ gserv'.fin = 0 /\ gserv'.sum = 0
<1>0. gserv \in GservRec  BY GetTypes
<1>1. CASE gserv.fin >= GN
  <2>1. gserv' = [gserv EXCEPT !.pc = "verify"]  BY <1>1 DEF GServPoll
  <2>2. gserv.pc = "poll" /\ gserv.k = GN  BY DEF GServPoll
  <2> QED BY <1>0, <1>1, <2>1, <2>2 DEF GservRec
<1>2. CASE ~(gserv.fin >= GN)
  <2>1. gserv' = [gserv EXCEPT !.k = 0, !.fin = 0, !.sum = 0]  BY <1>2 DEF GServPoll
  <2>2. gserv.pc = "poll" /\ gserv.k = GN  BY DEF GServPoll
  <2>3. 0 \in 0 .. GN /\ 0 \in Nat  BY GetNumbers
  <2> QED BY <1>0, <2>1, <2>2, <2>3 DEF GservRec
<1> QED BY <1>1, <1>2

(* The server's last steps move it on and leave the totals alone.          *)
LEMMA GServEnds ==
  ASSUME GTypeOK, GServVerify \/ GServAlone \/ GServUnlink
  PROVE  /\ gserv' \in GservRec /\ gserv'.k = gserv.k /\ gserv'.fin = gserv.fin
         /\ gserv'.sum = gserv.sum
         /\ GServVerify => /\ (gserv'.deleted <=> gserv.deleted)
                           /\ gpar.pc = "report" /\ gserv.pc = "verify"
                           /\ IF gpar.size = GTotal /\ gserv.sum = gpar.sum
                                THEN gserv'.pc = "unlink" /\ gserv'.said = "success"
                                ELSE gserv'.pc = "end" /\ gserv'.said = "error"
         /\ GServAlone => /\ gserv'.pc = "end" /\ gserv'.said = gserv.said
                          /\ gserv.pc = "verify" /\ (gserv'.deleted <=> gserv.deleted)
         /\ GServUnlink => /\ gserv'.pc = "end" /\ gserv'.said = gserv.said
                           /\ gserv.pc = "unlink" /\ served' \in BOOLEAN
<1>0. gserv \in GservRec /\ served \in BOOLEAN  BY GetTypes
<1>1. CASE GServVerify
  BY <1>0, <1>1 DEF GServVerify, GServAlone, GServUnlink, GservRec
<1>2. CASE GServAlone
  BY <1>0, <1>2 DEF GServVerify, GServAlone, GServUnlink, GservRec
<1>3. CASE GServUnlink
  <2>1. PICK d \in BOOLEAN : /\ served' = (served /\ ~d)
                             /\ gserv' = [gserv EXCEPT !.pc = "end", !.deleted = d]
    BY <1>3 DEF GServUnlink
  <2>2. gserv.pc = "unlink" /\ served' \in BOOLEAN  BY <1>3, <2>1 DEF GServUnlink
  <2> QED BY <1>0, <2>1, <2>2 DEF GServVerify, GServAlone, GservRec
<1> QED BY <1>1, <1>2, <1>3

(* Every step keeps the types.                                             *)
LEMMA GetTypeStep ==
  ASSUME GTypeOK, [GNext]_gvars
  PROVE  GTypeOK'
<1>0. /\ getter \in [GBlocks -> GetterRec] /\ gslot \in [GBlocks -> GSlotRec]
      /\ onDisk \in [GBlocks -> Nat] /\ giver \in [GBlocks -> [GAttempts -> GiverPos]]
      /\ gsslot \in [GBlocks -> GsSlotRec] /\ served \in BOOLEAN
      /\ gpar \in GparRec /\ gserv \in GservRec
      /\ told \in {"none", "success", "error"} /\ gfaults \in Nat
  BY GetTypes
<1>a. ASSUME /\ getter' \in [GBlocks -> GetterRec] /\ gslot' \in [GBlocks -> GSlotRec]
             /\ onDisk' \in [GBlocks -> Nat]
             /\ giver' \in [GBlocks -> [GAttempts -> GiverPos]]
             /\ gsslot' \in [GBlocks -> GsSlotRec] /\ served' \in BOOLEAN
             /\ gpar' \in GparRec /\ gserv' \in GservRec
             /\ told' \in {"none", "success", "error"} /\ gfaults' \in Nat
      PROVE  GTypeOK'
  BY <1>a DEF GTypeOK, GetterRec, GSlotRec, GiverPos, GsSlotRec, GparRec, GservRec
<1> USE <1>0, <1>a DEF gvars, gclient, gserver
<1>1. ASSUME NEW b \in GBlocks, GetInit(b) PROVE GTypeOK'
  BY <1>1, GetInitDoes DEF GetInit, GetterMoves, SlotMoves
<1>2. ASSUME NEW b \in GBlocks, GetConnect(b) PROVE GTypeOK'
  BY <1>2, GetConnectDoes DEF GetConnect, GetterMoves, GiverMoves
<1>3. ASSUME NEW b \in GBlocks, GetHello(b) PROVE GTypeOK'
  BY <1>3, GetterGoes DEF GetHello, GetterMoves
<1>4. ASSUME NEW b \in GBlocks, GetNoServer(b) PROVE GTypeOK'
  BY <1>4, GetterAgain, SlotFinished DEF GetNoServer, GetterMoves, SlotMoves
<1>5. ASSUME NEW b \in GBlocks, GetRead(b) PROVE GTypeOK'
  BY <1>5, GetReadDoes DEF GetRead, GetterMoves, SlotMoves
<1>6. ASSUME NEW b \in GBlocks, GetEnd(b) PROVE GTypeOK'
  BY <1>6, GetEndDoes DEF GetEnd, GetterMoves, SlotMoves
<1>7. ASSUME NEW b \in GBlocks, GetCode(b) PROVE GTypeOK'
  BY <1>7, GetterAgain, GetterGoes DEF GetCode, GetterMoves
<1>8. ASSUME NEW b \in GBlocks, GetWriteFails(b) PROVE GTypeOK'
  <2>1. gfaults' \in Nat  BY <1>8 DEF GetWriteFails
  <2>2. getter' \in [GBlocks -> GetterRec]
    BY <1>8, GetterAgain DEF GetWriteFails, GetterMoves
  <2>3. gslot' \in [GBlocks -> GSlotRec]
    BY <1>8, SlotWritten DEF GetWriteFails, SlotMoves
  <2> QED BY <1>8, <2>1, <2>2, <2>3 DEF GetWriteFails
<1>9. ASSUME NEW b \in GBlocks, GetDrop(b) PROVE GTypeOK'
  <2>1. gfaults' \in Nat  BY <1>9 DEF GetDrop
  <2>2. getter' \in [GBlocks -> GetterRec]  BY <1>9, GetDropDoes DEF GetterMoves
  <2> QED BY <1>9, <2>1, <2>2 DEF GetDrop
<1>10. ASSUME NEW b \in GBlocks, GetKill(b) PROVE GTypeOK'
  <2>1. gfaults' \in Nat  BY <1>10 DEF GetKill
  <2>2. getter' \in [GBlocks -> GetterRec]  BY <1>10, GetterGoes DEF GetKill, GetterMoves
  <2> QED BY <1>10, <2>1, <2>2 DEF GetKill
<1>11. ASSUME NEW b \in GBlocks, NEW t \in GAttempts, GiveOpen(b, t) PROVE GTypeOK'
  BY <1>11, GiveOpenDoes DEF GiveOpen, GiverMoves, CountMoves
<1>12. ASSUME NEW b \in GBlocks, NEW t \in GAttempts, GiveSend(b, t) PROVE GTypeOK'
  BY <1>12, GiveSendDoes DEF GiveSend, GiverMoves, CountMoves
<1>13. ASSUME NEW b \in GBlocks, NEW t \in GAttempts, GiveDie(b, t) PROVE GTypeOK'
  <2>1. "gone" \in GiverPos  BY DEF GiverPos
  <2> QED BY <1>13, <2>1, GiverMoved DEF GiveDie, GiverMoves
<1>14. ASSUME ServedGone PROVE GTypeOK'
  <2>1. gfaults' \in Nat  BY <1>14 DEF ServedGone
  <2>2. served' \in BOOLEAN  BY <1>14 DEF ServedGone
  <2> QED BY <1>14, <2>1, <2>2 DEF ServedGone
<1>15. ASSUME GPollSlot PROVE GTypeOK'
  BY <1>15, GPollSlotDoes DEF GPollSlot
<1>16. ASSUME GPollEnd PROVE GTypeOK'
  BY <1>16, GPollEndDoes DEF GPollEnd
<1>17. ASSUME GReply PROVE GTypeOK'
  <2>1. gpar' \in GparRec /\ told' \in {"none", "success", "error"}
    BY <1>17 DEF GReply, GparRec, GservRec
  <2> QED BY <1>17, <2>1 DEF GReply
<1>18. ASSUME GServSlot PROVE GTypeOK'
  BY <1>18, GServSlotDoes DEF GServSlot
<1>19. ASSUME GServPoll PROVE GTypeOK'
  BY <1>19, GServPollDoes DEF GServPoll
<1>20. ASSUME GServVerify PROVE GTypeOK'
  BY <1>20, GServEnds DEF GServVerify
<1>21. ASSUME GServAlone PROVE GTypeOK'
  BY <1>21, GServEnds DEF GServAlone
<1>22. ASSUME GServUnlink PROVE GTypeOK'
  BY <1>22, GServEnds DEF GServUnlink
<1>23. ASSUME UNCHANGED gvars PROVE GTypeOK'
  BY <1>23
<1> HIDE <1>0, <1>a DEF gclient, gserver
<1> QED BY <1>1, <1>2, <1>3, <1>4, <1>5, <1>6, <1>7, <1>8, <1>9, <1>10, <1>11, <1>12, <1>13,
           <1>14, <1>15, <1>16, <1>17, <1>18, <1>19, <1>20, <1>21, <1>22, <1>23
       DEF GNext, GetterStep, GiverStep, GParentStep, GServStep

LEMMA GFields ==
  ASSUME GTypeOK
  PROVE  /\ \A b \in GBlocks :
              /\ gslot[b].size \in Nat /\ gslot[b].sum \in Nat /\ gslot[b].fin \in BOOLEAN
              /\ getter[b].got \in Nat /\ getter[b].try \in GAttempts
              /\ getter[b].down \in BOOLEAN /\ onDisk[b] \in Nat
              /\ getter[b].pc \in {"init", "connect", "hello", "read", "code", "end", "dead"}
              /\ gsslot[b].sum \in Nat /\ gsslot[b].fin \in BOOLEAN
         /\ gpar.pc \in {"poll", "report", "end"} /\ gpar.k \in 0 .. GN
         /\ gpar.fin \in Nat /\ gpar.size \in Nat /\ gpar.sum \in Nat
         /\ gserv.pc \in {"poll", "verify", "unlink", "end"} /\ gserv.k \in 0 .. GN
         /\ gserv.fin \in Nat /\ gserv.sum \in Nat /\ gserv.deleted \in BOOLEAN
         /\ served \in BOOLEAN /\ gfaults \in Nat
  BY GetTypes DEF GSlotRec, GetterRec, GsSlotRec, GparRec, GservRec

(* What the client's file and the passes of its process over the table     *)
(* guarantee: no total exceeds what the blocks up to there have on disk,   *)
(* and "success" was found with the whole size.                            *)
Delivered ==
    /\ \A b \in GBlocks :
         /\ gslot[b].size <= onDisk[b] /\ getter[b].got <= onDisk[b]
         /\ onDisk[b] <= GLength[b]
    /\ gpar.size <= GOff[gpar.k]
    /\ gpar.size = GOff[gpar.k]
           => \A j \in GBlocks : j < gpar.k => onDisk[j] = GLength[j]
    /\ gpar.pc # "poll" => gpar.k = GN
    /\ gserv.said = "success" => gpar.pc # "poll" /\ gpar.size = GTotal
    /\ gserv.pc \in {"poll", "verify"} => gserv.said = "none"
    /\ gserv.pc = "unlink" \/ gserv.deleted \/ told = "success"
           => gserv.said = "success"


LEMMA PollDelivers ==
  ASSUME GTypeOK, Delivered, GPollSlot
  PROVE  Delivered'
<1> DEFINE b == gpar.k
<1>1. /\ b \in GBlocks /\ gpar'.pc = "poll" /\ gpar.pc = "poll" /\ gpar'.k = b + 1
      /\ gpar'.size = gpar.size + gslot[b].size
  BY GPollSlotDoes
<1>2. UNCHANGED <<gslot, getter, onDisk, gserv, told>>  BY DEF GPollSlot, gclient
<1>3. gserv.said # "success"  BY <1>1 DEF Delivered
<1>4. /\ b \in Nat
      /\ GOff[b + 1] = GOff[b] + GLength[b] /\ GOff[b] \in Nat /\ GLength[b] \in Nat
      /\ gpar.size \in Nat /\ gslot[b].size \in Nat /\ onDisk[b] \in Nat
  BY <1>1, GetNumbers, GFields
<1>5. /\ gpar.size <= GOff[b] /\ gslot[b].size <= onDisk[b] /\ onDisk[b] <= GLength[b]
  BY <1>1 DEF Delivered
<1> HIDE DEF b
<1>6. gslot[b].size <= GLength[b]  BY <1>4, <1>5
<1>7. gpar'.size <= GOff[gpar'.k]  BY <1>1, <1>4, <1>5, <1>6
<1>8. gpar'.size = GOff[gpar'.k] => gpar.size = GOff[b] /\ onDisk[b] = GLength[b]
  BY <1>1, <1>4, <1>5, <1>6
<1>9. \A j \in GBlocks : j < b + 1 => j < b \/ j = b
  <2>1. \A j \in Nat : j < b + 1 => j < b \/ j = b  BY <1>4
  <2> QED BY <2>1, GetNumbers
<1>10. gpar'.size = GOff[gpar'.k]
         => \A j \in GBlocks : j < gpar'.k => onDisk[j] = GLength[j]
  BY <1>1, <1>8, <1>9 DEF Delivered, b
<1> QED BY <1>1, <1>2, <1>3, <1>7, <1>10 DEF Delivered

LEMMA DeliveredStep ==
  ASSUME GTypeOK, GTypeOK', Delivered, [GNext]_gvars
  PROVE  Delivered'
<1>0. getter \in [GBlocks -> GetterRec] /\ gslot \in [GBlocks -> GSlotRec]  BY GetTypes
<1> USE GFields, GetNumbers, Delivered DEF gvars, gclient, gserver, Delivered, GTotal
<1>1. ASSUME NEW b \in GBlocks, GetInit(b) PROVE Delivered'
  <2>1. \A c \in GBlocks : gslot'[c].size <= onDisk[c] /\ getter'[c].got <= onDisk[c]
    BY <1>1, GetInitDoes DEF GetterMoves, SlotMoves
  <2> QED BY <1>1, <2>1 DEF GetInit
<1>2. ASSUME NEW b \in GBlocks, GetConnect(b) PROVE Delivered'
  BY <1>2, GetConnectDoes DEF GetConnect, GetterMoves, GiverMoves
<1>3. ASSUME NEW b \in GBlocks, GetHello(b) PROVE Delivered'
  BY <1>3, <1>0, GetterGoes DEF GetHello, GetterMoves
<1>4. ASSUME NEW b \in GBlocks, GetNoServer(b) PROVE Delivered'
  BY <1>4, <1>0, GetterAgain, SlotFinished DEF GetNoServer, GetterMoves, SlotMoves
<1>5. ASSUME NEW b \in GBlocks, GetRead(b) PROVE Delivered'
  <2> DEFINE n == getter[b].got + 1
  <2>1. n \in Nat /\ n <= GLength[b]  BY <1>5, GetReadDoes
  <2>2. GetterMoves(b, "read", getter[b].try, n, getter[b].down)  BY <1>5, GetReadDoes
  <2>3. \A c \in GBlocks : onDisk'[c] = IF c = b /\ n > onDisk[b] THEN n ELSE onDisk[c]
    BY <1>5, GetReadDoes
  <2>4. gslot' = gslot \/ SlotMoves(b, n, n * GWeight[b], FALSE)  BY <1>5, GetReadDoes
  <2>5. UNCHANGED <<gpar, gserv, told>>  BY <1>5 DEF GetRead
  <2> HIDE DEF n
  <2>6. \A c \in GBlocks : /\ onDisk[c] <= onDisk'[c] /\ onDisk'[c] <= GLength[c]
                            /\ gslot'[c].size <= onDisk'[c]
                            /\ getter'[c].got <= onDisk'[c]
    BY <2>1, <2>2, <2>3, <2>4 DEF GetterMoves, SlotMoves
  <2>7. \A c \in GBlocks : onDisk[c] = GLength[c] => onDisk'[c] = GLength[c]
    BY <2>1, <2>3
  <2> QED BY <2>5, <2>6, <2>7
<1>6. ASSUME NEW b \in GBlocks, GetEnd(b) PROVE Delivered'
  <2>1. \A c \in GBlocks : gslot'[c].size <= onDisk[c] /\ getter'[c].got <= onDisk[c]
    BY <1>6, GetEndDoes DEF GetterMoves, SlotMoves
  <2> QED BY <1>6, <2>1 DEF GetEnd
<1>7. ASSUME NEW b \in GBlocks, GetCode(b) PROVE Delivered'
  BY <1>7, <1>0, GetterAgain, GetterGoes DEF GetCode, GetterMoves
<1>8. ASSUME NEW b \in GBlocks, GetWriteFails(b) PROVE Delivered'
  <2>a. SlotMoves(b, 0, 0, TRUE)  BY <1>8, <1>0, SlotWritten DEF GetWriteFails
  <2>1. \A c \in GBlocks : gslot'[c].size <= onDisk[c]  BY <2>a DEF SlotMoves
  <2>2. \A c \in GBlocks : getter'[c].got <= onDisk[c]
    BY <1>8, <1>0, GetterAgain DEF GetWriteFails, GetterMoves
  <2> QED BY <1>8, <2>1, <2>2 DEF GetWriteFails
<1>9. ASSUME NEW b \in GBlocks, GetDrop(b) PROVE Delivered'
  BY <1>9, GetDropDoes DEF GetDrop, GetterMoves
<1>10. ASSUME NEW b \in GBlocks, GetKill(b) PROVE Delivered'
  BY <1>10, <1>0, GetterGoes DEF GetKill, GetterMoves
<1>11. ASSUME NEW b \in GBlocks, NEW t \in GAttempts, GiveOpen(b, t) PROVE Delivered'
  BY <1>11 DEF GiveOpen
<1>12. ASSUME NEW b \in GBlocks, NEW t \in GAttempts, GiveSend(b, t) PROVE Delivered'
  BY <1>12 DEF GiveSend
<1>13. ASSUME NEW b \in GBlocks, NEW t \in GAttempts, GiveDie(b, t) PROVE Delivered'
  BY <1>13 DEF GiveDie
<1>14. ASSUME ServedGone PROVE Delivered'
  BY <1>14 DEF ServedGone
<1>15. ASSUME GPollSlot PROVE Delivered'
  BY <1>15, PollDelivers
<1>16. ASSUME GPollEnd PROVE Delivered'
  <2>1. UNCHANGED <<gslot, getter, onDisk, gserv>>  BY <1>16 DEF GPollEnd
  <2>2. gpar.pc = "poll" /\ gpar.k = GN  BY <1>16, GPollEndDoes
  <2>3. gserv.said # "success" /\ told # "success" /\ told' # "success"
    BY <1>16, <2>2, GPollEndDoes
  <2>4. \/ gpar'.k = GN /\ gpar'.size = gpar.size
        \/ gpar'.pc = "poll" /\ gpar'.k = 0 /\ gpar'.size = 0
    BY <1>16, <2>2, GPollEndDoes
  <2>5. \A j \in GBlocks : ~(j < 0)  OBVIOUS
  <2> QED BY <2>1, <2>2, <2>3, <2>4, <2>5
<1>17. ASSUME GReply PROVE Delivered'
  <2>1. gpar' = [gpar EXCEPT !.pc = "end"] /\ gpar \in GparRec /\ gpar.pc = "report"
    BY <1>17, GetTypes DEF GReply
  <2>2. gpar'.pc = "end" /\ gpar'.k = gpar.k /\ gpar'.size = gpar.size
    BY <2>1 DEF GparRec
  <2> QED BY <1>17, <2>1, <2>2 DEF GReply
<1>18. ASSUME GServSlot PROVE Delivered'
  BY <1>18, GServSlotDoes DEF GServSlot
<1>19. ASSUME GServPoll PROVE Delivered'
  BY <1>19, GServPollDoes DEF GServPoll
<1>20. ASSUME GServVerify PROVE Delivered'
  <2>1. UNCHANGED <<gslot, getter, onDisk, gpar, told>>  BY <1>20 DEF GServVerify
  <2>2. gpar.pc = "report" /\ (gserv'.deleted <=> gserv.deleted) /\ gserv.pc = "verify"
    BY <1>20, GServEnds
  <2>3. \/ gserv'.said = "success" /\ gpar.size = GTotal
        \/ gserv'.said # "success" /\ gserv'.pc = "end" /\ gserv.said # "success"
    BY <1>20, GServEnds
  <2>4. gserv'.pc \in {"unlink", "end"}  BY <1>20, GServEnds
  <2> QED BY <2>1, <2>2, <2>3, <2>4
<1>21. ASSUME GServAlone PROVE Delivered'
  BY <1>21, GServEnds DEF GServAlone
<1>22. ASSUME GServUnlink PROVE Delivered'
  BY <1>22, GServEnds DEF GServUnlink
<1>23. ASSUME UNCHANGED gvars PROVE Delivered'
  BY <1>23
<1> HIDE DEF gclient, gserver, Delivered, GTotal
<1> QED BY <1>1, <1>2, <1>3, <1>4, <1>5, <1>6, <1>7, <1>8, <1>9, <1>10, <1>11, <1>12, <1>13,
           <1>14, <1>15, <1>16, <1>17, <1>18, <1>19, <1>20, <1>21, <1>22, <1>23
       DEF GNext, GetterStep, GiverStep, GParentStep, GServStep

(* TypeOK and Delivered are inductive.                                     *)
LEMMA GetInvariant == GSpec => [](GTypeOK /\ Delivered)
<1>1. GInit => GTypeOK /\ Delivered
  <2> SUFFICES ASSUME GInit PROVE GTypeOK /\ Delivered  OBVIOUS
  <2>1. GTypeOK
    <3>1. FreshPass("poll") \in GparRec  BY GetNumbers DEF FreshPass, GparRec
    <3>2. gserv \in GservRec  BY GetNumbers DEF GInit, GservRec
    <3> QED BY <3>1, <3>2, GetTypes, GetNumbers
         DEF GInit, GetterRec, GSlotRec, GiverPos, GsSlotRec
  <2>2. Delivered
    BY GetNumbers DEF GInit, Delivered, FreshPass
  <2> QED BY <2>1, <2>2
<1>2. GTypeOK /\ Delivered /\ [GNext]_gvars => (GTypeOK /\ Delivered)'
  BY GetTypeStep, DeliveredStep
<1> QED BY <1>1, <1>2, PTL DEF GSpec

(* Types of the parallel retrieval.                                        *)
THEOREM GetIsTyped == GSpec => []GTypeOK
BY GetInvariant, PTL

(* GetDeletesOnlyDelivered, for any number of blocks, attempts, failures   *)
(* and chunks: the server deletes, and the user is told of success, only   *)
(* when every block lies whole in the client's file.                       *)
THEOREM OnlyDeliveredIsDeleted == GSpec => []GetDeletesOnlyDelivered
<1>1. GTypeOK /\ Delivered => GetDeletesOnlyDelivered
  <2> SUFFICES ASSUME GTypeOK, Delivered, gserv.deleted \/ told = "success"
               PROVE  GWhole
    BY DEF GetDeletesOnlyDelivered
  <2>1. gpar.k = GN /\ gpar.size = GOff[GN]  BY DEF Delivered, GTotal
  <2>2. \A b \in GBlocks : onDisk[b] = GLength[b]
    BY <2>1, GetNumbers DEF Delivered
  <2> QED BY <2>2 DEF GWhole
<1> QED BY GetInvariant, <1>1, PTL
(* The checksum of the first k blocks, for every k.                        *)
IsTotals(f, n) ==
    /\ f \in [0 .. n -> Nat] /\ f[0] = 0
    /\ \A b \in 0 .. n - 1 : f[b + 1] = f[b] + GLength[b] * GWeight[b]

Totals == CHOOSE f : IsTotals(f, GN)

(* A block while nothing fails: one attempt, a server child that ends once *)
(* it has counted everything, a slot that is finished only when whole.     *)
CleanBlock(b) ==
    /\ ~getter[b].down /\ getter[b].pc # "dead" /\ getter[b].try = 1
    /\ \A t \in GAttempts : t # 1 => giver[b][t] = "none"
    /\ giver[b][1] \in {"none", "start", "send", "done"}
    /\ getter[b].pc \in {"init", "connect"} => giver[b][1] = "none"
    /\ gsslot[b].fin => /\ giver[b][1] = "done"
                        /\ gsslot[b].sum = GLength[b] * GWeight[b]
    /\ gslot[b].sum = gslot[b].size * GWeight[b]
    /\ gslot[b].fin => getter[b].pc \in {"code", "end"} /\ gslot[b].size = GLength[b]
    /\ getter[b].pc \in {"connect", "hello"} => getter[b].got = 0
    /\ getter[b].pc \in {"connect", "hello", "read"}
           => (getter[b].got % GReport = 0 => gslot[b].size = getter[b].got)

(* The passes while nothing fails: all slots met finished, or all bytes    *)
(* met, give the file's size and checksum.                                 *)
CleanPasses ==
    /\ gpar.fin <= gpar.k
    /\ gpar.fin = gpar.k => gpar.size = GOff[gpar.k]
    /\ gpar.size = GOff[gpar.k] => gpar.sum = Totals[gpar.k]
    /\ gpar.pc # "poll" => gpar.size = GTotal
    /\ gserv.fin <= gserv.k
    /\ gserv.fin = gserv.k => /\ gserv.sum = Totals[gserv.k]
                              /\ \A j \in GBlocks : j < gserv.k => gsslot[j].fin
    /\ gserv.pc # "poll" => gserv.k = GN /\ gserv.fin = GN
    /\ served \/ gserv.pc = "end"
    /\ gserv.said # "error" /\ told # "error"

Clean == gfaults = 0 => (\A b \in GBlocks : CleanBlock(b)) /\ CleanPasses

LEMMA TotalsSum == IsTotals(Totals, GN)
<1> DEFINE T == {n \in 0 .. GN : \E f : IsTotals(f, n)}
<1>1. 0 \in T
  <2> DEFINE f == [k \in {0} |-> 0]
  <2>1. 0 .. 0 = {0} /\ 0 .. 0 - 1 = {}  OBVIOUS
  <2>2. f \in [{0} -> Nat] /\ f[0] = 0  OBVIOUS
  <2> HIDE DEF f
  <2>3. IsTotals(f, 0)  BY <2>1, <2>2 DEF IsTotals
  <2> QED BY <2>3, GetNumbers
<1>2. \A n \in 0 .. GN - 1 : n \in T => n + 1 \in T
  <2> SUFFICES ASSUME NEW n \in 0 .. GN - 1, n \in T PROVE \E f : IsTotals(f, n + 1)
    BY GetNumbers
  <2>1. PICK f : IsTotals(f, n)  OBVIOUS
  <2> DEFINE s == f[n] + GLength[n] * GWeight[n]
             g == [k \in 0 .. n + 1 |-> IF k = n + 1 THEN s ELSE f[k]]
  <2>2. n \in Nat /\ n \in GBlocks /\ n \in 0 .. n  BY GetNumbers DEF GBlocks
  <2>3. s \in Nat
    <3>1. f[n] \in Nat  BY <2>1, <2>2 DEF IsTotals
    <3>2. GLength[n] * GWeight[n] \in Nat  BY <2>2, GetNumbers, GProduct
    <3> QED BY <3>1, <3>2
  <2> HIDE DEF s
  <2>4. \A k \in 0 .. n + 1 : k = n + 1 \/ k \in 0 .. n  BY <2>2
  <2>5. /\ g \in [0 .. n + 1 -> Nat] /\ g[n + 1] = s
        /\ \A k \in 0 .. n : g[k] = f[k]
    BY <2>1, <2>2, <2>3, <2>4 DEF IsTotals
  <2> HIDE DEF g
  <2>6. \A b \in 0 .. n - 1 : b \in 0 .. n /\ b + 1 \in 0 .. n  BY <2>2
  <2>7. \A b \in 0 .. (n + 1) - 1 : b = n \/ b \in 0 .. n - 1  BY <2>2
  <2>8. 0 \in 0 .. n  BY <2>2
  <2>9. \A b \in 0 .. n - 1 : g[b + 1] = g[b] + GLength[b] * GWeight[b]
    BY <2>1, <2>5, <2>6 DEF IsTotals
  <2>10. g[n + 1] = g[n] + GLength[n] * GWeight[n]  BY <2>2, <2>5 DEF s
  <2>11. g[0] = 0  BY <2>1, <2>5, <2>8 DEF IsTotals
  <2> QED BY <2>5, <2>7, <2>9, <2>10, <2>11 DEF IsTotals
<1>3. GN \in T
  <2> HIDE DEF T
  <2>1. 0 .. GN \subseteq T  BY <1>1, <1>2, GetNumbers, UpTo
  <2> QED BY <2>1, GetNumbers
<1>4. \E f : IsTotals(f, GN)  BY <1>3
<1> QED BY <1>4 DEF Totals

LEMMA TotalsNext ==
    /\ Totals[0] = 0 /\ \A k \in 0 .. GN : Totals[k] \in Nat
    /\ \A b \in GBlocks : Totals[b + 1] = Totals[b] + GLength[b] * GWeight[b]
BY TotalsSum, GetNumbers DEF IsTotals, GBlocks

(* A step outside the passes that finishes slots of the server only.       *)
LEMMA PassesKept ==
  ASSUME CleanPasses, UNCHANGED <<gpar, gserv, served, told>>,
         \A c \in GBlocks : gsslot[c].fin => gsslot'[c].fin
  PROVE  CleanPasses'
BY DEF CleanPasses

LEMMA BlocksKept ==
  ASSUME \A c \in GBlocks : CleanBlock(c), UNCHANGED <<getter, giver, gslot, gsslot>>
  PROVE  \A c \in GBlocks : CleanBlock(c)'
BY DEF CleanBlock

LEMMA PollAddsUp ==
  ASSUME GTypeOK, Delivered, CleanPasses, \A c \in GBlocks : CleanBlock(c), GPollSlot
  PROVE  CleanPasses'
<1> DEFINE b == gpar.k
<1>1. /\ b \in GBlocks /\ gpar'.pc = "poll" /\ gpar.pc = "poll" /\ gpar'.k = b + 1
      /\ gpar'.fin = gpar.fin + IF gslot[b].fin THEN 1 ELSE 0
      /\ gpar'.size = gpar.size + gslot[b].size
      /\ gpar'.sum = gpar.sum + gslot[b].sum
  BY GPollSlotDoes
<1>2. UNCHANGED <<gsslot, served, gserv, told>>  BY DEF GPollSlot, gserver
<1>3. /\ b \in Nat
      /\ GOff[b + 1] = GOff[b] + GLength[b] /\ GOff[b] \in Nat /\ GLength[b] \in Nat
      /\ gpar.size \in Nat /\ gslot[b].size \in Nat /\ onDisk[b] \in Nat
      /\ gpar.fin \in Nat /\ gpar.sum \in Nat /\ gslot[b].sum \in Nat
      /\ gslot[b].fin \in BOOLEAN
  BY <1>1, GetNumbers, GFields
<1>4. Totals[b + 1] = Totals[b] + GLength[b] * GWeight[b]  BY <1>1, TotalsNext
<1>5. /\ gpar.size <= GOff[b] /\ gslot[b].size <= onDisk[b] /\ onDisk[b] <= GLength[b]
  BY <1>1 DEF Delivered
<1>6. /\ gpar.fin <= b /\ (gpar.fin = b => gpar.size = GOff[b])
      /\ (gpar.size = GOff[b] => gpar.sum = Totals[b])
  BY DEF CleanPasses
<1>7. gslot[b].sum = gslot[b].size * GWeight[b] /\ (gslot[b].fin => gslot[b].size = GLength[b])
  BY <1>1 DEF CleanBlock
<1> HIDE DEF b
<1>8. gpar'.fin <= gpar'.k  BY <1>1, <1>3, <1>6
<1>9. gpar'.fin = gpar'.k => gpar'.size = GOff[gpar'.k]
  <2>1. CASE gslot[b].fin
    <3>0. gpar'.fin = gpar.fin + IF gslot[b].fin THEN 1 ELSE 0  BY <1>1
    <3>1. gpar'.fin = gpar.fin + 1 /\ gslot[b].size = GLength[b]
      BY <1>7, <2>1, <3>0 DEF b
    <3>a. gpar'.k = b + 1  BY <1>1
    <3>b. b \in Nat /\ gpar.fin \in Nat  BY <1>3
    <3>c. gpar'.fin = gpar'.k => gpar.fin = b  BY <3>1, <3>a, <3>b
    <3>2. gpar'.fin = gpar'.k => gpar.size = GOff[b]  BY <1>6, <3>c
    <3>3. gpar.size = GOff[b] => gpar'.size = GOff[gpar'.k]  BY <1>1, <1>3, <3>1
    <3> QED BY <3>2, <3>3
  <2>2. CASE ~gslot[b].fin
    <3>1. gpar'.fin = gpar.fin  BY <1>1, <1>3, <2>2
    <3>2. gpar'.fin # gpar'.k  BY <1>1, <1>3, <1>6, <3>1
    <3> QED BY <3>2
  <2> QED BY <2>1, <2>2
<1>10. gpar'.size = GOff[gpar'.k] => gpar'.sum = Totals[gpar'.k]
  <2>1. gpar'.size = GOff[gpar'.k] => gpar.size = GOff[b] /\ gslot[b].size = GLength[b]
    <3>1. gslot[b].size <= GLength[b]  BY <1>3, <1>5
    <3> QED BY <1>1, <1>3, <1>5, <3>1
  <2> QED BY <1>1, <1>4, <1>6, <1>7, <2>1
<1> QED BY <1>1, <1>2, <1>8, <1>9, <1>10 DEF CleanPasses

LEMMA PollEndsWhole ==
  ASSUME GTypeOK, Delivered, CleanPasses, GTotal > 0, GPollEnd
  PROVE  CleanPasses'
<1>1. UNCHANGED <<gsslot, served, gserv>> /\ gpar.pc = "poll" /\ gpar.k = GN
  BY GPollEndDoes DEF GPollEnd, gserver
<1>2. /\ gpar.fin <= GN /\ gpar.fin \in Nat /\ gpar.size \in Nat /\ GOff[GN] \in Nat
      /\ gpar.size <= GOff[GN] /\ (gpar.fin = GN => gpar.size = GOff[GN]) /\ GN \in Nat
  BY <1>1, GFields, GetNumbers DEF CleanPasses, Delivered
<1>3. CASE /\ gpar.fin >= GN \/ gpar.size >= GTotal
           /\ gpar'.pc \in {"end", "report"} /\ gpar'.k = gpar.k
           /\ gpar'.fin = gpar.fin /\ gpar'.size = gpar.size /\ gpar'.sum = gpar.sum
           /\ told' = told \/ (told' = "error" /\ gpar.fin >= GN /\ gpar.size = 0)
  <2>1. gpar.size = GTotal  BY <1>2, <1>3 DEF GTotal
  <2>2. told' = told  BY <1>3, <2>1
  <2> QED BY <1>1, <1>3, <2>1, <2>2 DEF CleanPasses
<1>4. CASE /\ gpar'.pc = "poll" /\ gpar'.k = 0 /\ gpar'.fin = 0
           /\ gpar'.size = 0 /\ gpar'.sum = 0 /\ told' = told
  BY <1>1, <1>4, TotalsNext, GetNumbers DEF CleanPasses
<1> QED BY <1>3, <1>4, GPollEndDoes

LEMMA ServerAddsUp ==
  ASSUME GTypeOK, CleanPasses, \A c \in GBlocks : CleanBlock(c), GServSlot
  PROVE  CleanPasses'
<1> DEFINE b == gserv.k
<1>1. /\ b \in GBlocks /\ gserv'.pc = "poll" /\ gserv.pc = "poll" /\ gserv'.k = b + 1
      /\ gserv'.fin = gserv.fin + IF gsslot[b].fin THEN 1 ELSE 0
      /\ gserv'.sum = gserv.sum + gsslot[b].sum /\ gserv'.said = gserv.said
  BY GServSlotDoes
<1>2. UNCHANGED <<gsslot, served, gpar, told>>  BY DEF GServSlot, gserver
<1>3. /\ b \in Nat /\ gserv.fin \in Nat /\ gserv.sum \in Nat /\ gsslot[b].sum \in Nat
      /\ gsslot[b].fin \in BOOLEAN
  BY <1>1, GetNumbers, GFields
<1>4. Totals[b + 1] = Totals[b] + GLength[b] * GWeight[b]  BY <1>1, TotalsNext
<1>5. /\ gserv.fin <= b
      /\ gserv.fin = b => /\ gserv.sum = Totals[b]
                          /\ \A j \in GBlocks : j < b => gsslot[j].fin
      /\ served
  BY <1>1 DEF CleanPasses
<1>6. gsslot[b].fin => gsslot[b].sum = GLength[b] * GWeight[b]  BY <1>1 DEF CleanBlock
<1> HIDE DEF b
<1>7. \A j \in GBlocks : j < b + 1 => j < b \/ j = b
  <2>1. \A j \in Nat : j < b + 1 => j < b \/ j = b  BY <1>3
  <2> QED BY <2>1, GetNumbers
<1>8. gserv'.fin <= gserv'.k  BY <1>1, <1>3, <1>5
<1>9. gserv'.fin = gserv'.k => gserv.fin = b /\ gsslot[b].fin  BY <1>1, <1>3, <1>5
<1>10. gserv'.fin = gserv'.k => /\ gserv'.sum = Totals[gserv'.k]
                                /\ \A j \in GBlocks : j < gserv'.k => gsslot[j].fin
  BY <1>1, <1>4, <1>5, <1>6, <1>7, <1>9
<1> QED BY <1>1, <1>2, <1>5, <1>8, <1>10 DEF CleanPasses
LEMMA CleanStep ==
  ASSUME GTypeOK, Delivered, GTotal > 0, gfaults = 0, gfaults' = 0,
         \A c \in GBlocks : CleanBlock(c), CleanPasses, [GNext]_gvars
  PROVE  (\A c \in GBlocks : CleanBlock(c)') /\ CleanPasses'
<1>0. getter \in [GBlocks -> GetterRec] /\ gslot \in [GBlocks -> GSlotRec]  BY GetTypes
<1>b. CleanPasses /\ \A c \in GBlocks : CleanBlock(c)  OBVIOUS
<1>c. gfaults = 0 /\ gfaults' = 0  OBVIOUS
<1>1. ASSUME NEW b \in GBlocks, GetInit(b) PROVE (\A c \in GBlocks : CleanBlock(c)') /\ CleanPasses'
  <2>1. GetterMoves(b, "connect", getter[b].try, 0, FALSE) /\ SlotMoves(b, 0, 0, FALSE)
    BY <1>1, GetInitDoes
  <2>2. getter[b].pc = "init" /\ UNCHANGED <<giver, gsslot, served, gpar, gserv, told>>
    BY <1>1 DEF GetInit, gserver
  <2>3. 0 * GWeight[b] = 0  BY GetNumbers
  <2>4. \A c \in GBlocks : CleanBlock(c)'
    BY <1>b, <2>1, <2>2, <2>3 DEF GetterMoves, SlotMoves, CleanBlock
  <2> QED BY <1>b, <2>2, <2>4, PassesKept
<1>2. ASSUME NEW b \in GBlocks, GetConnect(b)
      PROVE (\A c \in GBlocks : CleanBlock(c)') /\ CleanPasses'
  <2>1. GetterMoves(b, "hello", 1, getter[b].got, getter[b].down) /\ GiverMoves(b, 1, "start")
    BY <1>2, <1>b, GetConnectDoes DEF CleanBlock
  <2>2. getter[b].pc = "connect" /\ UNCHANGED <<gslot, gsslot, served, gpar, gserv, told>>
    BY <1>2 DEF GetConnect
  <2>3. /\ \A t \in GAttempts : giver'[b][t] = IF t = 1 THEN "start" ELSE giver[b][t]
        /\ 1 \in GAttempts /\ 1 \in Nat
    BY <2>1, GetNumbers DEF GiverMoves
  <2>4. ~gsslot[b].fin  BY <1>b, <2>2, <2>3 DEF CleanBlock
  <2>5. CleanBlock(b)'
    <3>1. /\ getter'[b].pc = "hello" /\ getter'[b].try = 1 /\ getter'[b].got = getter[b].got
          /\ getter'[b].down <=> getter[b].down
      BY <2>1 DEF GetterMoves
    <3> QED BY <1>b, <2>2, <2>3, <2>4, <3>1 DEF CleanBlock
  <2>6. \A c \in GBlocks : c # b => CleanBlock(c)'
    <3> SUFFICES ASSUME NEW c \in GBlocks, c # b PROVE CleanBlock(c)'  OBVIOUS
    <3>1. /\ getter'[c].pc = getter[c].pc /\ getter'[c].try = getter[c].try
          /\ getter'[c].got = getter[c].got /\ (getter'[c].down <=> getter[c].down)
      BY <2>1 DEF GetterMoves
    <3>2. \A t \in GAttempts : giver'[c][t] = giver[c][t]  BY <2>1 DEF GiverMoves
    <3> QED BY <1>b, <2>2, <2>3, <3>1, <3>2 DEF CleanBlock
  <2> QED BY <1>b, <2>2, <2>5, <2>6, PassesKept
<1>3. ASSUME NEW b \in GBlocks, GetHello(b)
      PROVE (\A c \in GBlocks : CleanBlock(c)') /\ CleanPasses'
  <2>1. GetterMoves(b, "read", getter[b].try, getter[b].got, getter[b].down)
    BY <1>3, <1>0, GetterGoes DEF GetHello
  <2>2. getter[b].pc = "hello" /\ UNCHANGED <<gslot, giver, gsslot, served, gpar, gserv, told>>
    BY <1>3 DEF GetHello, gserver
  <2>3. \A c \in GBlocks : CleanBlock(c)'
    BY <1>b, <2>1, <2>2 DEF GetterMoves, CleanBlock
  <2> QED BY <1>b, <2>2, <2>3, PassesKept
<1>4. ASSUME NEW b \in GBlocks, GetNoServer(b)
      PROVE (\A c \in GBlocks : CleanBlock(c)') /\ CleanPasses'
  BY <1>4, <1>b DEF GetNoServer, CleanBlock
<1>5. ASSUME NEW b \in GBlocks, GetRead(b) PROVE (\A c \in GBlocks : CleanBlock(c)') /\ CleanPasses'
  <2> DEFINE n == getter[b].got + 1
  <2>1. n \in Nat /\ GetterMoves(b, "read", getter[b].try, n, getter[b].down)
    BY <1>5, GetReadDoes
  <2>2. \/ n % GReport = 0 /\ SlotMoves(b, n, n * GWeight[b], FALSE)
        \/ n % GReport # 0 /\ gslot' = gslot
    BY <1>5, GetReadDoes
  <2>3. getter[b].pc = "read" /\ UNCHANGED <<giver, gsslot, served, gpar, gserv, told>>
    BY <1>5 DEF GetRead, gserver
  <2> HIDE DEF n
  <2>4. \A c \in GBlocks : CleanBlock(c)'
    <3>1. CASE n % GReport = 0 /\ SlotMoves(b, n, n * GWeight[b], FALSE)
      BY <1>b, <2>1, <2>3, <3>1 DEF GetterMoves, SlotMoves, CleanBlock
    <3>2. CASE n % GReport # 0 /\ gslot' = gslot
      BY <1>b, <2>1, <2>3, <3>2 DEF GetterMoves, CleanBlock
    <3> QED BY <2>2, <3>1, <3>2
  <2> QED BY <1>b, <2>3, <2>4, PassesKept
<1>6. ASSUME NEW b \in GBlocks, GetEnd(b) PROVE (\A c \in GBlocks : CleanBlock(c)') /\ CleanPasses'
  <2> DEFINE n == getter[b].got
  <2>1. n \in Nat /\ GetterMoves(b, "code", getter[b].try, n, getter[b].down)
    BY <1>6, GetEndDoes
  <2>2. /\ getter[b].pc = "read" /\ UNCHANGED <<giver, gsslot, served, gpar, gserv, told>>
        /\ n = GLength[b]
    BY <1>6, <1>b DEF GetEnd, gserver, CleanBlock
  <2>3. SlotMoves(b, n, n * GWeight[b], TRUE)
    <3>1. CASE n % GReport # 0  BY <1>6, <3>1, GetEndDoes
    <3>2. CASE n % GReport = 0
      <4>1. SlotMoves(b, gslot[b].size, gslot[b].sum, TRUE)  BY <1>6, <3>2, GetEndDoes
      <4>2. gslot[b].size = n /\ gslot[b].sum = n * GWeight[b]
        BY <1>b, <2>2, <3>2 DEF CleanBlock
      <4> QED BY <4>1, <4>2
    <3> QED BY <3>1, <3>2
  <2> HIDE DEF n
  <2>4. \A c \in GBlocks : CleanBlock(c)'
    BY <1>b, <2>1, <2>2, <2>3 DEF GetterMoves, SlotMoves, CleanBlock
  <2> QED BY <1>b, <2>2, <2>4, PassesKept
<1>7. ASSUME NEW b \in GBlocks, GetCode(b) PROVE (\A c \in GBlocks : CleanBlock(c)') /\ CleanPasses'
  <2>1. getter' = [getter EXCEPT ![b].pc = "end"]
    BY <1>7, <1>b DEF GetCode, CleanBlock
  <2>2. GetterMoves(b, "end", getter[b].try, getter[b].got, getter[b].down)
    BY <1>0, <2>1, GetterGoes
  <2>3. getter[b].pc = "code" /\ UNCHANGED <<gslot, giver, gsslot, served, gpar, gserv, told>>
    BY <1>7 DEF GetCode, gserver
  <2>4. \A c \in GBlocks : CleanBlock(c)'
    BY <1>b, <2>2, <2>3 DEF GetterMoves, CleanBlock
  <2> QED BY <1>b, <2>3, <2>4, PassesKept
<1>8. ASSUME NEW b \in GBlocks, GetWriteFails(b)
      PROVE (\A c \in GBlocks : CleanBlock(c)') /\ CleanPasses'
  BY <1>8, <1>c, GFields DEF GetWriteFails
<1>9. ASSUME NEW b \in GBlocks, GetDrop(b) PROVE (\A c \in GBlocks : CleanBlock(c)') /\ CleanPasses'
  BY <1>9, <1>c, GFields DEF GetDrop
<1>10. ASSUME NEW b \in GBlocks, GetKill(b)
       PROVE (\A c \in GBlocks : CleanBlock(c)') /\ CleanPasses'
  BY <1>10, <1>c, GFields DEF GetKill
<1>11. ASSUME NEW b \in GBlocks, NEW t \in GAttempts, GiveOpen(b, t)
       PROVE (\A c \in GBlocks : CleanBlock(c)') /\ CleanPasses'
  <2>1. t = 1 /\ giver[b][1] = "start" /\ ~gsslot[b].fin
    BY <1>11, <1>b DEF GiveOpen, CleanBlock
  <2>2. served
    <3>1. gserv.pc = "poll"
      <4> SUFFICES ASSUME gserv.pc # "poll" PROVE FALSE  OBVIOUS
      <4>1. gserv.k = GN /\ gserv.fin = gserv.k  BY <1>b DEF CleanPasses
      <4>2. b < gserv.k  BY <4>1, GetNumbers
      <4> QED BY <1>b, <2>1, <4>1, <4>2 DEF CleanPasses
    <3> QED BY <1>b, <3>1 DEF CleanPasses
  <2>3. GiverMoves(b, 1, "send") /\ gsslot' = gsslot  BY <1>11, <2>1, <2>2, GiveOpenDoes
  <2>4. UNCHANGED <<getter, gslot, served, gpar, gserv, told>>
    BY <1>11 DEF GiveOpen, gclient
  <2>5. \A c \in GBlocks : CleanBlock(c)'
    BY <1>b, <2>1, <2>3, <2>4, GetNumbers DEF GiverMoves, CleanBlock
  <2> QED BY <1>b, <2>3, <2>4, <2>5, PassesKept
<1>12. ASSUME NEW b \in GBlocks, NEW t \in GAttempts, GiveSend(b, t)
       PROVE (\A c \in GBlocks : CleanBlock(c)') /\ CleanPasses'
  <2>1. t = 1 /\ giver[b][1] = "send"  BY <1>12, <1>b DEF GiveSend, CleanBlock
  <2>2. GiverMoves(b, 1, "done") /\ CountMoves(b, GLength[b] * GWeight[b], TRUE)
    BY <1>12, <2>1, GiveSendDoes
  <2>3. UNCHANGED <<getter, gslot, served, gpar, gserv, told>>
    BY <1>12 DEF GiveSend, gclient
  <2>4. \A c \in GBlocks : CleanBlock(c)'
    BY <1>b, <2>1, <2>2, <2>3, GetNumbers DEF GiverMoves, CountMoves, CleanBlock
  <2>5. \A c \in GBlocks : gsslot[c].fin => gsslot'[c].fin  BY <2>2 DEF CountMoves
  <2> QED BY <1>b, <2>3, <2>4, <2>5, PassesKept
<1>13. ASSUME NEW b \in GBlocks, NEW t \in GAttempts, GiveDie(b, t)
       PROVE (\A c \in GBlocks : CleanBlock(c)') /\ CleanPasses'
  <2>1. t = 1  BY <1>13, <1>b DEF GiveDie, CleanBlock
  <2>2. ~GetBroken(b, 1)  BY <1>b DEF GetBroken, CleanBlock
  <2> QED BY <1>13, <2>1, <2>2 DEF GiveDie
<1>14. ASSUME ServedGone PROVE (\A c \in GBlocks : CleanBlock(c)') /\ CleanPasses'
  BY <1>14, <1>c, GFields DEF ServedGone
<1>15. ASSUME GPollSlot PROVE (\A c \in GBlocks : CleanBlock(c)') /\ CleanPasses'
  <2>1. UNCHANGED <<getter, giver, gslot, gsslot, served, gserv, told>>
    BY <1>15 DEF GPollSlot, gclient, gserver
  <2> QED BY <1>15, <1>b, <2>1, BlocksKept, PollAddsUp
<1>16. ASSUME GPollEnd PROVE (\A c \in GBlocks : CleanBlock(c)') /\ CleanPasses'
  <2>1. UNCHANGED <<getter, giver, gslot, gsslot, served, gserv>>
    BY <1>16 DEF GPollEnd, gclient, gserver
  <2> QED BY <1>16, <1>b, <2>1, BlocksKept, PollEndsWhole
<1>17. ASSUME GReply PROVE (\A c \in GBlocks : CleanBlock(c)') /\ CleanPasses'
  <2>1. gpar \in GparRec /\ gpar.pc = "report" /\ gpar' = [gpar EXCEPT !.pc = "end"]
    BY <1>17, GetTypes DEF GReply
  <2>2. /\ gpar'.pc = "end" /\ gpar'.k = gpar.k /\ gpar'.fin = gpar.fin
        /\ gpar'.size = gpar.size /\ gpar'.sum = gpar.sum
    BY <2>1 DEF GparRec
  <2>3. told' = gserv.said /\ UNCHANGED <<getter, giver, gslot, gsslot, served, gserv>>
    BY <1>17 DEF GReply, gclient, gserver
  <2>4. CleanPasses'  BY <1>b, <2>1, <2>2, <2>3 DEF CleanPasses
  <2> QED BY <1>b, <2>3, <2>4, BlocksKept
<1>18. ASSUME GServSlot PROVE (\A c \in GBlocks : CleanBlock(c)') /\ CleanPasses'
  <2>1. UNCHANGED <<getter, giver, gslot, gsslot, served, gpar, told>>
    BY <1>18 DEF GServSlot, gclient, gserver
  <2> QED BY <1>18, <1>b, <2>1, BlocksKept, ServerAddsUp
<1>19. ASSUME GServPoll PROVE (\A c \in GBlocks : CleanBlock(c)') /\ CleanPasses'
  <2>1. UNCHANGED <<getter, giver, gslot, gsslot, served, gpar, told>>
    BY <1>19 DEF GServPoll, gclient, gserver
  <2>2. \A j \in GBlocks : ~(j < 0)  BY GetNumbers
  <2>3. CleanPasses'
    <3>1. gserv.pc = "poll" /\ gserv.k = GN /\ gserv'.said = gserv.said
      BY <1>19, GServPollDoes
    <3>2. served /\ gserv.fin \in Nat /\ gserv.fin <= GN
      BY <1>b, <3>1, GFields DEF CleanPasses
    <3>3. CASE /\ gserv.fin >= GN /\ gserv'.pc = "verify" /\ gserv'.k = gserv.k
               /\ gserv'.fin = gserv.fin /\ gserv'.sum = gserv.sum
      BY <1>b, <2>1, <3>1, <3>2, <3>3, GetNumbers DEF CleanPasses
    <3>4. CASE gserv'.pc = "poll" /\ gserv'.k = 0 /\ gserv'.fin = 0 /\ gserv'.sum = 0
      BY <1>b, <2>1, <2>2, <3>1, <3>2, <3>4, TotalsNext DEF CleanPasses
    <3> QED BY <1>19, <3>3, <3>4, GServPollDoes
  <2> QED BY <1>b, <2>1, <2>3, BlocksKept
<1>20. ASSUME GServVerify PROVE (\A c \in GBlocks : CleanBlock(c)') /\ CleanPasses'
  <2>1. UNCHANGED <<getter, giver, gslot, gsslot, served, gpar, told>>
    BY <1>20 DEF GServVerify, gclient, gserver
  <2>2. /\ gserv'.k = gserv.k /\ gserv'.fin = gserv.fin /\ gserv'.sum = gserv.sum
        /\ gpar.pc = "report" /\ gserv.pc = "verify"
        /\ IF gpar.size = GTotal /\ gserv.sum = gpar.sum
             THEN gserv'.pc = "unlink" /\ gserv'.said = "success"
             ELSE gserv'.pc = "end" /\ gserv'.said = "error"
    BY <1>20, GServEnds
  <2>3. gpar.size = GTotal /\ gserv.sum = gpar.sum
    <3>1. gpar.k = GN /\ gpar.size = GOff[GN]  BY <2>2, <1>b DEF Delivered, CleanPasses, GTotal
    <3>2. gserv.k = GN /\ gserv.fin = GN  BY <2>2, <1>b DEF CleanPasses
    <3> QED BY <1>b, <3>1, <3>2 DEF CleanPasses, GTotal
  <2>4. served  BY <1>b, <2>2 DEF CleanPasses
  <2>5. CleanPasses'  BY <1>b, <2>1, <2>2, <2>3, <2>4 DEF CleanPasses
  <2> QED BY <1>b, <2>1, <2>5, BlocksKept
<1>21. ASSUME GServAlone PROVE (\A c \in GBlocks : CleanBlock(c)') /\ CleanPasses'
  <2>1. UNCHANGED <<getter, giver, gslot, gsslot, served, gpar, told>>
    BY <1>21 DEF GServAlone, gclient, gserver
  <2>2. CleanPasses'  BY <1>21, <1>b, <2>1, GServEnds DEF CleanPasses
  <2> QED BY <1>b, <2>1, <2>2, BlocksKept
<1>22. ASSUME GServUnlink PROVE (\A c \in GBlocks : CleanBlock(c)') /\ CleanPasses'
  <2>1. UNCHANGED <<getter, giver, gslot, gsslot, gpar, told>>
    BY <1>22 DEF GServUnlink, gclient
  <2>2. CleanPasses'  BY <1>22, <1>b, <2>1, GServEnds DEF CleanPasses
  <2> QED BY <1>b, <2>1, <2>2, BlocksKept
<1>23. ASSUME UNCHANGED gvars PROVE (\A c \in GBlocks : CleanBlock(c)') /\ CleanPasses'
  <2>1. UNCHANGED <<getter, giver, gslot, gsslot, served, gpar, gserv, told>>
    BY <1>23 DEF gvars, gclient, gserver
  <2> QED BY <1>b, <2>1, BlocksKept, PassesKept
<1> QED BY <1>1, <1>2, <1>3, <1>4, <1>5, <1>6, <1>7, <1>8, <1>9, <1>10, <1>11, <1>12, <1>13,
           <1>14, <1>15, <1>16, <1>17, <1>18, <1>19, <1>20, <1>21, <1>22, <1>23
       DEF GNext, GetterStep, GiverStep, GParentStep, GServStep

LEMMA FaultsStay ==
  ASSUME GTypeOK, [GNext]_gvars, gfaults' = 0
  PROVE  gfaults = 0
<1>1. gfaults \in Nat  BY GFields
<1>2. gfaults' = gfaults \/ gfaults' = gfaults + 1
  <2>1. ASSUME NEW b \in GBlocks, GetterStep(b) PROVE gfaults' = gfaults
    BY <2>1 DEF GetterStep, GetInit, GetConnect, GetHello, GetNoServer, GetRead, GetEnd, GetCode
  <2>2. ASSUME NEW b \in GBlocks, GetWriteFails(b) \/ GetDrop(b) \/ GetKill(b)
        PROVE  gfaults' = gfaults + 1
    BY <2>2 DEF GetWriteFails, GetDrop, GetKill
  <2>3. ASSUME NEW b \in GBlocks, NEW t \in GAttempts, GiverStep(b, t)
        PROVE  gfaults' = gfaults
    BY <2>3 DEF GiverStep, GiveOpen, GiveSend, GiveDie
  <2>4. ASSUME GParentStep \/ GServStep PROVE gfaults' = gfaults
    BY <2>4 DEF GParentStep, GServStep, GPollSlot, GPollEnd, GReply, GServSlot, GServPoll,
                GServVerify, GServAlone, GServUnlink
  <2>5. ASSUME ServedGone PROVE gfaults' = gfaults + 1  BY <2>5 DEF ServedGone
  <2> QED BY <2>1, <2>2, <2>3, <2>4, <2>5 DEF GNext, gvars
<1> QED BY <1>1, <1>2

(* GetCleanSucceeds, for a file that is not empty and any number of blocks *)
(* and chunks: without failures neither side meets totals that do not fit. *)
(* (Of an empty file the client's process would find all slots finished    *)
(* with nothing received; only files of a minimal size are sent in blocks.)*)
THEOREM CleanRetrievalSucceeds ==
  ASSUME GTotal > 0
  PROVE  GSpec => []GetCleanSucceeds
<1>1. GInit => Clean
  <2> SUFFICES ASSUME GInit PROVE (\A b \in GBlocks : CleanBlock(b)) /\ CleanPasses
    BY DEF Clean
  <2>1. \A b \in GBlocks : 0 * GWeight[b] = 0  BY GetNumbers
  <2>2. \A b \in GBlocks : CleanBlock(b)
    BY <2>1, GetNumbers DEF GInit, CleanBlock
  <2>3. \A j \in GBlocks : ~(j < 0)  BY GetNumbers
  <2>4. CleanPasses
    BY <2>3, TotalsNext, GetNumbers DEF GInit, CleanPasses, FreshPass
  <2> QED BY <2>2, <2>4
<1>2. GTypeOK /\ Delivered /\ Clean /\ [GNext]_gvars => Clean'
  <2> SUFFICES ASSUME GTypeOK, Delivered, Clean, [GNext]_gvars, gfaults' = 0
               PROVE  (\A c \in GBlocks : CleanBlock(c)') /\ CleanPasses'
    BY DEF Clean
  <2>1. gfaults = 0  BY FaultsStay
  <2> QED BY <2>1, CleanStep DEF Clean
<1>3. Clean => GetCleanSucceeds  BY DEF Clean, CleanPasses, GetCleanSucceeds
<1> QED BY <1>1, <1>2, <1>3, GetInvariant, PTL DEF GSpec
-----------------------------------------------------------------------------
UpdaterPos == {"start", "old", "look", "create", "new", "steal", "pid", "open", "copy",
               "log", "aside", "rename", "clear", "done", "nothing", "refused", "killed"}
Results == {"none", "done", "nothing", "refused", "old", "look", "create", "new",
            "steal", "pid", "open", "copy", "log", "aside", "rename", "clear"}
UpdaterRec == [pc : UpdaterPos, waits : 0 .. Waits, old : Updaters \cup {Nobody},
               lines : SUBSET Updaters, index : BOOLEAN, linked : BOOLEAN,
               result : Results]
TableRec == [there : BOOLEAN, has : SUBSET Updaters]

LEMMA LockTypes ==
    LTypeOK <=>
      /\ updater \in [Updaters -> UpdaterRec]
      /\ lock \in Updaters \cup {Nobody, "empty"} /\ table \in TableRec
      /\ job \in Jobs /\ overlapped \in BOOLEAN /\ lkills \in 0 .. LMaxKills
  BY DEF LTypeOK, UpdaterRec, UpdaterPos, Results, TableRec

LEMMA LockFields ==
  ASSUME LTypeOK
  PROVE  /\ \A p \in Updaters :
              /\ updater[p] \in UpdaterRec /\ updater[p].pc \in UpdaterPos
              /\ updater[p].waits \in 0 .. Waits /\ updater[p].waits \in Nat
              /\ updater[p].lines \in SUBSET Updaters /\ updater[p].result \in Results
         /\ Waits \in Nat /\ 0 < Waits /\ 0 \in 0 .. Waits
         /\ table.there \in BOOLEAN /\ table.has \in SUBSET Updaters
         /\ lkills \in Nat
<1>1. Waits \in Nat /\ 0 < Waits /\ 0 \in 0 .. Waits /\ LMaxKills \in Nat
  BY LockAssumption
<1>2. updater \in [Updaters -> UpdaterRec] /\ table \in TableRec /\ lkills \in 0 .. LMaxKills
  BY LockTypes
<1>3. \A p \in Updaters :
         /\ updater[p] \in UpdaterRec /\ updater[p].pc \in UpdaterPos
         /\ updater[p].waits \in 0 .. Waits
         /\ updater[p].lines \in SUBSET Updaters /\ updater[p].result \in Results
  BY <1>2 DEF UpdaterRec
<1>4. \A n \in 0 .. Waits : n \in Nat  BY <1>1
<1> QED BY <1>1, <1>2, <1>3, <1>4 DEF TableRec

(* Process p comes to position l with the waits, lines and result given;   *)
(* the others keep theirs.                                                 *)
UpdaterMoves(p, l, w, s, r) ==
    /\ updater' \in [Updaters -> UpdaterRec]
    /\ \A q \in Updaters : /\ updater'[q].pc = IF q = p THEN l ELSE updater[q].pc
                           /\ updater'[q].waits = IF q = p THEN w ELSE updater[q].waits
                           /\ updater'[q].lines = IF q = p THEN s ELSE updater[q].lines
                           /\ updater'[q].result = IF q = p THEN r ELSE updater[q].result

LEMMA UpdaterMoved ==
  ASSUME updater \in [Updaters -> UpdaterRec], NEW p \in Updaters, NEW x \in UpdaterRec,
         updater' = [updater EXCEPT ![p] = x]
  PROVE  UpdaterMoves(p, x.pc, x.waits, x.lines, x.result)
<1>1. /\ updater' \in [Updaters -> UpdaterRec]
      /\ \A q \in Updaters : updater'[q] = IF q = p THEN x ELSE updater[q]
  <2> HIDE DEF UpdaterRec
  <2> QED OBVIOUS
<1> QED BY <1>1 DEF UpdaterMoves

LEMMA UpdaterGoes ==
  ASSUME LTypeOK, NEW p \in Updaters, NEW l \in UpdaterPos, Goto(p, l)
  PROVE  UpdaterMoves(p, l, updater[p].waits, updater[p].lines, updater[p].result)
<1> DEFINE g == updater[p]
           x == [g EXCEPT !.pc = l]
<1>0. updater \in [Updaters -> UpdaterRec] /\ g \in UpdaterRec  BY LockTypes
<1>1. updater' = [updater EXCEPT ![p] = x]  BY DEF Goto
<1>2. /\ x \in UpdaterRec /\ x.pc = l /\ x.waits = g.waits
      /\ x.lines = g.lines /\ x.result = g.result
  BY <1>0 DEF UpdaterRec
<1> HIDE DEF x
<1>3. UpdaterMoves(p, x.pc, x.waits, x.lines, x.result)  BY <1>0, <1>1, <1>2, UpdaterMoved
<1> QED BY <1>2, <1>3

LEMMA UpdaterOld ==
  ASSUME LTypeOK, NEW p \in Updaters, NEW l \in UpdaterPos, NEW v \in Updaters \cup {Nobody},
         updater' = [updater EXCEPT ![p].pc = l, ![p].old = v]
  PROVE  UpdaterMoves(p, l, updater[p].waits, updater[p].lines, updater[p].result)
<1> DEFINE g == updater[p]
           x == [[g EXCEPT !.pc = l] EXCEPT !.old = v]
<1>0. updater \in [Updaters -> UpdaterRec] /\ g \in UpdaterRec  BY LockTypes
<1>1. updater' = [updater EXCEPT ![p] = x]  OBVIOUS
<1>2. /\ x \in UpdaterRec /\ x.pc = l /\ x.waits = g.waits
      /\ x.lines = g.lines /\ x.result = g.result
  BY <1>0 DEF UpdaterRec
<1> HIDE DEF x
<1>3. UpdaterMoves(p, x.pc, x.waits, x.lines, x.result)  BY <1>0, <1>1, <1>2, UpdaterMoved
<1> QED BY <1>2, <1>3

LEMMA UpdaterWaits ==
  ASSUME LTypeOK, NEW p \in Updaters, NEW l \in UpdaterPos, NEW v \in 0 .. Waits,
         updater' = [updater EXCEPT ![p].pc = l, ![p].waits = v]
  PROVE  UpdaterMoves(p, l, v, updater[p].lines, updater[p].result)
<1> DEFINE g == updater[p]
           x == [[g EXCEPT !.pc = l] EXCEPT !.waits = v]
<1>0. updater \in [Updaters -> UpdaterRec] /\ g \in UpdaterRec  BY LockTypes
<1>1. updater' = [updater EXCEPT ![p] = x]  OBVIOUS
<1>2. /\ x \in UpdaterRec /\ x.pc = l /\ x.waits = v
      /\ x.lines = g.lines /\ x.result = g.result
  BY <1>0 DEF UpdaterRec
<1> HIDE DEF x
<1>3. UpdaterMoves(p, x.pc, x.waits, x.lines, x.result)  BY <1>0, <1>1, <1>2, UpdaterMoved
<1> QED BY <1>2, <1>3

LEMMA UpdaterLines ==
  ASSUME LTypeOK, NEW p \in Updaters, NEW l \in UpdaterPos, NEW v \in SUBSET Updaters,
         updater' = [updater EXCEPT ![p].pc = l, ![p].lines = v]
  PROVE  UpdaterMoves(p, l, updater[p].waits, v, updater[p].result)
<1> DEFINE g == updater[p]
           x == [[g EXCEPT !.pc = l] EXCEPT !.lines = v]
<1>0. updater \in [Updaters -> UpdaterRec] /\ g \in UpdaterRec  BY LockTypes
<1>1. updater' = [updater EXCEPT ![p] = x]  OBVIOUS
<1>2. /\ x \in UpdaterRec /\ x.pc = l /\ x.waits = g.waits
      /\ x.lines = v /\ x.result = g.result
  BY <1>0 DEF UpdaterRec
<1> HIDE DEF x
<1>3. UpdaterMoves(p, x.pc, x.waits, x.lines, x.result)  BY <1>0, <1>1, <1>2, UpdaterMoved
<1> QED BY <1>2, <1>3

LEMMA UpdaterResult ==
  ASSUME LTypeOK, NEW p \in Updaters, NEW l \in UpdaterPos, NEW v \in Results,
         updater' = [updater EXCEPT ![p].pc = l, ![p].result = v]
  PROVE  UpdaterMoves(p, l, updater[p].waits, updater[p].lines, v)
<1> DEFINE g == updater[p]
           x == [[g EXCEPT !.pc = l] EXCEPT !.result = v]
<1>0. updater \in [Updaters -> UpdaterRec] /\ g \in UpdaterRec  BY LockTypes
<1>1. updater' = [updater EXCEPT ![p] = x]  OBVIOUS
<1>2. /\ x \in UpdaterRec /\ x.pc = l /\ x.waits = g.waits
      /\ x.lines = g.lines /\ x.result = v
  BY <1>0 DEF UpdaterRec
<1> HIDE DEF x
<1>3. UpdaterMoves(p, x.pc, x.waits, x.lines, x.result)  BY <1>0, <1>1, <1>2, UpdaterMoved
<1> QED BY <1>2, <1>3

LEMMA UpdaterLinked ==
  ASSUME LTypeOK, NEW p \in Updaters, NEW l \in UpdaterPos,
         updater' = [updater EXCEPT ![p].pc = l, ![p].linked = TRUE]
  PROVE  UpdaterMoves(p, l, updater[p].waits, updater[p].lines, updater[p].result)
<1> DEFINE g == updater[p]
           x == [[g EXCEPT !.pc = l] EXCEPT !.linked = TRUE]
<1>0. updater \in [Updaters -> UpdaterRec] /\ g \in UpdaterRec  BY LockTypes
<1>1. updater' = [updater EXCEPT ![p] = x]  OBVIOUS
<1>2. /\ x \in UpdaterRec /\ x.pc = l /\ x.waits = g.waits
      /\ x.lines = g.lines /\ x.result = g.result
  <2>1. \A d \in BOOLEAN : LET y == [[g EXCEPT !.pc = l] EXCEPT !.linked = d] IN
          /\ y \in UpdaterRec /\ y.pc = l /\ y.waits = g.waits
          /\ y.lines = g.lines /\ y.result = g.result
    BY <1>0 DEF UpdaterRec
  <2> QED BY <2>1
<1> HIDE DEF x
<1>3. UpdaterMoves(p, x.pc, x.waits, x.lines, x.result)  BY <1>0, <1>1, <1>2, UpdaterMoved
<1> QED BY <1>2, <1>3

LEMMA UpdaterIndex ==
  ASSUME LTypeOK, NEW p \in Updaters, NEW l \in UpdaterPos,
         updater' = [updater EXCEPT ![p].pc = l, ![p].index = TRUE]
  PROVE  UpdaterMoves(p, l, updater[p].waits, updater[p].lines, updater[p].result)
<1> DEFINE g == updater[p]
           x == [[g EXCEPT !.pc = l] EXCEPT !.index = TRUE]
<1>0. updater \in [Updaters -> UpdaterRec] /\ g \in UpdaterRec  BY LockTypes
<1>1. updater' = [updater EXCEPT ![p] = x]  OBVIOUS
<1>2. /\ x \in UpdaterRec /\ x.pc = l /\ x.waits = g.waits
      /\ x.lines = g.lines /\ x.result = g.result
  <2>1. \A d \in BOOLEAN : LET y == [[g EXCEPT !.pc = l] EXCEPT !.index = d] IN
          /\ y \in UpdaterRec /\ y.pc = l /\ y.waits = g.waits
          /\ y.lines = g.lines /\ y.result = g.result
    BY <1>0 DEF UpdaterRec
  <2> QED BY <2>1
<1> HIDE DEF x
<1>3. UpdaterMoves(p, x.pc, x.waits, x.lines, x.result)  BY <1>0, <1>1, <1>2, UpdaterMoved
<1> QED BY <1>2, <1>3

(* The last step of an update, which may free the lock file of others too. *)
LEMMA UpdaterClears ==
  ASSUME LTypeOK, NEW p \in Updaters, ClearLock(p), updater[p].result \in UpdaterPos
  PROVE  UpdaterMoves(p, updater[p].result, updater[p].waits, updater[p].lines,
                      updater[p].result)
<1>0. updater \in [Updaters -> UpdaterRec]  BY LockTypes
<1> DEFINE u == IF updater[p].index THEN Unlocked(updater) ELSE updater
<1>1. /\ u \in [Updaters -> UpdaterRec]
      /\ \A q \in Updaters : /\ u[q].pc = updater[q].pc /\ u[q].waits = updater[q].waits
                             /\ u[q].lines = updater[q].lines
                             /\ u[q].result = updater[q].result
  <2>1. \A q \in Updaters : \A d \in BOOLEAN : LET y == [updater[q] EXCEPT !.linked = d] IN
          /\ y \in UpdaterRec /\ y.pc = updater[q].pc /\ y.waits = updater[q].waits
          /\ y.lines = updater[q].lines /\ y.result = updater[q].result
    BY <1>0 DEF UpdaterRec
  <2> DEFINE v(q) == [updater[q] EXCEPT !.linked = FALSE]
  <2>2. \A q \in Updaters :
          /\ v(q) \in UpdaterRec /\ v(q).pc = updater[q].pc /\ v(q).waits = updater[q].waits
          /\ v(q).lines = updater[q].lines /\ v(q).result = updater[q].result
    BY <2>1
  <2>3. Unlocked(updater) = [q \in Updaters |-> v(q)]  BY DEF Unlocked
  <2> HIDE DEF v
  <2>4. \A q \in Updaters : Unlocked(updater)[q] = v(q)  BY <2>3
  <2>5. Unlocked(updater) \in [Updaters -> UpdaterRec]  BY <2>2, <2>3
  <2> HIDE DEF Unlocked
  <2> QED BY <1>0, <2>2, <2>4, <2>5
<1>2. updater' = [u EXCEPT ![p].pc = u[p].result, ![p].index = FALSE]  BY DEF ClearLock
<1> HIDE DEF u
<1> DEFINE g == u[p]
           r == u[p].result
           x == [[g EXCEPT !.pc = r] EXCEPT !.index = FALSE]
<1>3. updater' = [u EXCEPT ![p] = x]  BY <1>2
<1>4. g \in UpdaterRec /\ r \in UpdaterPos  BY <1>1
<1> HIDE DEF r
<1>5. /\ x \in UpdaterRec /\ x.pc = r /\ x.waits = g.waits
      /\ x.lines = g.lines /\ x.result = g.result
  <2>1. \A d \in BOOLEAN : LET y == [[g EXCEPT !.pc = r] EXCEPT !.index = d] IN
          /\ y \in UpdaterRec /\ y.pc = r /\ y.waits = g.waits
          /\ y.lines = g.lines /\ y.result = g.result
    BY <1>4 DEF UpdaterRec
  <2> QED BY <2>1
<1> HIDE DEF x
<1>6. /\ updater' \in [Updaters -> UpdaterRec]
      /\ \A q \in Updaters : updater'[q] = IF q = p THEN x ELSE u[q]
  <2> HIDE DEF UpdaterRec
  <2> QED BY <1>1, <1>3, <1>5
<1> QED BY <1>1, <1>5, <1>6 DEF UpdaterMoves, r

LEMMA UpdaterKilled ==
  ASSUME LTypeOK, NEW p \in Updaters, KillUpdater(p)
  PROVE  UpdaterMoves(p, "killed", updater[p].waits, updater[p].lines, updater[p].pc)
<1> DEFINE g == updater[p]
           v == updater[p].pc
           x == [[g EXCEPT !.result = v] EXCEPT !.pc = "killed"]
<1>0. updater \in [Updaters -> UpdaterRec] /\ g \in UpdaterRec  BY LockTypes
<1>1. updater' = [updater EXCEPT ![p] = x]  BY DEF KillUpdater
<1>2. v \in Results
  BY <1>0 DEF KillUpdater, UpdaterRec, UpdaterPos, Results
<1> HIDE DEF v
<1>3. /\ x \in UpdaterRec /\ x.pc = "killed" /\ x.waits = g.waits
      /\ x.lines = g.lines /\ x.result = v
  BY <1>0, <1>2 DEF UpdaterRec, UpdaterPos
<1> HIDE DEF x
<1>4. UpdaterMoves(p, x.pc, x.waits, x.lines, x.result)  BY <1>0, <1>1, <1>3, UpdaterMoved
<1> QED BY <1>3, <1>4 DEF v

LEMMA UpdaterCopies ==
  ASSUME LTypeOK, NEW p \in Updaters, NEW l \in UpdaterPos,
         updater' = [updater EXCEPT ![p].lines = @ \cup {p}, ![p].result = "done",
                                    ![p].pc = l]
  PROVE  UpdaterMoves(p, l, updater[p].waits, updater[p].lines \cup {p}, "done")
<1> DEFINE g == updater[p]
           v == updater[p].lines \cup {p}
           x == [[[g EXCEPT !.lines = v] EXCEPT !.result = "done"] EXCEPT !.pc = l]
<1>0. updater \in [Updaters -> UpdaterRec] /\ g \in UpdaterRec  BY LockTypes
<1>1. updater' = [updater EXCEPT ![p] = x]  OBVIOUS
<1>2. v \in SUBSET Updaters  BY LockFields
<1> HIDE DEF v
<1>3. /\ x \in UpdaterRec /\ x.pc = l /\ x.waits = g.waits
      /\ x.lines = v /\ x.result = "done"
  BY <1>0, <1>2 DEF UpdaterRec, Results
<1> HIDE DEF x
<1>4. UpdaterMoves(p, x.pc, x.waits, x.lines, x.result)  BY <1>0, <1>1, <1>3, UpdaterMoved
<1> QED BY <1>3, <1>4 DEF v

LEMMA UpdaterDiscards ==
  ASSUME LTypeOK, NEW p \in Updaters,
         updater' = [updater EXCEPT ![p].result = "nothing", ![p].pc = "clear"]
  PROVE  UpdaterMoves(p, "clear", updater[p].waits, updater[p].lines, "nothing")
<1> DEFINE g == updater[p]
           x == [[g EXCEPT !.result = "nothing"] EXCEPT !.pc = "clear"]
<1>0. updater \in [Updaters -> UpdaterRec] /\ g \in UpdaterRec  BY LockTypes
<1>1. updater' = [updater EXCEPT ![p] = x]  OBVIOUS
<1>3. /\ x \in UpdaterRec /\ x.pc = "clear" /\ x.waits = g.waits
      /\ x.lines = g.lines /\ x.result = "nothing"
  BY <1>0 DEF UpdaterRec, Results, UpdaterPos
<1> HIDE DEF x
<1>4. UpdaterMoves(p, x.pc, x.waits, x.lines, x.result)  BY <1>0, <1>1, <1>3, UpdaterMoved
<1> QED BY <1>3, <1>4
-----------------------------------------------------------------------------
(* A process that still looks at the lock file has looks left, one that    *)
(* ends has its result, and only a request that counts a retrieval moves   *)
(* the file aside.                                                         *)
Looking ==
    \A p \in Updaters :
        /\ updater[p].pc \in {"start", "old", "look"} => updater[p].waits < Waits
        /\ updater[p].pc = "clear" => updater[p].result \in {"done", "nothing", "refused"}
        /\ updater[p].pc \in {"aside", "rename"} => updater[p].result = "done"
        /\ updater[p].pc = "aside" => job[p] = "mod"

(* As long as no two processes were at work at once, there is one at most, *)
(* its copy has every line of the file, and every update that was written  *)
(* is in the file.                                                         *)
AloneKeeps ==
    ~overlapped =>
        /\ \A p, q \in Updaters : Inside(p) /\ Inside(q) => p = q
        /\ \A p \in Updaters :
             /\ updater[p].pc \in {"copy", "aside", "rename"} => table.has \subseteq updater[p].lines
             /\ updater[p].pc \in {"aside", "rename"} => p \in updater[p].lines
             /\ updater[p].pc = "clear" /\ updater[p].result = "done" => p \in table.has
             /\ updater[p].pc = "done" => p \in table.has

LockInv == Looking /\ AloneKeeps /\ FileIsMissedBriefly

LEMMA LockStep ==
  ASSUME LTypeOK, LockInv, [LNext]_lvars
  PROVE  LTypeOK' /\ LockInv'
<1> DEFINE Goal == LTypeOK' /\ LockInv'
<1>a. ASSUME /\ updater' \in [Updaters -> UpdaterRec]
             /\ lock' \in Updaters \cup {Nobody, "empty"} /\ table' \in TableRec
             /\ job' \in Jobs /\ overlapped' \in BOOLEAN /\ lkills' \in 0 .. LMaxKills
      PROVE  LTypeOK'
  BY <1>a DEF LTypeOK, UpdaterRec, UpdaterPos, Results, TableRec
<1>b. /\ updater \in [Updaters -> UpdaterRec]
      /\ lock \in Updaters \cup {Nobody, "empty"} /\ table \in TableRec
      /\ job \in Jobs /\ overlapped \in BOOLEAN /\ lkills \in 0 .. LMaxKills
  BY LockTypes
<1> USE <1>b, LockFields DEF Inside, LockInv, Looking, AloneKeeps, FileIsMissedBriefly
<1>1. ASSUME NEW p \in Updaters, SetLock(p) PROVE Goal
  <2>1. CASE table.there
    <3>1. UpdaterMoves(p, "old", updater[p].waits, updater[p].lines, updater[p].result)
      BY <1>1, <2>1, UpdaterGoes DEF SetLock, UpdaterPos
    <3>2. updater[p].pc = "start" /\ UNCHANGED <<lock, table, job, overlapped, lkills>>
      BY <1>1, <2>1 DEF SetLock
    <3> QED BY <1>a, <3>1, <3>2 DEF UpdaterMoves
  <2>2. CASE ~table.there
    <3>1. UpdaterMoves(p, "open", updater[p].waits, updater[p].lines, updater[p].result)
      BY <1>1, <2>2, UpdaterGoes DEF SetLock, UpdaterPos
    <3>2. updater[p].pc = "start" /\ UNCHANGED <<lock, table, job, lkills>> /\ Enter(p)
      BY <1>1, <2>2 DEF SetLock
    <3>3. overlapped' \in BOOLEAN  BY <3>2 DEF Enter
    <3>4. ~overlapped' => ~overlapped /\ \A q \in Updaters \ {p} : ~Inside(q)
      BY <3>2 DEF Enter
    <3>5. LTypeOK'  BY <1>a, <3>1, <3>2, <3>3 DEF UpdaterMoves
    <3>6. Looking' /\ FileIsMissedBriefly'  BY <3>1, <3>2 DEF UpdaterMoves
    <3>7. AloneKeeps'  BY <3>1, <3>2, <3>4 DEF UpdaterMoves
    <3> QED BY <3>5, <3>6, <3>7 DEF UpdaterMoves
  <2> QED BY <2>1, <2>2 DEF UpdaterMoves
<1>2. ASSUME NEW p \in Updaters, OldPid(p) PROVE Goal
  <2>0. PICK pid \in PidRead : updater' = [updater EXCEPT ![p].pc = "look", ![p].old = pid]
    BY <1>2 DEF OldPid
  <2>1. pid \in Updaters \cup {Nobody}  BY DEF PidRead
  <2>2. UpdaterMoves(p, "look", updater[p].waits, updater[p].lines, updater[p].result)
    BY <2>0, <2>1, UpdaterOld DEF UpdaterPos
  <2>3. updater[p].pc = "old" /\ UNCHANGED <<lock, table, job, overlapped, lkills>>
    BY <1>2 DEF OldPid
  <2> QED BY <1>a, <2>2, <2>3 DEF UpdaterMoves
<1>3. ASSUME NEW p \in Updaters, LookLock(p) PROVE Goal
  <2> DEFINE l == IF lock = Nobody THEN "create"
                  ELSE IF updater[p].waits + 1 < Waits THEN "look" ELSE "new"
             w == IF lock = Nobody THEN updater[p].waits ELSE updater[p].waits + 1
  <2>1. updater' = [updater EXCEPT ![p].pc = l, ![p].waits = w]  BY <1>3 DEF LookLock
  <2>2. l \in UpdaterPos  BY DEF UpdaterPos
  <2>3. updater[p].pc = "look" /\ UNCHANGED <<lock, table, job, overlapped, lkills>>
    BY <1>3 DEF LookLock
  <2>4. w \in 0 .. Waits  BY <2>3
  <2>5. l \in {"look", "create", "new"} /\ (l = "look" => w < Waits)  OBVIOUS
  <2> HIDE DEF l, w
  <2>6. UpdaterMoves(p, l, w, updater[p].lines, updater[p].result)
    BY <2>1, <2>2, <2>4, UpdaterWaits
  <2> QED BY <1>a, <2>3, <2>5, <2>6 DEF UpdaterMoves
<1>4. ASSUME NEW p \in Updaters, CreateLock(p) PROVE Goal
  <2>1. UpdaterMoves(p, "pid", updater[p].waits, updater[p].lines, updater[p].result)
    BY <1>4, UpdaterLinked DEF CreateLock, UpdaterPos
  <2>2. updater[p].pc = "create" /\ UNCHANGED <<table, job, overlapped, lkills>>
    BY <1>4 DEF CreateLock
  <2>3. lock' \in Updaters \cup {Nobody, "empty"}  BY <1>4 DEF CreateLock
  <2> QED BY <1>a, <2>1, <2>2, <2>3 DEF UpdaterMoves
<1>5. ASSUME NEW p \in Updaters, NewPid(p) PROVE Goal
  <2>0. PICK pid \in PidRead : Goto(p, IF pid = updater[p].old THEN "steal" ELSE "refused")
    BY <1>5 DEF NewPid
  <2> DEFINE l == IF pid = updater[p].old THEN "steal" ELSE "refused"
  <2>1. l \in {"steal", "refused"} /\ l \in UpdaterPos  BY DEF UpdaterPos
  <2>2. Goto(p, l)  BY <2>0
  <2> HIDE DEF l
  <2>3. UpdaterMoves(p, l, updater[p].waits, updater[p].lines, updater[p].result)
    BY <2>1, <2>2, UpdaterGoes
  <2>4. updater[p].pc = "new" /\ UNCHANGED <<lock, table, job, overlapped, lkills>>
    BY <1>5 DEF NewPid
  <2> QED BY <1>a, <2>1, <2>3, <2>4 DEF UpdaterMoves
<1>6. ASSUME NEW p \in Updaters, StealLock(p) PROVE Goal
  <2>1. UpdaterMoves(p, "pid", updater[p].waits, updater[p].lines, updater[p].result)
    BY <1>6, UpdaterLinked DEF StealLock, UpdaterPos
  <2>2. /\ updater[p].pc = "steal" /\ UNCHANGED <<table, job, overlapped, lkills>>
        /\ lock' = "empty"
    BY <1>6 DEF StealLock
  <2> QED BY <1>a, <2>1, <2>2 DEF UpdaterMoves
<1>7. ASSUME NEW p \in Updaters, WritePid(p) PROVE Goal
  <2>1. UpdaterMoves(p, "open", updater[p].waits, updater[p].lines, updater[p].result)
    BY <1>7, UpdaterIndex DEF WritePid, UpdaterPos
  <2>2. updater[p].pc = "pid" /\ UNCHANGED <<table, job, lkills>> /\ Enter(p)
    BY <1>7 DEF WritePid
  <2>3. lock' \in Updaters \cup {Nobody, "empty"}  BY <1>7 DEF WritePid
  <2>4. overlapped' \in BOOLEAN  BY <2>2 DEF Enter
  <2>5. ~overlapped' => ~overlapped /\ \A q \in Updaters \ {p} : ~Inside(q)
    BY <2>2 DEF Enter
  <2>6. LTypeOK'  BY <1>a, <2>1, <2>2, <2>3, <2>4 DEF UpdaterMoves
  <2>7. Looking' /\ FileIsMissedBriefly'  BY <2>1, <2>2 DEF UpdaterMoves
  <2>8. AloneKeeps'  BY <2>1, <2>2, <2>5 DEF UpdaterMoves
  <2> QED BY <2>6, <2>7, <2>8 DEF UpdaterMoves
<1>8. ASSUME NEW p \in Updaters, OpenTable(p) PROVE Goal
  <2>1. updater[p].pc = "open" /\ UNCHANGED <<lock, table, job, overlapped, lkills>>
    BY <1>8 DEF OpenTable
  <2>2. CASE table.there
    <3>1. UpdaterMoves(p, "copy", updater[p].waits, table.has, updater[p].result)
      BY <1>8, <2>2, UpdaterLines DEF OpenTable, UpdaterPos
    <3> QED BY <1>a, <2>1, <3>1 DEF UpdaterMoves
  <2>3. CASE ~table.there
    <3> DEFINE l == IF job[p] = "add" THEN "log" ELSE "clear"
    <3>1. updater' = [updater EXCEPT ![p].pc = l, ![p].result = "refused"]
      BY <1>8, <2>3 DEF OpenTable
    <3>2. l \in {"log", "clear"} /\ l \in UpdaterPos /\ "refused" \in Results
      BY DEF UpdaterPos, Results
    <3> HIDE DEF l
    <3>3. UpdaterMoves(p, l, updater[p].waits, updater[p].lines, "refused")
      BY <3>1, <3>2, UpdaterResult
    <3> QED BY <1>a, <2>1, <3>2, <3>3 DEF UpdaterMoves
  <2> QED BY <2>2, <2>3 DEF UpdaterMoves
<1>9. ASSUME NEW p \in Updaters, CopyTable(p) PROVE Goal
  <2>1. updater[p].pc = "copy" /\ UNCHANGED <<lock, table, job, overlapped, lkills>>
    BY <1>9 DEF CopyTable
  <2> DEFINE l == IF job[p] = "mod" THEN "aside" ELSE "rename"
  <2>2. CASE updater' = [updater EXCEPT ![p].lines = @ \cup {p}, ![p].result = "done",
                                        ![p].pc = l]
    <3>1. l \in {"aside", "rename"} /\ (l = "aside" => job[p] = "mod") /\ l \in UpdaterPos
      BY DEF UpdaterPos
    <3> HIDE DEF l
    <3>2. UpdaterMoves(p, l, updater[p].waits, updater[p].lines \cup {p}, "done")
      BY <2>2, <3>1, UpdaterCopies
    <3> QED BY <1>a, <2>1, <3>1, <3>2 DEF UpdaterMoves
  <2>3. CASE updater' = [updater EXCEPT ![p].result = "nothing", ![p].pc = "clear"]
    <3>1. UpdaterMoves(p, "clear", updater[p].waits, updater[p].lines, "nothing")
      BY <2>3, UpdaterDiscards
    <3> QED BY <1>a, <2>1, <3>1 DEF UpdaterMoves
  <2> QED BY <1>9, <2>2, <2>3 DEF CopyTable, UpdaterMoves
<1>10. ASSUME NEW p \in Updaters, LogLine(p) PROVE Goal
  <2>1. UpdaterMoves(p, "clear", updater[p].waits, updater[p].lines, "done")
    BY <1>10, UpdaterResult DEF LogLine, UpdaterPos, Results
  <2>2. updater[p].pc = "log" /\ UNCHANGED <<lock, job, overlapped, lkills>>
    BY <1>10 DEF LogLine
  <2>3. table' = [there |-> TRUE, has |-> table.has \cup {p}]  BY <1>10 DEF LogLine
  <2>4. table' \in TableRec /\ table'.there /\ table'.has = table.has \cup {p}
    BY <2>3 DEF TableRec
  <2>5. LTypeOK'  BY <1>a, <2>1, <2>2, <2>4 DEF UpdaterMoves
  <2> QED BY <2>1, <2>2, <2>4, <2>5 DEF UpdaterMoves
<1>11. ASSUME NEW p \in Updaters, RenameAside(p) PROVE Goal
  <2>1. UpdaterMoves(p, "rename", updater[p].waits, updater[p].lines, updater[p].result)
    BY <1>11, UpdaterGoes DEF RenameAside, UpdaterPos
  <2>2. updater[p].pc = "aside" /\ UNCHANGED <<lock, job, overlapped, lkills>>
    BY <1>11 DEF RenameAside
  <2>3. table' \in TableRec /\ table'.has = table.has
    <3>1. \A d \in BOOLEAN : LET y == [table EXCEPT !.there = d] IN
            y \in TableRec /\ y.has = table.has
      BY DEF TableRec
    <3> QED BY <1>11, <3>1 DEF RenameAside, UpdaterMoves
  <2>4. LTypeOK'  BY <1>a, <2>1, <2>2, <2>3 DEF UpdaterMoves
  <2> QED BY <2>1, <2>2, <2>3, <2>4 DEF UpdaterMoves
<1>12. ASSUME NEW p \in Updaters, RenameCopy(p) PROVE Goal
  <2>1. UpdaterMoves(p, "clear", updater[p].waits, updater[p].lines, updater[p].result)
    BY <1>12, UpdaterGoes DEF RenameCopy, UpdaterPos
  <2>2. updater[p].pc = "rename" /\ UNCHANGED <<lock, job, overlapped, lkills>>
    BY <1>12 DEF RenameCopy
  <2>3. table' = [there |-> TRUE, has |-> updater[p].lines]  BY <1>12 DEF RenameCopy
  <2>4. table' \in TableRec /\ table'.there /\ table'.has = updater[p].lines
    BY <2>3 DEF TableRec
  <2>5. LTypeOK'  BY <1>a, <2>1, <2>2, <2>4 DEF UpdaterMoves
  <2>6. Looking'  BY <2>1, <2>2 DEF UpdaterMoves
  <2>8. FileIsMissedBriefly'  BY <2>4
  <2>7. AloneKeeps'
    <3>1. ~overlapped => /\ table.has \subseteq table'.has /\ p \in table'.has
                         /\ \A q \in Updaters : Inside(q) => q = p
      BY <2>2, <2>4
    <3>2. \A q \in Updaters : Inside(q)' => Inside(q)  BY <2>1, <2>2 DEF UpdaterMoves
    <3>3. \A q \in Updaters : updater'[q].pc \in {"copy", "aside", "rename"} => q # p
      BY <2>1 DEF UpdaterMoves
    <3> QED BY <2>1, <2>2, <3>1, <3>2, <3>3 DEF UpdaterMoves
  <2> QED BY <2>5, <2>6, <2>7, <2>8
<1>13. ASSUME NEW p \in Updaters, ClearLock(p) PROVE Goal
  <2>1. updater[p].pc = "clear" /\ UNCHANGED <<table, job, overlapped, lkills>>
    BY <1>13 DEF ClearLock
  <2>2. updater[p].result \in {"done", "nothing", "refused"}  BY <2>1
  <2>3. UpdaterMoves(p, updater[p].result, updater[p].waits, updater[p].lines, updater[p].result)
    BY <1>13, <2>2, UpdaterClears DEF UpdaterPos
  <2>4. lock' \in Updaters \cup {Nobody, "empty"}  BY <1>13 DEF ClearLock
  <2> QED BY <1>a, <2>1, <2>2, <2>3, <2>4 DEF UpdaterMoves
<1>14. ASSUME NEW p \in Updaters, KillUpdater(p) PROVE Goal
  <2>1. UpdaterMoves(p, "killed", updater[p].waits, updater[p].lines, updater[p].pc)
    BY <1>14, UpdaterKilled
  <2>2. UNCHANGED <<lock, table, job, overlapped>>  BY <1>14 DEF KillUpdater
  <2>3. lkills' \in 0 .. LMaxKills
    BY <1>14, LockAssumption DEF KillUpdater
  <2>4. LTypeOK'  BY <1>a, <2>1, <2>2, <2>3 DEF UpdaterMoves
  <2>5. FileIsMissedBriefly'
    <3>1. ASSUME NEW q \in Updaters, job[q] = "mod",
                 \/ updater[q].pc = "rename"
                 \/ updater[q].pc = "killed" /\ updater[q].result = "rename"
          PROVE  \/ updater'[q].pc = "rename"
                 \/ updater'[q].pc = "killed" /\ updater'[q].result = "rename"
      BY <1>14, <2>1, <3>1 DEF UpdaterMoves, KillUpdater
    <3> QED BY <2>2, <3>1
  <2>6. Looking'  BY <2>1, <2>2 DEF UpdaterMoves
  <2>7. AloneKeeps'  BY <2>1, <2>2 DEF UpdaterMoves
  <2> QED BY <2>4, <2>5, <2>6, <2>7
<1>15. ASSUME UNCHANGED lvars PROVE Goal
  <2>1. UNCHANGED <<updater, lock, table, job, overlapped, lkills>>  BY <1>15 DEF lvars
  <2> QED BY <1>a, <2>1
<1> HIDE <1>b DEF Goal
<1> QED BY <1>1, <1>2, <1>3, <1>4, <1>5, <1>6, <1>7, <1>8, <1>9, <1>10, <1>11, <1>12, <1>13,
           <1>14, <1>15 DEF LNext, UpdaterStep, Goal

LEMMA LockInvariant == LSpec => [](LTypeOK /\ LockInv)
<1>1. LInit => LTypeOK /\ LockInv
  <2> SUFFICES ASSUME LInit PROVE LTypeOK /\ LockInv  OBVIOUS
  <2>1. LTypeOK
    <3>1. 0 \in 0 .. Waits /\ 0 \in 0 .. LMaxKills  BY LockAssumption
    <3>2. table \in TableRec  BY DEF LInit, TableRec
    <3>3. updater \in [Updaters -> UpdaterRec]
      <4>1. \A d \in BOOLEAN :
              [pc |-> "start", waits |-> 0, old |-> Nobody, lines |-> {},
               index |-> d, linked |-> d, result |-> "none"] \in UpdaterRec
        BY <3>1 DEF UpdaterRec, UpdaterPos, Results
      <4> DEFINE x == [pc |-> "start", waits |-> 0, old |-> Nobody, lines |-> {},
                       index |-> FALSE, linked |-> FALSE, result |-> "none"]
      <4>2. x \in UpdaterRec  BY <4>1
      <4>3. updater = [p \in Updaters |-> x]  BY DEF LInit
      <4> HIDE DEF x
      <4> QED BY <4>2, <4>3
    <3> QED BY <3>1, <3>2, <3>3, LockTypes DEF LInit
  <2>2. LockInv
    BY LockAssumption
       DEF LInit, LockInv, Looking, AloneKeeps, FileIsMissedBriefly, Inside
  <2> QED BY <2>1, <2>2
<1>2. LTypeOK /\ LockInv /\ [LNext]_lvars => (LTypeOK /\ LockInv)'
  BY LockStep
<1> QED BY <1>1, <1>2, PTL DEF LSpec

(* Types of the rewriting of a locked file.                                *)
THEOREM LocksAreTyped == LSpec => []LTypeOK
BY LockInvariant, PTL

(* UpdatesAreKept, for any number of processes, waits and kills.           *)
THEOREM UpdatesStay == LSpec => []UpdatesAreKept
<1>1. LockInv => UpdatesAreKept  BY DEF LockInv, AloneKeeps, UpdatesAreKept
<1> QED BY LockInvariant, <1>1, PTL

(* FileIsMissedBriefly, likewise, overlapping processes included.          *)
THEOREM FileComesBack == LSpec => []FileIsMissedBriefly
<1>1. LockInv => FileIsMissedBriefly  BY DEF LockInv
<1> QED BY LockInvariant, <1>1, PTL
-----------------------------------------------------------------------------
VisitPos == {"connect", "handshake", "process", "serve", "listed", "empty", "refused",
             "dropped"}
TableCopy == [at : Never .. LastTick, failed : BOOLEAN]
VisitRec == [pc : VisitPos, asked : 0 .. LastTick, copy : TableCopy]
DaemonRec == [pc : {"accept", "check", "load", "fork", "gone"}, client : 0 .. Connections,
              last : Never .. LastTick]

LEMMA ListenerTypes ==
    NTypeOK <=>
      /\ clock \in 0 .. LastTick /\ database \in BOOLEAN /\ nfaults \in 0 .. NMaxFaults
      /\ daemon \in DaemonRec /\ destinations \in TableCopy
      /\ visit \in [Clients -> VisitRec]
  BY DEF NTypeOK, VisitRec, TableCopy, VisitPos, DaemonRec

LEMMA ListenerNumbers ==
    /\ Connections \in Nat /\ LastTick \in Nat /\ NMaxFaults \in Nat
    /\ Reload \in Nat /\ Reload > 0 /\ Never \in Int /\ Never < 0
    /\ Never \in Never .. LastTick /\ 0 \in 0 .. LastTick
    /\ \A n \in 0 .. LastTick : n \in Never .. LastTick /\ n \in Int
    /\ \A n \in Never .. LastTick : n \in Int /\ (n # Never => 0 <= n)
    /\ \A c \in Clients : c \in Nat /\ 0 < c /\ c <= Connections /\ c \in 0 .. Connections
    /\ \A c \in 0 .. Connections : /\ c \in Nat /\ c <= Connections
                                   /\ 0 < c => c \in Clients
  BY ListenerAssumption DEF Clients, Never

LEMMA ListenerFields ==
  ASSUME NTypeOK
  PROVE  /\ clock \in Int /\ 0 <= clock /\ clock <= LastTick
         /\ daemon.client \in 0 .. Connections /\ daemon.client \in Nat
         /\ daemon.last \in Int /\ (daemon.last # Never => 0 <= daemon.last)
         /\ daemon.last \in Never .. LastTick
         /\ destinations.at \in Int /\ (destinations.at # Never => 0 <= destinations.at)
         /\ destinations.failed \in BOOLEAN
         /\ \A c \in Clients :
              /\ visit[c].pc \in VisitPos /\ visit[c].asked \in 0 .. LastTick
              /\ visit[c].asked \in Int /\ visit[c].copy.at \in Int
              /\ visit[c].copy.failed \in BOOLEAN /\ visit[c].copy \in TableCopy
         /\ nfaults \in Nat
<1>1. /\ clock \in 0 .. LastTick /\ nfaults \in 0 .. NMaxFaults
      /\ daemon \in DaemonRec /\ destinations \in TableCopy
      /\ visit \in [Clients -> VisitRec]
  BY ListenerTypes
<1>2. \A c \in Clients : /\ visit[c].pc \in VisitPos /\ visit[c].asked \in 0 .. LastTick
                         /\ visit[c].copy \in TableCopy
  BY <1>1 DEF VisitRec
<1>3. \A r \in TableCopy : r.at \in Never .. LastTick /\ r.failed \in BOOLEAN
  BY DEF TableCopy
<1>4. /\ daemon.client \in 0 .. Connections /\ daemon.last \in Never .. LastTick
  BY <1>1 DEF DaemonRec
<1>5. clock \in Int /\ 0 <= clock /\ clock <= LastTick /\ nfaults \in Nat
  BY <1>1, ListenerNumbers
<1> QED BY <1>1, <1>2, <1>3, <1>4, <1>5, ListenerNumbers

(* Connection c comes to position l, with the time and the copy given.     *)
VisitMoves(c, l, a, r) ==
    /\ visit' \in [Clients -> VisitRec]
    /\ \A d \in Clients : /\ visit'[d].pc = IF d = c THEN l ELSE visit[d].pc
                          /\ visit'[d].asked = IF d = c THEN a ELSE visit[d].asked
                          /\ visit'[d].copy = IF d = c THEN r ELSE visit[d].copy

LEMMA VisitMoved ==
  ASSUME visit \in [Clients -> VisitRec], NEW c \in Clients, NEW x \in VisitRec,
         visit' = [visit EXCEPT ![c] = x]
  PROVE  VisitMoves(c, x.pc, x.asked, x.copy)
<1>1. /\ visit' \in [Clients -> VisitRec]
      /\ \A d \in Clients : visit'[d] = IF d = c THEN x ELSE visit[d]
  <2> HIDE DEF VisitRec
  <2> QED OBVIOUS
<1> QED BY <1>1 DEF VisitMoves

LEMMA VisitGoes ==
  ASSUME NTypeOK, NEW c \in Clients, NEW l \in VisitPos,
         visit' = [visit EXCEPT ![c].pc = l]
  PROVE  VisitMoves(c, l, visit[c].asked, visit[c].copy)
<1> DEFINE g == visit[c]
           x == [g EXCEPT !.pc = l]
<1>0. visit \in [Clients -> VisitRec] /\ g \in VisitRec  BY ListenerTypes
<1>1. visit' = [visit EXCEPT ![c] = x]  OBVIOUS
<1>2. x \in VisitRec /\ x.pc = l /\ x.asked = g.asked /\ x.copy = g.copy
  BY <1>0 DEF VisitRec
<1> HIDE DEF x
<1>3. VisitMoves(c, x.pc, x.asked, x.copy)  BY <1>0, <1>1, <1>2, VisitMoved
<1> QED BY <1>2, <1>3

LEMMA VisitAsked ==
  ASSUME NTypeOK, NEW c \in Clients, visit' = [visit EXCEPT ![c].asked = clock]
  PROVE  VisitMoves(c, visit[c].pc, clock, visit[c].copy)
<1> DEFINE g == visit[c]
           x == [g EXCEPT !.asked = clock]
<1>0. visit \in [Clients -> VisitRec] /\ g \in VisitRec /\ clock \in 0 .. LastTick
  BY ListenerTypes
<1>1. visit' = [visit EXCEPT ![c] = x]  OBVIOUS
<1>2. x \in VisitRec /\ x.pc = g.pc /\ x.asked = clock /\ x.copy = g.copy
  BY <1>0 DEF VisitRec
<1> HIDE DEF x
<1>3. VisitMoves(c, x.pc, x.asked, x.copy)  BY <1>0, <1>1, <1>2, VisitMoved
<1> QED BY <1>2, <1>3

LEMMA VisitForked ==
  ASSUME NTypeOK, NEW c \in Clients,
         visit' = [visit EXCEPT ![c].pc = "handshake", ![c].copy = destinations]
  PROVE  VisitMoves(c, "handshake", visit[c].asked, destinations)
<1> DEFINE g == visit[c]
           r == destinations
           x == [[g EXCEPT !.pc = "handshake"] EXCEPT !.copy = r]
<1>0. visit \in [Clients -> VisitRec] /\ g \in VisitRec /\ r \in TableCopy
  BY ListenerTypes
<1>1. visit' = [visit EXCEPT ![c] = x]  OBVIOUS
<1> HIDE DEF r
<1>2. x \in VisitRec /\ x.pc = "handshake" /\ x.asked = g.asked /\ x.copy = r
  BY <1>0 DEF VisitRec, VisitPos
<1> HIDE DEF x
<1>3. VisitMoves(c, x.pc, x.asked, x.copy)  BY <1>0, <1>1, <1>2, VisitMoved
<1> QED BY <1>2, <1>3 DEF r

(* The daemon comes to position l with the count and the time given.       *)
DaemonMoves(l, k, t) ==
    daemon' \in DaemonRec /\ daemon'.pc = l /\ daemon'.client = k /\ daemon'.last = t

LEMMA DaemonGoes ==
  ASSUME NTypeOK, NEW l \in {"accept", "check", "load", "fork", "gone"},
         daemon' = [daemon EXCEPT !.pc = l]
  PROVE  DaemonMoves(l, daemon.client, daemon.last)
<1>1. daemon \in DaemonRec  BY ListenerTypes
<1> QED BY <1>1 DEF DaemonMoves, DaemonRec
-----------------------------------------------------------------------------
(* What the daemon knows when it forks: it serves the connections one      *)
(* after the other, and the table it hands on is from the last check or    *)
(* its query failed.                                                       *)
Fresh ==
    /\ \A c \in Clients : c > daemon.client => visit[c].pc = "connect"
    /\ daemon.pc \in {"check", "load", "fork"}
           => 0 < daemon.client /\ visit[daemon.client].pc = "connect"
    /\ daemon.last <= clock
    /\ daemon.pc \in {"accept", "check", "fork"} /\ daemon.last # Never
           => destinations.failed \/ destinations.at >= daemon.last
    /\ daemon.pc \in {"load", "fork"}
           => daemon.last # Never /\ visit[daemon.client].asked < daemon.last + Reload

LEMMA ListenerStep ==
  ASSUME NTypeOK, Fresh, TableIsRecent, [NNext]_nvars
  PROVE  NTypeOK' /\ Fresh' /\ TableIsRecent'
<1> DEFINE Goal == NTypeOK' /\ Fresh' /\ TableIsRecent'
<1>a. ASSUME /\ clock' \in 0 .. LastTick /\ database' \in BOOLEAN
             /\ nfaults' \in 0 .. NMaxFaults
             /\ daemon' \in DaemonRec /\ destinations' \in TableCopy
             /\ visit' \in [Clients -> VisitRec]
      PROVE  NTypeOK'
  BY <1>a DEF NTypeOK, VisitRec, TableCopy, VisitPos, DaemonRec
<1>b. /\ clock \in 0 .. LastTick /\ database \in BOOLEAN /\ nfaults \in 0 .. NMaxFaults
      /\ daemon \in DaemonRec /\ destinations \in TableCopy
      /\ visit \in [Clients -> VisitRec]
  BY ListenerTypes
<1>c. ASSUME Fault PROVE nfaults' \in 0 .. NMaxFaults
  BY <1>b, <1>c, ListenerNumbers DEF Fault
<1>d. daemon.pc \in {"check", "load", "fork"} => daemon.client \in Clients
  BY ListenerFields, ListenerNumbers DEF Fresh
<1> USE <1>b, <1>d, ListenerFields, ListenerNumbers DEF Forked, Fresh, TableIsRecent
<1>v. ASSUME NEW c \in Clients, NEW l \in VisitPos, l # "connect", visit[c].pc # "connect",
             Forked(c), VisitMoves(c, l, visit[c].asked, visit[c].copy),
             UNCHANGED <<clock, daemon, destinations>>
      PROVE  /\ visit' \in [Clients -> VisitRec]
             /\ Fresh' /\ TableIsRecent'
  <2>1. visit' \in [Clients -> VisitRec]  BY <1>v DEF VisitMoves
  <2>2. TableIsRecent'  BY <1>v DEF VisitMoves
  <2>3. Fresh'
    <3>1. \A d \in Clients : visit[d].pc = "connect" => visit'[d].pc = "connect"
      BY <1>v DEF VisitMoves
    <3>2. \A d \in Clients : visit'[d].asked = visit[d].asked  BY <1>v DEF VisitMoves
    <3> QED BY <1>v, <3>1, <3>2
  <2> QED BY <2>1, <2>2, <2>3
<1>1. ASSUME Accept PROVE Goal
  <2> DEFINE k == daemon.client + 1
  <2>1. daemon' = [daemon EXCEPT !.pc = "check", !.client = k]  BY <1>1 DEF Accept
  <2>2. daemon.pc = "accept" /\ UNCHANGED <<clock, database, destinations, visit, nfaults>>
    BY <1>1 DEF Accept
  <2>3. k \in 0 .. Connections /\ k \in Clients /\ k > daemon.client /\ k \in Nat
    BY <1>1 DEF Accept
  <2> HIDE DEF k
  <2>4. DaemonMoves("check", k, daemon.last)  BY <2>1, <2>3 DEF DaemonMoves, DaemonRec
  <2>5. NTypeOK'  BY <1>a, <2>2, <2>4 DEF DaemonMoves
  <2> QED BY <2>2, <2>3, <2>4, <2>5 DEF DaemonMoves
<1>2. ASSUME AcceptFails PROVE Goal
  <2>1. DaemonMoves("gone", daemon.client, daemon.last)  BY <1>2, DaemonGoes DEF AcceptFails
  <2>2. /\ daemon.pc = "accept" /\ UNCHANGED <<clock, database, destinations, visit>>
        /\ nfaults' \in 0 .. NMaxFaults
    BY <1>2, <1>c DEF AcceptFails
  <2>3. NTypeOK'  BY <1>a, <2>1, <2>2 DEF DaemonMoves
  <2> QED BY <2>1, <2>2, <2>3 DEF DaemonMoves
<1>3. ASSUME CheckTime PROVE Goal
  <2> DEFINE l == IF Due THEN "load" ELSE "fork"
             t == IF Due THEN clock ELSE daemon.last
  <2>1. daemon' = [daemon EXCEPT !.pc = l, !.last = t]  BY <1>3 DEF CheckTime
  <2>2. /\ daemon.pc = "check" /\ UNCHANGED <<clock, database, destinations, nfaults>>
        /\ daemon.client \in Clients
    BY <1>3 DEF CheckTime
  <2>3. VisitMoves(daemon.client, visit[daemon.client].pc, clock, visit[daemon.client].copy)
    BY <1>3, <2>2, VisitAsked DEF CheckTime
  <2>4. /\ l \in {"load", "fork"} /\ t \in Never .. LastTick /\ t # Never /\ t <= clock
        /\ clock < t + Reload /\ (l = "fork" => t = daemon.last)
    BY DEF Due
  <2> HIDE DEF l, t
  <2>5. DaemonMoves(l, daemon.client, t)  BY <2>1, <2>4 DEF DaemonMoves, DaemonRec
  <2>6. NTypeOK'  BY <1>a, <2>2, <2>3, <2>5 DEF DaemonMoves, VisitMoves
  <2>7. Fresh'  BY <2>2, <2>3, <2>4, <2>5 DEF DaemonMoves, VisitMoves
  <2>8. TableIsRecent'  BY <2>2, <2>3 DEF VisitMoves
  <2> QED BY <2>6, <2>7, <2>8
<1>4. ASSUME LoadTable PROVE Goal
  <2>1. DaemonMoves("fork", daemon.client, daemon.last)  BY <1>4, DaemonGoes DEF LoadTable
  <2>2. daemon.pc = "load" /\ UNCHANGED <<clock, database, visit, nfaults>>
    BY <1>4 DEF LoadTable
  <2>3. destinations' \in TableCopy /\ destinations'.at = clock
    BY <1>4 DEF LoadTable, TableCopy
  <2>4. NTypeOK'  BY <1>a, <2>1, <2>2, <2>3 DEF DaemonMoves
  <2> QED BY <2>1, <2>2, <2>3, <2>4 DEF DaemonMoves
<1>5. ASSUME QueryFails PROVE Goal
  <2>1. DaemonMoves("fork", daemon.client, daemon.last)  BY <1>5, DaemonGoes DEF QueryFails
  <2>2. /\ daemon.pc = "load" /\ UNCHANGED <<clock, database, visit>>
        /\ nfaults' \in 0 .. NMaxFaults
    BY <1>5, <1>c DEF QueryFails
  <2>3. destinations' \in TableCopy /\ destinations'.failed
    <3>1. \A f \in BOOLEAN : LET r == [destinations EXCEPT !.failed = f] IN
            r \in TableCopy /\ (r.failed <=> f)
      BY DEF TableCopy
    <3> QED BY <1>5, <3>1 DEF QueryFails
  <2>4. NTypeOK'  BY <1>a, <2>1, <2>2, <2>3 DEF DaemonMoves
  <2> QED BY <2>1, <2>2, <2>3, <2>4 DEF DaemonMoves
<1>6. ASSUME LoadExits PROVE Goal
  <2>1. DaemonMoves("gone", daemon.client, daemon.last)  BY <1>6, DaemonGoes DEF LoadExits
  <2>2. /\ daemon.pc = "load" /\ UNCHANGED <<clock, database, destinations, nfaults>>
        /\ daemon.client \in Clients
    BY <1>6 DEF LoadExits
  <2>3. VisitMoves(daemon.client, "dropped", visit[daemon.client].asked,
                   visit[daemon.client].copy)
    BY <1>6, <2>2, VisitGoes DEF LoadExits, VisitPos
  <2>4. NTypeOK'  BY <1>a, <2>1, <2>2, <2>3 DEF DaemonMoves, VisitMoves
  <2> QED BY <2>1, <2>2, <2>3, <2>4 DEF DaemonMoves, VisitMoves
<1>7. ASSUME ForkChild PROVE Goal
  <2>1. DaemonMoves("accept", daemon.client, daemon.last)  BY <1>7, DaemonGoes DEF ForkChild
  <2>2. /\ daemon.pc = "fork" /\ UNCHANGED <<clock, database, destinations, nfaults>>
        /\ daemon.client \in Clients
    BY <1>7 DEF ForkChild
  <2>3. VisitMoves(daemon.client, "handshake", visit[daemon.client].asked, destinations)
    BY <1>7, <2>2, VisitForked DEF ForkChild
  <2>4. NTypeOK'  BY <1>a, <2>1, <2>2, <2>3 DEF DaemonMoves, VisitMoves
  <2>5. Fresh'  BY <2>1, <2>2, <2>3 DEF DaemonMoves, VisitMoves
  <2>6. \/ destinations.failed
        \/ /\ destinations.at # Never
           /\ destinations.at + Reload > visit[daemon.client].asked
    BY <2>2
  <2>7. TableIsRecent'  BY <2>2, <2>3, <2>6 DEF VisitMoves
  <2> QED BY <2>4, <2>5, <2>7
<1>8. ASSUME ForkFails PROVE Goal
  <2>1. DaemonMoves("accept", daemon.client, daemon.last)  BY <1>8, DaemonGoes DEF ForkFails
  <2>2. /\ daemon.pc = "fork" /\ UNCHANGED <<clock, database, destinations>>
        /\ daemon.client \in Clients /\ nfaults' \in 0 .. NMaxFaults
    BY <1>8, <1>c DEF ForkFails
  <2>3. VisitMoves(daemon.client, "dropped", visit[daemon.client].asked,
                   visit[daemon.client].copy)
    BY <1>8, <2>2, VisitGoes DEF ForkFails, VisitPos
  <2>4. NTypeOK'  BY <1>a, <2>1, <2>2, <2>3 DEF DaemonMoves, VisitMoves
  <2> QED BY <2>1, <2>2, <2>3, <2>4 DEF DaemonMoves, VisitMoves
<1>9. ASSUME NEW c \in Clients, Handshake(c) PROVE Goal
  <2>1. /\ visit[c].pc = "handshake"
        /\ UNCHANGED <<clock, database, daemon, destinations, nfaults>>
    BY <1>9 DEF Handshake
  <2>2. VisitMoves(c, "process", visit[c].asked, visit[c].copy)
    BY <1>9, VisitGoes DEF Handshake, VisitPos
  <2>7. "process" \in VisitPos /\ "process" # "connect" /\ Forked(c)
    BY <2>1, <2>2 DEF VisitPos
  <2>8. visit' \in [Clients -> VisitRec] /\ Fresh' /\ TableIsRecent'
    BY <1>v, <2>1, <2>2, <2>7
  <2> QED BY <1>a, <2>1, <2>8
<1>10. ASSUME NEW c \in Clients, HandshakeFails(c) PROVE Goal
  <2>1. /\ visit[c].pc = "handshake" /\ nfaults' \in 0 .. NMaxFaults
        /\ UNCHANGED <<clock, database, daemon, destinations>>
    BY <1>10, <1>c DEF HandshakeFails
  <2>2. VisitMoves(c, "dropped", visit[c].asked, visit[c].copy)
    BY <1>10, VisitGoes DEF HandshakeFails, VisitPos
  <2>7. "dropped" \in VisitPos /\ "dropped" # "connect" /\ Forked(c)
    BY <2>1, <2>2 DEF VisitPos
  <2>8. visit' \in [Clients -> VisitRec] /\ Fresh' /\ TableIsRecent'
    BY <1>v, <2>1, <2>2, <2>7
  <2> QED BY <1>a, <2>1, <2>8
<1>11. ASSUME NEW c \in Clients, ConnectDatabase(c) PROVE Goal
  <2> DEFINE l == IF database THEN "serve" ELSE "dropped"
  <2>1. /\ visit[c].pc = "process" /\ visit' = [visit EXCEPT ![c].pc = l]
        /\ UNCHANGED <<clock, database, daemon, destinations, nfaults>>
    BY <1>11 DEF ConnectDatabase
  <2>2. l \in VisitPos /\ l # "connect"  BY DEF VisitPos
  <2> HIDE DEF l
  <2>3. VisitMoves(c, l, visit[c].asked, visit[c].copy)  BY <2>1, <2>2, VisitGoes
  <2>7. l \in VisitPos /\ l # "connect" /\ Forked(c)
    BY <2>1, <2>2, <2>3 DEF VisitPos
  <2>8. visit' \in [Clients -> VisitRec] /\ Fresh' /\ TableIsRecent'
    BY <1>v, <2>1, <2>2, <2>3, <2>7
  <2> QED BY <1>a, <2>1, <2>8
<1>12. ASSUME NEW c \in Clients, Answer(c) PROVE Goal
  <2>0. PICK kind \in {"list", "company"} :
             visit' = [visit EXCEPT ![c].pc = AnswerFrom(kind, visit[c].copy)]
    BY <1>12 DEF Answer
  <2> DEFINE l == AnswerFrom(kind, visit[c].copy)
  <2>1. /\ visit[c].pc = "serve" /\ visit' = [visit EXCEPT ![c].pc = l]
        /\ UNCHANGED <<clock, database, daemon, destinations, nfaults>>
    BY <1>12, <2>0 DEF Answer
  <2>2. l \in VisitPos /\ l # "connect"  BY DEF VisitPos, AnswerFrom
  <2> HIDE DEF l
  <2>3. VisitMoves(c, l, visit[c].asked, visit[c].copy)  BY <2>1, <2>2, VisitGoes
  <2>7. l \in VisitPos /\ l # "connect" /\ Forked(c)
    BY <2>1, <2>2, <2>3 DEF VisitPos
  <2>8. visit' \in [Clients -> VisitRec] /\ Fresh' /\ TableIsRecent'
    BY <1>v, <2>1, <2>2, <2>3, <2>7
  <2> QED BY <1>a, <2>1, <2>8
<1>13. ASSUME Tick PROVE Goal
  <2>1. clock' = clock + 1 /\ clock' \in 0 .. LastTick
    BY <1>13 DEF Tick
  <2>2. UNCHANGED <<database, daemon, destinations, visit, nfaults>>  BY <1>13 DEF Tick
  <2> QED BY <1>a, <2>1, <2>2
<1>14. ASSUME DatabaseStops PROVE Goal
  <2>1. /\ UNCHANGED <<clock, daemon, destinations, visit>> /\ database' \in BOOLEAN
        /\ nfaults' \in 0 .. NMaxFaults
    BY <1>14, <1>c DEF DatabaseStops
  <2> QED BY <1>a, <2>1
<1>15. ASSUME DatabaseStarts PROVE Goal
  <2>1. /\ UNCHANGED <<clock, daemon, destinations, visit, nfaults>>
        /\ database' \in BOOLEAN
    BY <1>15 DEF DatabaseStarts
  <2> QED BY <1>a, <2>1
<1>16. ASSUME UNCHANGED nvars PROVE Goal
  <2>1. UNCHANGED <<clock, database, daemon, destinations, visit, nfaults>>
    BY <1>16 DEF nvars
  <2> QED BY <1>a, <2>1
<1> HIDE <1>b, <1>d DEF Goal
<1> QED BY <1>1, <1>2, <1>3, <1>4, <1>5, <1>6, <1>7, <1>8, <1>9, <1>10, <1>11, <1>12, <1>13,
           <1>14, <1>15, <1>16
       DEF NNext, DaemonStep, ChildStep, Goal

LEMMA ListenerInvariant == NSpec => [](NTypeOK /\ Fresh /\ TableIsRecent)
<1>1. NInit => NTypeOK /\ Fresh /\ TableIsRecent
  <2> SUFFICES ASSUME NInit PROVE NTypeOK /\ Fresh /\ TableIsRecent  OBVIOUS
  <2>1. 0 \in 0 .. LastTick /\ 0 \in 0 .. NMaxFaults /\ 0 \in 0 .. Connections
    BY ListenerNumbers
  <2>2. destinations \in TableCopy  BY ListenerNumbers DEF NInit, TableCopy
  <2>3. daemon \in DaemonRec  BY <2>1, ListenerNumbers DEF NInit, DaemonRec
  <2>4. visit \in [Clients -> VisitRec]  BY <2>1, <2>2 DEF NInit, VisitRec, VisitPos
  <2>5. NTypeOK  BY <2>1, <2>2, <2>3, <2>4, ListenerTypes DEF NInit
  <2>6. \A c \in Clients : visit[c].pc = "connect"  BY DEF NInit
  <2>7. daemon.pc = "accept" /\ daemon.last = Never /\ clock = 0  BY DEF NInit
  <2> QED BY <2>5, <2>6, <2>7, ListenerNumbers DEF Fresh, TableIsRecent, Forked
<1>2. NTypeOK /\ Fresh /\ TableIsRecent /\ [NNext]_nvars => (NTypeOK /\ Fresh /\ TableIsRecent)'
  BY ListenerStep
<1> QED BY <1>1, <1>2, PTL DEF NSpec

(* Types of the daemon and its children.                                   *)
THEOREM ListenerIsTyped == NSpec => []NTypeOK
BY ListenerInvariant, PTL

(* TableIsRecent, for any number of connections, any period and any number *)
(* of failures: a child never serves with destinations older than a period *)
(* unless the last query for them failed.                                  *)
THEOREM TableStaysRecent == NSpec => []TableIsRecent
BY ListenerInvariant, PTL
-----------------------------------------------------------------------------
(* What the last answer of a search says: a redirection names a server, a  *)
(* final answer ends the search, and only the end of the table ends it     *)
(* without a connection.                                                   *)
Answered ==
    /\ search.ret = "WRONG_SERVER" => home # NoServer
    /\ search.ret \in {"served", "not_found"} => search.ended
    /\ attempted = <<>> <=> search.ret = "none"
    /\ search.ret = "none" => ~search.ended /\ search.cnt = 1
    /\ search.cnt > 0
    /\ search.ended /\ search.ret = "CONNECT_ERR" /\ request # "ping"
       /\ Len(attempted) < MaxAttempted => search.cnt > Len(Repositories)

(* Where the home of the data is up and stays up, a client has reached     *)
(* nobody, or is on its way home.                                          *)
Homeward ==
    ffaults = 0 /\ request = "get" /\ home \in up \cap holders =>
       \/ search.ret = "served"
       \/ /\ search.ret \in {"none", "CONNECT_ERR"} /\ search.first # "WRONG_SERVER"
          /\ ToSet(attempted) \cap up = {}
       \/ search.ret = "WRONG_SERVER" /\ (search.ended => search.cnt > Len(Repositories))
       \/ Len(attempted) = MaxAttempted

(* Two contacts of one server, and the entries of the table before cnt     *)
(* that were not contacted.                                                *)
Repeats == {p \in (DOMAIN attempted) \X (DOMAIN attempted) :
              p[1] < p[2] /\ attempted[p[1]] = attempted[p[2]]}
LeftOut == {i \in DOMAIN Repositories :
              i < search.cnt /\ Repositories[i] \notin ToSet(attempted)}

(* The index has moved on by one entry for every two contacts.             *)
Skips == Cardinality(LeftOut) <= Cardinality(Repeats)

SearchRec == [server : AllServers, cnt : Nat, ret : Answers, first : Answers,
              ended : BOOLEAN]

LEMMA SearchBounds ==
    /\ Repositories \in Seq(AllServers) /\ MaxAttempted \in Nat /\ MaxAttempted > 0
    /\ FMaxFaults \in Nat /\ NoServer \notin AllServers
    /\ Len(Repositories) \in Nat /\ Len(Repositories) > 0
    /\ DOMAIN Repositories = 1 .. Len(Repositories)
    /\ \A i \in 1 .. Len(Repositories) : Repositories[i] \in AllServers
  BY FailoverAssumption

LEMMA SearchTypes ==
    FTypeOK <=> /\ build \in {"TRANSCEND", "INTERCOM"}
                /\ request \in {"get", "put", "ping"}
                /\ up \subseteq AllServers /\ holders \subseteq AllServers
                /\ home \in AllServers \cup {NoServer}
                /\ search \in SearchRec
                /\ attempted \in Seq(AllServers) /\ Len(attempted) <= MaxAttempted
                /\ ffaults \in 0 .. FMaxFaults
  BY DEF FTypeOK, SearchRec

(* The answers a server gives; one that is the home of the data serves it, *)
(* and no other server says that it is nowhere.                            *)
LEMMA Contacts ==
    ASSUME FTypeOK, NEW s \in AllServers
    PROVE  /\ Contact(s) \in {"served", "not_found", "CONNECT_ERR", "WRONG_SERVER"}
           /\ Contact(s) = "CONNECT_ERR" <=> s \notin up
           /\ Contact(s) = "WRONG_SERVER" => home \in AllServers /\ home # NoServer
           /\ request = "get" /\ home \in up \cap holders =>
                Contact(s) # "not_found" /\ Contact(home) = "served"
<1>1. home # NoServer => home \in AllServers  BY DEF FTypeOK
<1>2. home \in holders => home # NoServer  BY SearchBounds DEF FTypeOK
<1> QED BY <1>1, <1>2 DEF Contact, KeywordFind, FTypeOK

LEMMA NextServers ==
    ASSUME FTypeOK, Answered, SearchGoesOn PROVE NextServer \in AllServers
<1>1. search.cnt \in 1 .. Len(Repositories)
  BY SearchTypes, SearchBounds DEF Answered, SearchGoesOn, SearchRec
<1>2. search.ret = "WRONG_SERVER" => home \in AllServers  BY SearchTypes DEF Answered
<1> QED BY <1>1, <1>2, SearchBounds DEF NextServer

(* What a step of the client does to the search, field by field.           *)
SearchIs(s, c, r, f, e) ==
    /\ search' \in SearchRec
    /\ search'.server = s /\ search'.cnt = c /\ search'.ret = r
    /\ search'.first = f /\ search'.ended = e

LEMMA FirstContactDoes ==
    ASSUME FTypeOK, Answered, FirstContact
    PROVE  LET r == Contact(search.server) IN
           SearchIs(search.server, 1, r, r,
             request = "ping" \/ r \notin {"CONNECT_ERR", "WRONG_SERVER"})
<1> DEFINE r == Contact(search.server)
           e == request = "ping" \/ r \notin {"CONNECT_ERR", "WRONG_SERVER"}
<1>1. search.server \in AllServers /\ search \in SearchRec /\ search.cnt = 1
  BY SearchTypes DEF SearchRec, FirstContact, Answered
<1>2. r \in Answers  BY <1>1, Contacts DEF Answers
<1>3. search' = [search EXCEPT !.ret = r, !.first = r, !.ended = e]  BY DEF FirstContact
<1>4. \A d \in BOOLEAN : search' = [search EXCEPT !.ret = r, !.first = r, !.ended = d]
                         => SearchIs(search.server, 1, r, r, d)
  <2> HIDE DEF r
  <2> QED BY <1>1, <1>2 DEF SearchIs, SearchRec
<1>5. e \in BOOLEAN  OBVIOUS
<1> HIDE DEF r, e
<1> QED BY <1>3, <1>4, <1>5 DEF r, e

(* How often server s was contacted.                                       *)
Earlier(s) == {i \in DOMAIN attempted : attempted[i] = s}

LEMMA FiniteContacts ==
    ASSUME FTypeOK, NEW s
    PROVE  IsFiniteSet(Earlier(s)) /\ Cardinality(Earlier(s)) \in Nat
<1>1. IsFiniteSet(DOMAIN attempted)
  BY SearchTypes, FS_Interval
<1> QED BY <1>1, FS_Subset, FS_CardinalityType DEF Earlier

LEMMA RetryDoes ==
    ASSUME FTypeOK, Answered, Retry, Len(attempted) < MaxAttempted
    PROVE  LET s == NextServer
               r == Contact(s)
           IN  \/ /\ search.first = "WRONG_SERVER" /\ r = "WRONG_SERVER"
                  /\ SearchIs(s, search.cnt, "not_found", search.first, TRUE)
               \/ SearchIs(s, search.cnt + (IF search.ret = "WRONG_SERVER" THEN 0 ELSE 1)
                                         + Cardinality(Earlier(s)),
                           r, search.first, r \in {"served", "not_found"})
<1> DEFINE s == NextServer
           r == Contact(s)
           e == r \in {"served", "not_found"}
           c == search.cnt + (IF search.ret = "WRONG_SERVER" THEN 0 ELSE 1)
                           + Cardinality(Earlier(s))
<1>1. s \in AllServers  BY NextServers DEF Retry
<1>2. search \in SearchRec /\ search.cnt \in Nat  BY SearchTypes DEF SearchRec
<1>3. r \in Answers  BY <1>1, Contacts DEF Answers
<1>4. c \in Nat  BY <1>2, FiniteContacts
<1>5. c = NextIndex(s)  BY DEF NextIndex, Earlier
<1>6. e \in BOOLEAN  OBVIOUS
<1>7. CASE search.first = "WRONG_SERVER" /\ r = "WRONG_SERVER"
  <2>1. search' = [search EXCEPT !.server = s, !.ret = "not_found", !.ended = TRUE]
    BY <1>7 DEF Retry, PassWith
  <2> HIDE DEF s, r
  <2>2. SearchIs(s, search.cnt, "not_found", search.first, TRUE)
    BY <1>1, <1>2, <2>1 DEF SearchIs, SearchRec, Answers
  <2> QED BY <1>7, <2>2 DEF s, r
<1>8. CASE ~(search.first = "WRONG_SERVER" /\ r = "WRONG_SERVER")
  <2>1. search' = [search EXCEPT !.server = s, !.cnt = c, !.ret = r, !.ended = e]
    BY <1>5, <1>8 DEF Retry, PassWith
  <2> HIDE DEF s, r, c, e
  <2>2. \A d \in BOOLEAN :
          search' = [search EXCEPT !.server = s, !.cnt = c, !.ret = r, !.ended = d]
          => SearchIs(s, c, r, search.first, d)
    BY <1>1, <1>2, <1>3, <1>4 DEF SearchIs, SearchRec
  <2>3. SearchIs(s, c, r, search.first, e)  BY <1>6, <2>1, <2>2
  <2> QED BY <2>3 DEF s, r, c, e
<1> QED BY <1>7, <1>8

LEMMA RetryFullDoes ==
    ASSUME FTypeOK, Answered, Retry, ~(Len(attempted) < MaxAttempted)
    PROVE  /\ \E r \in Answers : (r = "CONNECT_ERR" \/ r = search.ret)
                /\ SearchIs(NextServer, search.cnt, r, search.first, TRUE)
           /\ UNCHANGED attempted /\ Len(attempted) = MaxAttempted
<1> DEFINE s == NextServer
           r == IF s \in ToSet(attempted) THEN "CONNECT_ERR" ELSE search.ret
<1>1. s \in AllServers  BY NextServers DEF Retry
<1>2. search \in SearchRec  BY SearchTypes
<1>3. r \in Answers /\ (r = "CONNECT_ERR" \/ r = search.ret)
  BY <1>2 DEF Answers, SearchRec
<1>4. search' = [search EXCEPT !.server = s, !.ended = TRUE, !.ret = r]
  <2>1. search.ret = search.ret OBVIOUS
  <2> QED BY <1>2 DEF Retry, SearchRec
<1>5. UNCHANGED attempted /\ Len(attempted) = MaxAttempted
  BY SearchTypes, SearchBounds DEF Retry
<1> HIDE DEF s, r
<1>6. SearchIs(s, search.cnt, r, search.first, TRUE)
  BY <1>1, <1>2, <1>3, <1>4 DEF SearchIs, SearchRec
<1> QED BY <1>3, <1>5, <1>6 DEF s

LEMMA TableEndsDoes ==
    ASSUME FTypeOK, TableEnds
    PROVE  SearchIs(search.server, search.cnt, search.ret, search.first, TRUE)
<1>1. search \in SearchRec  BY SearchTypes
<1>2. search' = [search EXCEPT !.ended = TRUE]  BY DEF TableEnds
<1> QED BY <1>1, <1>2 DEF SearchIs, SearchRec

(* A list of contacts that grows by one.                                   *)
LEMMA OneMore ==
    ASSUME attempted \in Seq(AllServers), NEW s \in AllServers,
           attempted' = Append(attempted, s)
    PROVE  /\ attempted' \in Seq(AllServers) /\ attempted' # <<>>
           /\ Len(attempted') = Len(attempted) + 1
           /\ DOMAIN attempted = 1 .. Len(attempted)
           /\ DOMAIN attempted' = 1 .. Len(attempted) + 1
           /\ \A i \in 1 .. Len(attempted) : attempted'[i] = attempted[i]
           /\ attempted'[Len(attempted) + 1] = s
           /\ ToSet(attempted') = ToSet(attempted) \cup {s}
<1>1. /\ attempted' \in Seq(AllServers) /\ attempted' # <<>>
      /\ Len(attempted') = Len(attempted) + 1
      /\ DOMAIN attempted = 1 .. Len(attempted)
      /\ DOMAIN attempted' = 1 .. Len(attempted) + 1
      /\ \A i \in 1 .. Len(attempted) : attempted'[i] = attempted[i]
      /\ attempted'[Len(attempted) + 1] = s
  OBVIOUS
<1>2. Len(attempted) \in Nat  OBVIOUS
<1>3. ToSet(attempted') = ToSet(attempted) \cup {s}
  <2>1. \A i \in 1 .. Len(attempted) + 1 : i \in 1 .. Len(attempted) \/ i = Len(attempted) + 1
    BY <1>2
  <2>2. \A i \in 1 .. Len(attempted) : i \in 1 .. Len(attempted) + 1  BY <1>2
  <2>3. Len(attempted) + 1 \in 1 .. Len(attempted) + 1  BY <1>2
  <2> QED BY <1>1, <2>1, <2>2, <2>3 DEF ToSet
<1> QED BY <1>1, <1>3
-----------------------------------------------------------------------------
LEMMA SearchStep ==
    ASSUME FTypeOK, Answered, [FNext]_fvars PROVE FTypeOK' /\ Answered'
<1> USE SearchBounds
<1>1. ASSUME FirstContact PROVE FTypeOK' /\ Answered'
  <2> DEFINE r == Contact(search.server)
             e == request = "ping" \/ r \notin {"CONNECT_ERR", "WRONG_SERVER"}
  <2>1. SearchIs(search.server, 1, r, r, e)  BY <1>1, FirstContactDoes
  <2>2. /\ search.server \in AllServers /\ attempted' = <<search.server>>
        /\ UNCHANGED <<build, request, up, holders, home, ffaults>>
    BY <1>1, SearchTypes DEF FirstContact, SearchRec
  <2>3. /\ r \in {"served", "not_found", "CONNECT_ERR", "WRONG_SERVER"}
        /\ r = "WRONG_SERVER" => home # NoServer
    BY <2>2, Contacts
  <2>4. /\ attempted' \in Seq(AllServers) /\ Len(attempted') = 1 /\ attempted' # <<>>
    BY <2>2
  <2>5. FTypeOK'
    BY <2>1, <2>2, <2>4, SearchTypes DEF SearchIs, FTypeOK, SearchRec
  <2>6. Answered'
    <3>1. search'.ret = r /\ search'.cnt = 1 /\ search'.ended = e  BY <2>1 DEF SearchIs
    <3> HIDE DEF r
    <3>2. r \in {"served", "not_found"} => search'.ended
      BY <3>1
    <3>3. request # "ping" /\ r = "CONNECT_ERR" => ~search'.ended
      BY <3>1
    <3> HIDE DEF e
    <3> QED BY <2>2, <2>3, <2>4, <3>1, <3>2, <3>3 DEF Answered
  <2> QED BY <2>5, <2>6
<1>2. ASSUME Retry, Len(attempted) < MaxAttempted PROVE FTypeOK' /\ Answered'
  <2> DEFINE s == NextServer
             r == Contact(s)
  <2>1. s \in AllServers /\ search.cnt \in Nat
    BY <1>2, NextServers, SearchTypes DEF Retry, SearchRec
  <2>2. /\ attempted' = Append(attempted, s)
        /\ UNCHANGED <<build, request, up, holders, home, ffaults>>
    BY <1>2 DEF Retry
  <2>3. /\ attempted' \in Seq(AllServers) /\ Len(attempted') = Len(attempted) + 1
        /\ attempted' # <<>>
    <3> HIDE DEF s
    <3> QED BY <2>1, <2>2, OneMore, SearchTypes
  <2>4. /\ r \in {"served", "not_found", "CONNECT_ERR", "WRONG_SERVER"}
        /\ r = "WRONG_SERVER" => home # NoServer
    BY <2>1, Contacts
  <2>5. Cardinality(Earlier(s)) \in Nat  BY FiniteContacts
  <2>6. \/ SearchIs(s, search.cnt, "not_found", search.first, TRUE)
        \/ SearchIs(s, search.cnt + (IF search.ret = "WRONG_SERVER" THEN 0 ELSE 1)
                                  + Cardinality(Earlier(s)),
                    r, search.first, r \in {"served", "not_found"})
    BY <1>2, RetryDoes
  <2> HIDE DEF s, r
  <2>7. FTypeOK'
    <3>1. Len(attempted) \in Nat /\ Len(attempted') <= MaxAttempted
      BY <1>2, <2>3, SearchTypes
    <3> QED BY <2>2, <2>3, <2>6, <3>1, SearchTypes DEF SearchIs, FTypeOK, SearchRec
  <2>8. Answered'
    <3>1. CASE SearchIs(s, search.cnt, "not_found", search.first, TRUE)
      BY <2>1, <2>2, <2>3, <3>1 DEF SearchIs, Answered
    <3>2. ASSUME NEW c \in Nat, c >= search.cnt,
                 SearchIs(s, c, r, search.first, r \in {"served", "not_found"})
          PROVE  Answered'
      <4>1. search'.ret = r /\ search'.cnt = c
            /\ search'.ended = (r \in {"served", "not_found"})
        BY <3>2 DEF SearchIs
      <4>2. r \in {"served", "not_found"} => search'.ended  BY <4>1
      <4>3. r = "CONNECT_ERR" => ~search'.ended  BY <4>1
      <4>4. search.cnt > 0  BY DEF Answered
      <4>5. search'.ret = r /\ search'.cnt = c /\ c > 0  BY <2>1, <3>2, <4>1, <4>4
      <4> QED BY <2>2, <2>3, <2>4, <4>2, <4>3, <4>5 DEF Answered
    <3> DEFINE c == search.cnt + (IF search.ret = "WRONG_SERVER" THEN 0 ELSE 1)
                               + Cardinality(Earlier(s))
    <3>3. c \in Nat /\ c >= search.cnt  BY <2>1, <2>5
    <3> HIDE DEF c
    <3>4. SearchIs(s, c, r, search.first, r \in {"served", "not_found"}) => Answered'
      BY <3>2, <3>3
    <3> QED BY <2>6, <3>1, <3>4 DEF c
  <2> QED BY <2>7, <2>8
<1>3. ASSUME Retry, ~(Len(attempted) < MaxAttempted) PROVE FTypeOK' /\ Answered'
  <2>1. PICK r \in Answers : /\ r = "CONNECT_ERR" \/ r = search.ret
                            /\ SearchIs(NextServer, search.cnt, r, search.first, TRUE)
    BY <1>3, RetryFullDoes
  <2>2. UNCHANGED attempted /\ Len(attempted) = MaxAttempted  BY <1>3, RetryFullDoes
  <2>3. UNCHANGED <<build, request, up, holders, home, ffaults>>  BY <1>3 DEF Retry
  <2>4. attempted # <<>>  BY <1>3 DEF Retry, SearchGoesOn
  <2>5. FTypeOK'
    BY <2>1, <2>2, <2>3, SearchTypes DEF SearchIs, FTypeOK, SearchRec
  <2>6. Answered'
    BY <2>1, <2>2, <2>3, <2>4 DEF SearchIs, Answered
  <2> QED BY <2>5, <2>6
<1>4. ASSUME TableEnds PROVE FTypeOK' /\ Answered'
  <2>1. SearchIs(search.server, search.cnt, search.ret, search.first, TRUE)
    BY <1>4, TableEndsDoes
  <2>2. /\ UNCHANGED <<build, request, up, holders, home, attempted, ffaults>>
        /\ attempted # <<>> /\ search.cnt > Len(Repositories)
    BY <1>4 DEF TableEnds
  <2>3. FTypeOK'
    BY <2>1, <2>2, SearchTypes DEF SearchIs, FTypeOK, SearchRec
  <2>4. Answered'  BY <2>1, <2>2 DEF SearchIs, Answered
  <2> QED BY <2>3, <2>4
<1>5. ASSUME NEW s \in AllServers, ServerStopsOrStarts(s) PROVE FTypeOK' /\ Answered'
  <2>1. UNCHANGED <<build, request, holders, home, search, attempted>>
    BY <1>5 DEF ServerStopsOrStarts
  <2>2. up' \subseteq AllServers /\ ffaults' \in 0 .. FMaxFaults
    BY <1>5, SearchTypes DEF ServerStopsOrStarts
  <2> QED BY <2>1, <2>2 DEF FTypeOK, Answered
<1>6. ASSUME UNCHANGED fvars PROVE FTypeOK' /\ Answered'
  BY <1>6 DEF fvars, FTypeOK, Answered
<1> QED BY <1>1, <1>2, <1>3, <1>4, <1>5, <1>6 DEF FNext, ClientSearches

LEMMA HomewardStep ==
    ASSUME FTypeOK, Answered, Homeward, [FNext]_fvars PROVE Homeward'
<1>0. CASE \E s \in AllServers : ServerStopsOrStarts(s)
  <2>1. ffaults' # 0  BY <1>0, SearchTypes DEF ServerStopsOrStarts
  <2> QED BY <2>1 DEF Homeward
<1>7. CASE UNCHANGED fvars  BY <1>7 DEF fvars, Homeward
<1> SUFFICES ASSUME ClientSearches, ffaults' = 0, request' = "get", (home \in up \cap holders)'
             PROVE  \/ search'.ret = "served"
                    \/ /\ search'.ret \in {"none", "CONNECT_ERR"}
                       /\ search'.first # "WRONG_SERVER" /\ ToSet(attempted') \cap up' = {}
                    \/ /\ search'.ret = "WRONG_SERVER"
                       /\ search'.ended => search'.cnt > Len(Repositories)
                    \/ Len(attempted') = MaxAttempted
  BY <1>0, <1>7 DEF FNext, Homeward
<1>1. UNCHANGED <<build, request, up, holders, home, ffaults>>
  BY DEF ClientSearches, FirstContact, Retry, TableEnds
<1>2. \/ search.ret = "served"
      \/ /\ search.ret \in {"none", "CONNECT_ERR"} /\ search.first # "WRONG_SERVER"
         /\ ToSet(attempted) \cap up = {}
      \/ search.ret = "WRONG_SERVER" /\ (search.ended => search.cnt > Len(Repositories))
      \/ Len(attempted) = MaxAttempted
  BY <1>1 DEF Homeward
<1>3. search.ret = "served" => search.ended  BY DEF Answered
<1>4. \A s \in AllServers :
        Contact(s) = "served" \/ (Contact(s) = "CONNECT_ERR" /\ s \notin up)
        \/ Contact(s) = "WRONG_SERVER"
  BY <1>1, Contacts
<1>5. Contact(home) = "served"
  <2>1. home \in AllServers  BY <1>1 DEF FTypeOK
  <2> QED BY <1>1, <2>1, Contacts
<1>6. CASE FirstContact
  <2> DEFINE r == Contact(search.server)
             e == request = "ping" \/ r \notin {"CONNECT_ERR", "WRONG_SERVER"}
  <2>1. SearchIs(search.server, 1, r, r, e)  BY <1>6, FirstContactDoes
  <2>2. search.server \in AllServers /\ attempted' = <<search.server>>
    BY <1>6, SearchTypes DEF FirstContact, SearchRec
  <2>3. ToSet(attempted') = {search.server}  BY <2>2 DEF ToSet
  <2>4. r = "WRONG_SERVER" => ~e  BY <1>1
  <2>5. search'.ret = r /\ search'.first = r /\ search'.ended = e  BY <2>1 DEF SearchIs
  <2> HIDE DEF r, e
  <2> QED BY <1>1, <1>4, <2>2, <2>3, <2>4, <2>5 DEF r
<1>8. CASE Retry /\ Len(attempted) < MaxAttempted
  <2> DEFINE s == NextServer
             r == Contact(s)
  <2>1. s \in AllServers  BY <1>8, NextServers DEF Retry
  <2>2. attempted' = Append(attempted, s) /\ ~search.ended /\ attempted # <<>>
    BY <1>8 DEF Retry, SearchGoesOn
  <2>3. ToSet(attempted') = ToSet(attempted) \cup {s}
    <3> HIDE DEF s
    <3> QED BY <2>1, <2>2, OneMore, SearchTypes
  <2>4. \/ r = "WRONG_SERVER" /\ search.first = "WRONG_SERVER" /\ search'.ret = "not_found"
        \/ search'.ret = r /\ search'.ended = (r \in {"served", "not_found"})
    BY <1>8, RetryDoes DEF SearchIs
  <2>5. CASE search.ret = "WRONG_SERVER"
    <3>1. s = home  BY <2>5 DEF NextServer
    <3>2. r = "served"  BY <1>5, <3>1
    <3> QED BY <2>4, <3>2
  <2>6. CASE search.ret # "WRONG_SERVER"
    <3>1. /\ search.ret = "CONNECT_ERR" /\ search.first # "WRONG_SERVER"
          /\ ToSet(attempted) \cap up = {}
      BY <1>2, <1>3, <1>8, <2>2, <2>6, SearchTypes, SearchBounds DEF Answered
    <3>2. search'.first = search.first  BY <1>8, RetryDoes DEF SearchIs
    <3> QED BY <1>1, <1>4, <2>1, <2>3, <2>4, <3>1, <3>2
  <2> QED BY <2>5, <2>6
<1>9. CASE Retry /\ ~(Len(attempted) < MaxAttempted)
  BY <1>9, RetryFullDoes
<1>10. CASE TableEnds
  BY <1>1, <1>2, <1>10, TableEndsDoes DEF TableEnds, SearchIs
<1> QED BY <1>6, <1>8, <1>9, <1>10 DEF ClientSearches
-----------------------------------------------------------------------------
LEMMA FiniteSearch ==
    ASSUME FTypeOK
    PROVE  /\ IsFiniteSet(Repeats) /\ Cardinality(Repeats) \in Nat
           /\ IsFiniteSet(LeftOut) /\ Cardinality(LeftOut) \in Nat
<1>1. IsFiniteSet(DOMAIN attempted)  BY SearchTypes, FS_Interval
<1>2. IsFiniteSet((DOMAIN attempted) \X (DOMAIN attempted))  BY <1>1, FS_Product
<1>3. IsFiniteSet(Repeats)  BY <1>2, FS_Subset DEF Repeats
<1>4. IsFiniteSet(DOMAIN Repositories)  BY SearchBounds, FS_Interval
<1>5. IsFiniteSet(LeftOut)  BY <1>4, FS_Subset DEF LeftOut
<1> QED BY <1>3, <1>5, FS_CardinalityType

LEMMA FiniteSearchNext ==
    ASSUME FTypeOK'
    PROVE  /\ IsFiniteSet(Repeats') /\ Cardinality(Repeats') \in Nat
           /\ IsFiniteSet(LeftOut') /\ Cardinality(LeftOut') \in Nat
<1>0. attempted' \in Seq(AllServers)  BY DEF FTypeOK
<1>1. IsFiniteSet(DOMAIN attempted')  BY <1>0, FS_Interval
<1>2. IsFiniteSet((DOMAIN attempted') \X (DOMAIN attempted'))  BY <1>1, FS_Product
<1>3. IsFiniteSet(Repeats')  BY <1>2, FS_Subset DEF Repeats
<1>4. IsFiniteSet(DOMAIN Repositories)  BY SearchBounds, FS_Interval
<1>5. IsFiniteSet(LeftOut')  BY <1>4, FS_Subset DEF LeftOut
<1> QED BY <1>3, <1>5, FS_CardinalityType

(* A contact makes one repetition with every earlier one of its server.    *)
LEMMA ContactRepeats ==
    ASSUME FTypeOK, FTypeOK', NEW s \in AllServers, attempted' = Append(attempted, s)
    PROVE  Cardinality(Repeats) + Cardinality(Earlier(s)) <= Cardinality(Repeats')
<1> DEFINE n == Len(attempted) + 1
           New == {p \in (DOMAIN attempted') \X (DOMAIN attempted') :
                     p[2] = n /\ p[1] \in Earlier(s)}
           f == [i \in Earlier(s) |-> <<i, n>>]
<1>0. /\ DOMAIN attempted = 1 .. Len(attempted) /\ Len(attempted) \in Nat
      /\ DOMAIN attempted' = 1 .. n
      /\ \A i \in 1 .. Len(attempted) : attempted'[i] = attempted[i]
      /\ attempted'[n] = s
  BY OneMore, SearchTypes
<1>1. /\ IsFiniteSet(Repeats) /\ IsFiniteSet(Repeats') /\ Cardinality(Repeats) \in Nat
      /\ Cardinality(Repeats') \in Nat /\ IsFiniteSet(Earlier(s))
      /\ Cardinality(Earlier(s)) \in Nat
  <2>1. IsFiniteSet(Repeats) /\ Cardinality(Repeats) \in Nat  BY FiniteSearch
  <2>2. IsFiniteSet(Repeats') /\ Cardinality(Repeats') \in Nat  BY FiniteSearchNext
  <2> QED BY <2>1, <2>2, FiniteContacts
<1>2. Earlier(s) \subseteq 1 .. Len(attempted)  BY <1>0 DEF Earlier
<1>3. New \subseteq Repeats'
  <2>1. \A i \in Earlier(s) : i < n /\ attempted'[i] = s
    BY <1>0, <1>2 DEF Earlier
  <2> QED BY <1>0, <2>1 DEF Repeats
<1>4. Repeats \subseteq Repeats'
  <2>1. 1 .. Len(attempted) \subseteq 1 .. n  BY <1>0
  <2> QED BY <1>0, <2>1 DEF Repeats
<1>5. Repeats \cap New = {}  BY <1>0 DEF Repeats
<1>6. IsFiniteSet(New) /\ Cardinality(New) \in Nat
  <2> HIDE DEF New
  <2> QED BY <1>1, <1>3, FS_Subset, FS_CardinalityType
<1>7. Cardinality(Earlier(s)) <= Cardinality(New)
  <2>1. \A i \in Earlier(s) : <<i, n>> \in New
    BY <1>0, <1>2
  <2>2. f \in [Earlier(s) -> New]  BY <2>1
  <2>3. \A i, j \in Earlier(s) : f[i] = f[j] => i = j  OBVIOUS
  <2>4. f \in Injection(Earlier(s), New)
    BY <2>2, <2>3 DEF Injection, IsInjective
  <2> HIDE DEF New, f
  <2> QED BY <1>6, <2>4, FS_Injection
<1> HIDE DEF New
<1>8. Cardinality(Repeats \cup New) = Cardinality(Repeats) + Cardinality(New)
  <2>1. Cardinality(Repeats \cap New) = 0  BY <1>5, FS_EmptySet
  <2>2. Cardinality(Repeats \cup New)
          = Cardinality(Repeats) + Cardinality(New) - Cardinality(Repeats \cap New)
    BY <1>1, <1>6, FS_Union
  <2> QED BY <1>1, <1>6, <2>1, <2>2
<1>9. Cardinality(Repeats \cup New) <= Cardinality(Repeats')
  BY <1>1, <1>3, <1>4, FS_Subset
<1> QED BY <1>1, <1>6, <1>7, <1>8, <1>9

(* An index that moves on by k leaves out at most k entries more.          *)
LEMMA IndexMoves ==
    ASSUME FTypeOK, NEW k \in Nat, NEW d \in {0, 1}, NEW c \in Nat, NEW S,
           c = search.cnt + d + k, ToSet(attempted) \subseteq S,
           d = 1 => Repositories[search.cnt] \in S
    PROVE  LET more == {i \in DOMAIN Repositories : i < c /\ Repositories[i] \notin S}
           IN  Cardinality(more) <= Cardinality(LeftOut) + k
<1> DEFINE more == {i \in DOMAIN Repositories : i < c /\ Repositories[i] \notin S}
           I == search.cnt + d .. c - 1
<1>1. search.cnt \in Nat  BY SearchTypes DEF SearchRec
<1>2. IsFiniteSet(I) /\ Cardinality(I) = k
  <2>1. search.cnt + d \in Int /\ c - 1 \in Int  BY <1>1
  <2>2. IF search.cnt + d > c - 1 THEN k = 0 ELSE c - 1 - (search.cnt + d) + 1 = k
    BY <1>1
  <2> QED BY <2>1, <2>2, FS_Interval
<1>3. more \subseteq LeftOut \cup I
  <2> SUFFICES ASSUME NEW i \in more, ~(i < search.cnt) PROVE i \in I
    BY DEF LeftOut
  <2>1. i \in Nat /\ i < c  BY SearchBounds
  <2>2. i = search.cnt => d = 0  OBVIOUS
  <2> HIDE DEF more
  <2>3. i >= search.cnt + d  BY <1>1, <2>1, <2>2
  <2> QED BY <1>1, <2>1, <2>3
<1>4. IsFiniteSet(LeftOut) /\ Cardinality(LeftOut) \in Nat  BY FiniteSearch
<1> HIDE DEF more, I
<1>5. /\ IsFiniteSet(LeftOut \cup I)
      /\ Cardinality(LeftOut \cup I) = Cardinality(LeftOut) + k - Cardinality(LeftOut \cap I)
  BY <1>2, <1>4, FS_Union
<1>6. Cardinality(LeftOut \cap I) \in Nat
  <2>1. LeftOut \cap I \in SUBSET LeftOut  OBVIOUS
  <2> QED BY <1>4, <2>1, FS_Subset, FS_CardinalityType
<1>7. Cardinality(more) <= Cardinality(LeftOut \cup I) /\ Cardinality(more) \in Nat
  BY <1>3, <1>5, FS_Subset, FS_CardinalityType
<1> QED BY <1>4, <1>5, <1>6, <1>7 DEF more

LEMMA SkipsStep ==
    ASSUME FTypeOK, FTypeOK', Answered, Skips, [FNext]_fvars PROVE Skips'
<1>0. /\ Cardinality(Repeats) \in Nat /\ Cardinality(LeftOut) \in Nat
      /\ search.cnt \in Nat
  BY FiniteSearch, SearchTypes DEF SearchRec
<1>1. ASSUME UNCHANGED <<attempted, search>> PROVE Skips'
  BY <1>1 DEF Skips, Repeats, LeftOut
<1>2. ASSUME FirstContact PROVE Skips'
  <2>1. search'.cnt = 1  BY <1>2, FirstContactDoes DEF SearchIs
  <2>2. LeftOut' = {}  BY <2>1, SearchBounds DEF LeftOut
  <2>3. Cardinality(LeftOut') = 0  BY <2>2, FS_EmptySet
  <2>4. Cardinality(Repeats') \in Nat  BY FiniteSearchNext
  <2> QED BY <2>3, <2>4 DEF Skips
<1>3. ASSUME Retry, Len(attempted) < MaxAttempted PROVE Skips'
  <2> DEFINE s == NextServer
             k == Cardinality(Earlier(s))
             d == IF search.ret = "WRONG_SERVER" THEN 0 ELSE 1
             S == ToSet(attempted) \cup {s}
  <2>1. s \in AllServers  BY <1>3, NextServers DEF Retry
  <2>2. attempted' = Append(attempted, s)  BY <1>3 DEF Retry
  <2>3. ToSet(attempted') = S
    <3> HIDE DEF s
    <3> QED BY <2>1, <2>2, OneMore, SearchTypes
  <2>4. Cardinality(Repeats) + k <= Cardinality(Repeats') /\ k \in Nat
    BY <2>1, <2>2, ContactRepeats, FiniteContacts
  <2>5. LeftOut' = {i \in DOMAIN Repositories : i < search'.cnt /\ Repositories[i] \notin S}
    BY <2>3 DEF LeftOut
  <2>6. d \in {0, 1} /\ (d = 1 => Repositories[search.cnt] \in S)
    BY DEF NextServer
  <2>7. search'.cnt = search.cnt \/ search'.cnt = search.cnt + d + k
    BY <1>3, RetryDoes DEF SearchIs
  <2>8. Cardinality(Repeats') \in Nat /\ Cardinality(LeftOut') \in Nat
    BY FiniteSearchNext
  <2> HIDE DEF s, k, d
  <2>9. CASE search'.cnt = search.cnt
    <3>1. LeftOut' \subseteq LeftOut  BY <2>5, <2>9 DEF LeftOut
    <3>2. Cardinality(LeftOut') <= Cardinality(LeftOut)
      BY <3>1, FiniteSearch, FS_Subset
    <3> QED BY <1>0, <2>4, <2>8, <3>2 DEF Skips
  <2>10. CASE search'.cnt = search.cnt + d + k
    <3>1. search'.cnt \in Nat  BY <1>0, <2>4, <2>6, <2>10
    <3>2. Cardinality(LeftOut') <= Cardinality(LeftOut) + k
      <4>1. ToSet(attempted) \subseteq S  OBVIOUS
      <4> HIDE DEF S
      <4> QED BY <2>4, <2>5, <2>6, <2>10, <3>1, <4>1, IndexMoves
    <3> QED BY <1>0, <2>4, <2>8, <3>2 DEF Skips
  <2> QED BY <2>7, <2>9, <2>10
<1>4. ASSUME Retry, ~(Len(attempted) < MaxAttempted) PROVE Skips'
  <2>1. UNCHANGED attempted /\ search'.cnt = search.cnt
    BY <1>4, RetryFullDoes DEF SearchIs
  <2> QED BY <2>1 DEF Skips, Repeats, LeftOut
<1>5. ASSUME TableEnds PROVE Skips'
  <2>1. UNCHANGED attempted /\ search'.cnt = search.cnt
    BY <1>5, TableEndsDoes DEF SearchIs, TableEnds
  <2> QED BY <2>1 DEF Skips, Repeats, LeftOut
<1> QED
  BY <1>1, <1>2, <1>3, <1>4, <1>5 DEF FNext, ClientSearches, ServerStopsOrStarts, fvars

LEMMA SearchInvariant == FSpec => [](FTypeOK /\ Answered /\ Homeward /\ Skips)
<1>1. FInit => FTypeOK /\ Answered /\ Homeward /\ Skips
  <2> SUFFICES ASSUME FInit PROVE FTypeOK /\ Answered /\ Homeward /\ Skips  OBVIOUS
  <2>1. PICK s \in ToSet(Repositories) :
          search = [server |-> s, cnt |-> 1, ret |-> "none", first |-> "none", ended |-> FALSE]
    BY DEF FInit
  <2>2. s \in AllServers  BY DEF AllServers
  <2>3. FTypeOK
    <3>1. home \in AllServers \cup {NoServer} /\ holders \subseteq AllServers
      BY DEF FInit
    <3>2. attempted = <<>> /\ Len(attempted) <= MaxAttempted /\ ffaults = 0
      BY SearchBounds DEF FInit
    <3>3. search \in SearchRec  BY <2>1, <2>2 DEF SearchRec, Answers
    <3>4. /\ build \in {"TRANSCEND", "INTERCOM"} /\ request \in {"get", "put", "ping"}
          /\ up \subseteq AllServers
      BY DEF FInit
    <3>5. ffaults \in 0 .. FMaxFaults /\ attempted \in Seq(AllServers)
      BY <3>2, SearchBounds
    <3> QED BY <3>1, <3>2, <3>3, <3>4, <3>5, SearchTypes
  <2>4. Answered  BY <2>1 DEF Answered, FInit
  <2>5. Homeward  BY <2>1 DEF Homeward, FInit, ToSet
  <2>6. Skips
    <3>1. LeftOut = {}  BY <2>1, SearchBounds DEF LeftOut
    <3> QED BY <2>3, <3>1, FiniteSearch, FS_EmptySet DEF Skips
  <2> QED BY <2>3, <2>4, <2>5, <2>6
<1>2. FTypeOK /\ Answered /\ Homeward /\ Skips /\ [FNext]_fvars
      => (FTypeOK /\ Answered /\ Homeward /\ Skips)'
  BY SearchStep, HomewardStep, SkipsStep
<1> QED BY <1>1, <1>2, PTL DEF FSpec

(* A search keeps its list of contacts, its index and its answer in range. *)
THEOREM SearchIsTyped == FSpec => []FTypeOK
  BY SearchInvariant, PTL

(* A client whose data is at a server that is up and stays up ends without *)
(* it only if it reached nobody, or at the end of its table.               *)
THEOREM HomeIsFound == FSpec => []HomeServes
<1>1. FTypeOK /\ Answered /\ Homeward => HomeServes
  <2> SUFFICES ASSUME FTypeOK, Answered, Homeward, search.ended, search.ret # "served",
                      ffaults = 0, request = "get", home \in up \cap holders,
                      Len(attempted) < MaxAttempted
               PROVE  \/ ToSet(attempted) \cap up = {}
                      \/ search.ret = "WRONG_SERVER" /\ search.cnt > Len(Repositories)
    BY DEF HomeServes
  <2>1. Len(attempted) # MaxAttempted  BY SearchTypes, SearchBounds
  <2> QED BY <2>1 DEF Homeward
<1> QED BY <1>1, SearchInvariant, PTL

(* A client that gives up has left out no more servers of its table than   *)
(* it has contacted servers again.                                         *)
THEOREM SkipsAreRepeats == FSpec => []SkippedAreRepeats
<1>1. FTypeOK /\ Answered /\ Skips => SkippedAreRepeats
  <2> SUFFICES ASSUME FTypeOK, Answered, Skips, search.ended, search.ret = "CONNECT_ERR",
                      request # "ping", Len(attempted) < MaxAttempted
               PROVE  Cardinality(ToSet(Repositories) \ ToSet(attempted))
                        <= Cardinality(Repeats)
    BY DEF SkippedAreRepeats, Repeats
  <2> DEFINE R == ToSet(Repositories) \ ToSet(attempted)
             f == [i \in LeftOut |-> Repositories[i]]
  <2>1. search.cnt > Len(Repositories) /\ search.cnt \in Nat
    BY SearchTypes DEF Answered, SearchRec
  <2>2. LeftOut = {i \in DOMAIN Repositories : Repositories[i] \notin ToSet(attempted)}
    <3>1. \A i \in DOMAIN Repositories : i < search.cnt  BY <2>1, SearchBounds
    <3> QED BY <3>1 DEF LeftOut
  <2>3. f \in Surjection(LeftOut, R)
    <3>1. f \in [LeftOut -> R]  BY <2>2 DEF ToSet
    <3>2. \A t \in R : \E i \in LeftOut : f[i] = t  BY <2>2 DEF ToSet
    <3> QED BY <3>1, <3>2 DEF Surjection
  <2>4. IsFiniteSet(LeftOut) /\ Cardinality(LeftOut) \in Nat /\ Cardinality(Repeats) \in Nat
    BY FiniteSearch
  <2> HIDE DEF f, R
  <2>5. IsFiniteSet(R) /\ Cardinality(R) <= Cardinality(LeftOut) /\ Cardinality(R) \in Nat
    BY <2>3, <2>4, FS_Surjection, FS_CardinalityType
  <2> QED BY <2>4, <2>5 DEF Skips, R
<1> QED BY <1>1, SearchInvariant, PTL
-----------------------------------------------------------------------------
(* Whatever service a behaviour exercises, each of the others only         *)
(* stutters: the composition is a behaviour of every one of them.          *)
LEMMA ServicesAreTheirParts ==
    ServicesSpec => /\ SepSpec /\ GSpec /\ LSpec /\ FSpec
                    /\ KSpec /\ LayoutSpec /\ FormSpec /\ NSpec
<1>1. ServicesInit => /\ SepInit /\ GInit /\ LInit /\ FInit
                      /\ KInit /\ LayoutInit /\ FormInit /\ NInit
  BY DEF ServicesInit
<1>2. [ServicesNext]_svars =>
        /\ [SepNext]_sepvars /\ [GNext]_gvars /\ [LNext]_lvars /\ [FNext]_fvars
        /\ [KNext]_kvars /\ [LayoutNext]_layoutVars /\ [FormNext]_formVars /\ [NNext]_nvars
  <2> SUFFICES ASSUME [ServicesNext]_svars
               PROVE  /\ [SepNext]_sepvars /\ [GNext]_gvars /\ [LNext]_lvars /\ [FNext]_fvars
                      /\ [KNext]_kvars /\ [LayoutNext]_layoutVars /\ [FormNext]_formVars
                      /\ [NNext]_nvars
    OBVIOUS
  <2>1. ASSUME SepService
        PROVE  /\ [SepNext]_sepvars
               /\ UNCHANGED gvars /\ UNCHANGED lvars /\ UNCHANGED fvars
               /\ UNCHANGED kvars /\ UNCHANGED layoutVars /\ UNCHANGED formVars
               /\ UNCHANGED nvars
    BY <2>1 DEF SepService
  <2>2. ASSUME GetService
        PROVE  /\ [GNext]_gvars
               /\ UNCHANGED sepvars /\ UNCHANGED lvars /\ UNCHANGED fvars
               /\ UNCHANGED kvars /\ UNCHANGED layoutVars /\ UNCHANGED formVars
               /\ UNCHANGED nvars
    BY <2>2 DEF GetService
  <2>3. ASSUME LockService
        PROVE  /\ [LNext]_lvars
               /\ UNCHANGED sepvars /\ UNCHANGED gvars /\ UNCHANGED fvars
               /\ UNCHANGED kvars /\ UNCHANGED layoutVars /\ UNCHANGED formVars
               /\ UNCHANGED nvars
    BY <2>3 DEF LockService
  <2>4. ASSUME SearchService
        PROVE  /\ [FNext]_fvars
               /\ UNCHANGED sepvars /\ UNCHANGED gvars /\ UNCHANGED lvars
               /\ UNCHANGED kvars /\ UNCHANGED layoutVars /\ UNCHANGED formVars
               /\ UNCHANGED nvars
    BY <2>4 DEF SearchService
  <2>5. ASSUME KeywordService
        PROVE  /\ [KNext]_kvars
               /\ UNCHANGED sepvars /\ UNCHANGED gvars /\ UNCHANGED lvars
               /\ UNCHANGED fvars /\ UNCHANGED layoutVars /\ UNCHANGED formVars
               /\ UNCHANGED nvars
    BY <2>5 DEF KeywordService
  <2>6. ASSUME LayoutService
        PROVE  /\ [LayoutNext]_layoutVars
               /\ UNCHANGED sepvars /\ UNCHANGED gvars /\ UNCHANGED lvars
               /\ UNCHANGED fvars /\ UNCHANGED kvars /\ UNCHANGED formVars
               /\ UNCHANGED nvars
    BY <2>6 DEF LayoutService
  <2>7. ASSUME FormService
        PROVE  /\ [FormNext]_formVars
               /\ UNCHANGED sepvars /\ UNCHANGED gvars /\ UNCHANGED lvars
               /\ UNCHANGED fvars /\ UNCHANGED kvars /\ UNCHANGED layoutVars
               /\ UNCHANGED nvars
    BY <2>7 DEF FormService
  <2>8. ASSUME ListenService
        PROVE  /\ [NNext]_nvars
               /\ UNCHANGED sepvars /\ UNCHANGED gvars /\ UNCHANGED lvars
               /\ UNCHANGED fvars /\ UNCHANGED kvars /\ UNCHANGED layoutVars
               /\ UNCHANGED formVars
    BY <2>8 DEF ListenService
  <2>9. ASSUME UNCHANGED svars
        PROVE  /\ UNCHANGED sepvars /\ UNCHANGED gvars /\ UNCHANGED lvars /\ UNCHANGED fvars
               /\ UNCHANGED kvars /\ UNCHANGED layoutVars /\ UNCHANGED formVars
               /\ UNCHANGED nvars
    BY <2>9 DEF svars
  <2> QED BY <2>1, <2>2, <2>3, <2>4, <2>5, <2>6, <2>7, <2>8, <2>9 DEF ServicesNext
<1> QED
  BY <1>1, <1>2, PTL DEF ServicesSpec, SepSpec, GSpec, LSpec, FSpec, KSpec, LayoutSpec,
                         FormSpec, NSpec

(* Every service keeps its state within its types, for all sizes of files, *)
(* tables and lists of contacts and any number of failures.                *)
THEOREM ServicesAreTyped == ServicesSpec => []ServicesTypeOK
<1>1. ServicesTypeOK <=> /\ SepTypeOK /\ GTypeOK /\ LTypeOK /\ FTypeOK
                         /\ KTypeOK /\ LayoutTypeOK /\ FormTypeOK /\ NTypeOK
  BY DEF ServicesTypeOK
<1> QED
  BY <1>1, ServicesAreTheirParts, SeparateIsTyped, GetIsTyped, LocksAreTyped, SearchIsTyped,
     KeywordsAreTyped, LayoutIsTyped, FormIsTyped, ListenerIsTyped, PTL

=============================================================================
