------------------------- MODULE ParallelPutProofs -------------------------
(***************************************************************************)
(* The integrity of a parallel upload, for any number of blocks, attempts, *)
(* lengths and faults: what put_ack accepts and the client counted in full *)
(* is in the data file in full.  It implements the promise of an upload,   *)
(* and a transfer that nothing disturbs is accepted.                       *)
(***************************************************************************)
EXTENDS ParallelPut, WellFoundedInduction, TLAPS

(* The block, if it has any data, is in the file.                          *)
Held(b) == Length[b] > 0 => b \in written

(* Nothing has been cut off the file or removed yet.                       *)
Untouched == ack.pc \in {"none", "read", "stat"}

(* The order of the parent, put_ack and the outcome.                       *)
Phases ==
    /\ ack.pc # "none" => par.pc # "poll"
    /\ ack.pc = "none" => ack.k = 0 /\ ack.size = 0
    /\ ack.pc # "end" => outcome = "none"

(* A server child that has counted its block has it in the file, and a slot*)
(* counts a block or nothing.                                              *)
SlotsTrue ==
    Untouched =>
        \A b \in Blocks :
            /\ \A t \in Attempts : spc[b][t] \in {"size", "sum", "done"} => b \in written
            /\ sslot[b].size \in {0, Length[b]}
            /\ sslot[b].size > 0 => b \in written

(* What put_ack has added up reaches the offset only if every block before *)
(* it is in the file.                                                      *)
SumTrue ==
    /\ ack.pc \in {"none", "read", "stat"} =>
         /\ ack.size <= Off[ack.k]
         /\ ack.size = Off[ack.k] => \A b \in Blocks : b < ack.k => Held(b)
    /\ ack.pc = "stat" => ack.k = N
    /\ ack.pc = "check" /\ ack.size = Total /\ par.size = Total
         => \A b \in Blocks : Held(b)

(* The invariant without its types, and with them.                         *)
Rest == Phases /\ SlotsTrue /\ SumTrue /\ AcceptedIsWhole

Integrity == TypeOK /\ Phases /\ SlotsTrue /\ SumTrue /\ AcceptedIsWhole

-----------------------------------------------------------------------------
LEMMA Bounds == N \in Nat /\ 0 < N /\ Tries \in Nat /\ 0 < Tries /\ Limit \in Nat
                /\ MaxFaults \in Nat /\ 0 \in 0 .. N /\ 1 \in Attempts
  BY ParallelAssumption DEF Attempts

(* A position of a loop over the table that is not its end.                *)
LEMMA Loop ==
    ASSUME NEW k \in 0 .. N, k < N
    PROVE  /\ k \in Blocks /\ k + 1 \in 0 .. N /\ k \in Nat
           /\ Off[k + 1] = Off[k] + Length[k]
           /\ Off[k] \in Nat /\ Off[k + 1] \in Nat /\ Length[k] \in Nat
<1>1. k \in Blocks /\ k + 1 \in 0 .. N /\ k \in Nat  BY Bounds DEF Blocks
<1> QED BY <1>1, ParallelAssumption

LEMMA BlocksAre == \A b \in Blocks : b \in Nat /\ b < N /\ b + 1 \in 0 .. N
  BY Bounds DEF Blocks

LEMMA ChecksumType == \A b \in Blocks, n \in Nat : Checksum(b, n) \in Nat
  BY ParallelAssumption DEF Checksum

(* The table of the client and its attempts keep their types.              *)
LEMMA SlotType ==
    ASSUME TypeOK, NEW b \in Blocks, NEW size \in Nat, NEW sum \in Nat,
           NEW fin \in BOOLEAN, Slot(b, size, sum, fin)
    PROVE  cslot' \in [Blocks -> [size : Nat, sum : Nat, fin : BOOLEAN]]
  BY DEF Slot, TypeOK

LEMMA FinishType ==
    ASSUME TypeOK, NEW b \in Blocks, Finish(b)
    PROVE  cslot' \in [Blocks -> [size : Nat, sum : Nat, fin : BOOLEAN]]
<1>1. DOMAIN cslot = Blocks /\ cslot[b] \in [size : Nat, sum : Nat, fin : BOOLEAN]
  BY DEF TypeOK
<1>2. [cslot[b] EXCEPT !.fin = TRUE] \in [size : Nat, sum : Nat, fin : BOOLEAN]
  BY <1>1
<1>3. cslot' = [cslot EXCEPT ![b] = [cslot[b] EXCEPT !.fin = TRUE]]
  BY <1>1 DEF Finish
<1> QED BY <1>2, <1>3 DEF TypeOK

LEMMA AgainType ==
    ASSUME TypeOK, NEW b \in Blocks, Again(b)
    PROVE  /\ try' \in [Blocks -> Attempts]
           /\ cpc' \in [Blocks -> {"init", "connect", "hello", "send", "wait",
                                   "end", "dead"}]
<1>1. CASE try[b] < Tries
  <2>1. try[b] + 1 \in Attempts /\ try' = [try EXCEPT ![b] = try[b] + 1]
    BY <1>1, Bounds DEF TypeOK, Attempts, Again
  <2> QED BY <1>1, <2>1 DEF Again, TypeOK
<1>2. CASE ~(try[b] < Tries)
  BY <1>2 DEF Again, TypeOK
<1> QED BY <1>1, <1>2

(* Every step keeps the types.                                             *)
LEMMA TypeStep == ASSUME TypeOK, [Next]_vars PROVE TypeOK'
<1>1. ASSUME NEW b \in Blocks, ChildInit(b)
      PROVE  TypeOK'
  BY <1>1, TypeOK, Bounds
     DEF ChildInit, Slot, servervars, parentvars, ackvars, TypeOK
<1>2. ASSUME NEW b \in Blocks, ChildConnect(b)
      PROVE  TypeOK'
  BY <1>2, TypeOK, Bounds
     DEF ChildConnect, parentvars, ackvars, TypeOK
<1>3. ASSUME NEW b \in Blocks, ChildHello(b)
      PROVE  TypeOK'
  BY <1>3, TypeOK, Bounds
     DEF ChildHello, servervars, parentvars, ackvars, TypeOK
<1>4. ASSUME NEW b \in Blocks, ChildNoServer(b)
      PROVE  TypeOK'
  BY <1>4, TypeOK, FinishType, AgainType
     DEF ChildNoServer, servervars, parentvars, ackvars, TypeOK
<1>5. ASSUME NEW b \in Blocks, ChildSend(b)
      PROVE  TypeOK'
  <2>1. sent[b] + 1 \in Nat /\ sent' = [sent EXCEPT ![b] = sent[b] + 1]
    BY <1>5, TypeOK DEF ChildSend, TypeOK
  <2>2. sent' \in [Blocks -> Nat] /\ sent'[b] \in Nat
    BY <2>1, TypeOK DEF TypeOK
  <2>3. cslot' \in [Blocks -> [size : Nat, sum : Nat, fin : BOOLEAN]]
    BY <1>5, <2>2, TypeOK, SlotType, ChecksumType DEF ChildSend, TypeOK
  <2> QED BY <1>5, <2>2, <2>3, TypeOK
          DEF ChildSend, servervars, parentvars, ackvars, TypeOK
<1>6. ASSUME NEW b \in Blocks, ChildSent(b)
      PROVE  TypeOK'
  <2>1. spc' \in [Blocks -> [Attempts -> {"none", "start", "receive", "full", "size",
                                          "sum", "done", "gone"}]]
    <3> DEFINE l == IF spc[b][try[b]] = "receive" THEN "full" ELSE spc[b][try[b]]
    <3>1. l \in {"none", "start", "receive", "full", "size", "sum", "done", "gone"}
      BY TypeOK DEF TypeOK
    <3>2. spc' = [spc EXCEPT ![b] = [spc[b] EXCEPT ![try[b]] = l]]
      BY <1>6, TypeOK DEF ChildSent, TypeOK
    <3> HIDE DEF l
    <3> QED BY <3>1, <3>2, TypeOK DEF TypeOK
  <2> QED BY <1>6, <2>1, TypeOK DEF ChildSent, parentvars, ackvars, TypeOK
<1>7. ASSUME NEW b \in Blocks, ChildOk(b)
      PROVE  TypeOK'
  <2>1. cslot' \in [Blocks -> [size : Nat, sum : Nat, fin : BOOLEAN]]
    BY <1>7, TypeOK, SlotType, FinishType, ChecksumType DEF ChildOk, TypeOK
  <2> QED BY <1>7, <2>1, TypeOK
          DEF ChildOk, servervars, parentvars, ackvars, TypeOK
<1>8. ASSUME NEW b \in Blocks, ChildLost(b)
      PROVE  TypeOK'
  <2>1. cslot' \in [Blocks -> [size : Nat, sum : Nat, fin : BOOLEAN]]
    BY <1>8, TypeOK, SlotType, ChecksumType DEF ChildLost, TypeOK
  <2> QED BY <1>8, <2>1, TypeOK, AgainType
          DEF ChildLost, servervars, parentvars, ackvars, TypeOK
<1>9. ASSUME NEW b \in Blocks, Drop(b)
      PROVE  TypeOK'
  BY <1>9, TypeOK, Bounds
     DEF Drop, servervars, parentvars, ackvars, TypeOK
<1>10. ASSUME NEW b \in Blocks, Kill(b)
      PROVE  TypeOK'
  BY <1>10, TypeOK, Bounds
     DEF Kill, servervars, parentvars, ackvars, TypeOK
<1>11. ASSUME NEW b \in Blocks, NEW t \in Attempts, BlockInit(b, t)
      PROVE  TypeOK'
  BY <1>11, TypeOK, Bounds
     DEF BlockInit, At, childvars, parentvars, ackvars, TypeOK
<1>12. ASSUME NEW b \in Blocks, NEW t \in Attempts, BlockReceive(b, t)
      PROVE  TypeOK'
  BY <1>12, TypeOK, Bounds
     DEF BlockReceive, At, childvars, parentvars, ackvars, TypeOK
<1>13. ASSUME NEW b \in Blocks, NEW t \in Attempts, BlockSize(b, t)
      PROVE  TypeOK'
  <2>1. Length[b] \in Nat
    BY ParallelAssumption
  <2> QED BY <1>13, <2>1, TypeOK
          DEF BlockSize, At, childvars, parentvars, ackvars, TypeOK
<1>14. ASSUME NEW b \in Blocks, NEW t \in Attempts, BlockSum(b, t)
      PROVE  TypeOK'
  <2>1. Checksum(b, Length[b]) \in Nat
    BY ParallelAssumption, ChecksumType
  <2> QED BY <1>14, <2>1, TypeOK
          DEF BlockSum, At, childvars, parentvars, ackvars, TypeOK
<1>15. ASSUME NEW b \in Blocks, NEW t \in Attempts, BlockDie(b, t)
      PROVE  TypeOK'
  BY <1>15, TypeOK, Bounds
     DEF BlockDie, At, childvars, parentvars, ackvars, TypeOK
<1>16. ASSUME PollSlot
      PROVE  TypeOK'
  <2>1. par.k \in Blocks /\ par.k + 1 \in 0 .. N
    <3>1. par.k \in 0 .. N /\ par.k < N  BY <1>16, TypeOK DEF PollSlot, TypeOK
    <3> QED BY <3>1, Loop
  <2>2. cslot[par.k].size \in Nat /\ cslot[par.k].sum \in Nat
    BY <2>1, TypeOK DEF TypeOK
  <2>3. par' \in [pc : {"poll", "ack", "end"}, k : 0 .. N, fin : Nat, size : Nat,
                 sum : Nat]
    <3>1. /\ par.fin + (IF cslot[par.k].fin THEN 1 ELSE 0) \in Nat
          /\ par.size + cslot[par.k].size \in Nat
          /\ par.sum + cslot[par.k].sum \in Nat
      BY <2>2, TypeOK DEF TypeOK
    <3>2. par' = [pc |-> par.pc, k |-> par.k + 1,
                  fin |-> par.fin + (IF cslot[par.k].fin THEN 1 ELSE 0),
                  size |-> par.size + cslot[par.k].size,
                  sum |-> par.sum + cslot[par.k].sum]
      BY <1>16, TypeOK DEF PollSlot, TypeOK
    <3> QED BY <2>1, <3>1, <3>2, TypeOK DEF TypeOK
  <2> QED BY <1>16, <2>3, TypeOK
          DEF PollSlot, childvars, servervars, ackvars, TypeOK
<1>17. ASSUME PollLeave
      PROVE  TypeOK'
  BY <1>17, TypeOK, Bounds
     DEF PollLeave, childvars, servervars, ackvars, TypeOK
<1>18. ASSUME PollAgain
      PROVE  TypeOK'
  <2>1. 0 \in 0 .. N /\ par.size \in Nat /\ Limit \in Nat
    BY TypeOK, Bounds DEF TypeOK
  <2>2. par' \in [pc : {"poll", "ack", "end"}, k : 0 .. N, fin : Nat, size : Nat,
                 sum : Nat]
    BY <1>18, <2>1 DEF PollAgain
  <2>3. cnt' \in Nat /\ wrn' \in BOOLEAN /\ old' \in Nat
    <3>1. cnt \in Nat /\ wrn \in BOOLEAN /\ old \in Nat  BY TypeOK DEF TypeOK
    <3>2. CASE cnt + 1 # Limit
      <4>1. cnt' = (IF cnt > Limit THEN cnt ELSE cnt + 1)
        BY <1>18, <3>2 DEF PollAgain
      <4>2. wrn' = wrn  BY <1>18, <3>2 DEF PollAgain
      <4>3. old' = old  BY <1>18, <3>2 DEF PollAgain
      <4>4. cnt' \in Nat  BY <3>1, <4>1
      <4>5. wrn' \in BOOLEAN  BY <3>1, <4>2, Zenon
      <4>6. old' \in Nat  BY <3>1, <4>3
      <4> QED BY <4>4, <4>5, <4>6
    <3>3. CASE cnt + 1 = Limit /\ old = par.size
      <4>1. cnt' = Limit  BY <1>18, <3>3 DEF PollAgain
      <4>2. wrn' = TRUE  BY <1>18, <3>3 DEF PollAgain
      <4>3. old' = old  BY <1>18, <3>3 DEF PollAgain
      <4>4. cnt' \in Nat /\ old' \in Nat  BY <2>1, <3>1, <4>1, <4>3
      <4>5. wrn' \in BOOLEAN  BY <4>2
      <4> QED BY <4>4, <4>5
    <3>4. CASE cnt + 1 = Limit /\ old # par.size
      <4>1. cnt' = 0  BY <1>18, <3>4 DEF PollAgain
      <4>2. wrn' = FALSE  BY <1>18, <3>4 DEF PollAgain
      <4>3. old' = par.size  BY <1>18, <3>4 DEF PollAgain
      <4>4. cnt' \in Nat /\ old' \in Nat  BY <2>1, <4>1, <4>3
      <4>5. wrn' \in BOOLEAN  BY <4>2
      <4> QED BY <4>4, <4>5
    <3> QED BY <3>2, <3>3, <3>4
  <2>4. reply' \in {"none", "success", "error"}
    BY <1>18, TypeOK DEF PollAgain, TypeOK
  <2> QED BY <1>18, <2>2, <2>3, <2>4, TypeOK
          DEF PollAgain, childvars, servervars, TypeOK
<1>19. ASSUME ParentEnd
      PROVE  TypeOK'
  BY <1>19, TypeOK, Bounds
     DEF ParentEnd, childvars, servervars, TypeOK
<1>20. ASSUME AckStart
      PROVE  TypeOK'
  BY <1>20, TypeOK, Bounds
     DEF AckStart, childvars, servervars, parentvars, TypeOK
<1>21. ASSUME AckSlot
      PROVE  TypeOK'
  <2>1. ack.k \in Blocks /\ ack.k + 1 \in 0 .. N
    <3>1. ack.k \in 0 .. N /\ ack.k < N  BY <1>21, TypeOK DEF AckSlot, TypeOK
    <3> QED BY <3>1, Loop
  <2>2. sslot[ack.k].size \in Nat /\ sslot[ack.k].sum \in Nat
    BY <2>1, TypeOK DEF TypeOK
  <2>3. ack' \in [pc : {"none", "read", "stat", "check", "end"}, k : 0 .. N,
                 size : Nat, sum : Nat]
    <3>1. /\ ack.size + sslot[ack.k].size \in Nat
          /\ ack.sum + sslot[ack.k].sum \in Nat
      BY <2>2, TypeOK DEF TypeOK
    <3>2. ack' = [pc |-> ack.pc, k |-> ack.k + 1,
                  size |-> ack.size + sslot[ack.k].size,
                  sum |-> ack.sum + sslot[ack.k].sum]
      BY <1>21, TypeOK DEF AckSlot, TypeOK
    <3> QED BY <2>1, <3>1, <3>2, TypeOK DEF TypeOK
  <2> QED BY <1>21, <2>3, TypeOK
          DEF AckSlot, childvars, servervars, parentvars, TypeOK
<1>22. ASSUME AckRelease
      PROVE  TypeOK'
  BY <1>22, TypeOK, Bounds
     DEF AckRelease, childvars, servervars, parentvars, TypeOK
<1>23. ASSUME AckStat
      PROVE  TypeOK'
  BY <1>23, TypeOK, Bounds
     DEF AckStat, Reject, childvars, parentvars, TypeOK
<1>24. ASSUME AckCheck
      PROVE  TypeOK'
  BY <1>24, TypeOK, Bounds
     DEF AckCheck, Reject, childvars, parentvars, TypeOK
<1>25. ASSUME AckDie
      PROVE  TypeOK'
  BY <1>25, TypeOK, Bounds
     DEF AckDie, childvars, servervars, parentvars, TypeOK
<1>26. ASSUME UNCHANGED vars PROVE TypeOK'
  BY <1>26, TypeOK DEF vars, childvars, servervars, parentvars, ackvars,
         TypeOK
<1> QED BY [Next]_vars, <1>1, <1>2, <1>3, <1>4, <1>5, <1>6, <1>7, <1>8, <1>9,
       <1>10, <1>11, <1>12, <1>13, <1>14, <1>15, <1>16, <1>17, <1>18, <1>19,
       <1>20, <1>21, <1>22, <1>23, <1>24, <1>25, <1>26
    DEF Next, ChildStep, BlockStep, ParentStep, AckStep

(* Every step keeps the other parts of the invariant.                      *)
LEMMA RestStep == ASSUME Integrity, TypeOK', [Next]_vars PROVE Rest'
<1>1. ASSUME NEW b \in Blocks, ChildInit(b)
      PROVE  Rest'
  BY <1>1, Integrity
     DEF ChildInit, Slot, servervars, parentvars, ackvars, Integrity, Rest,
         Phases, SlotsTrue, Untouched, SumTrue, Held, AcceptedIsWhole,
         TypeOK
<1>2. ASSUME NEW b \in Blocks, ChildConnect(b)
      PROVE  Rest'
  BY <1>2, Integrity
     DEF ChildConnect, parentvars, ackvars, Integrity, Rest, Phases,
         SlotsTrue, Untouched, SumTrue, Held, AcceptedIsWhole, TypeOK
<1>3. ASSUME NEW b \in Blocks, ChildHello(b)
      PROVE  Rest'
  BY <1>3, Integrity
     DEF ChildHello, servervars, parentvars, ackvars, Integrity, Rest,
         Phases, SlotsTrue, Untouched, SumTrue, Held, AcceptedIsWhole,
         TypeOK
<1>4. ASSUME NEW b \in Blocks, ChildNoServer(b)
      PROVE  Rest'
  BY <1>4, Integrity
     DEF ChildNoServer, Finish, Again, servervars, parentvars, ackvars,
         Integrity, Rest, Phases, SlotsTrue, Untouched, SumTrue, Held,
         AcceptedIsWhole, TypeOK
<1>5. ASSUME NEW b \in Blocks, ChildSend(b)
      PROVE  Rest'
  BY <1>5, Integrity
     DEF ChildSend, Slot, servervars, parentvars, ackvars, Integrity, Rest,
         Phases, SlotsTrue, Untouched, SumTrue, Held, AcceptedIsWhole,
         TypeOK
<1>6. ASSUME NEW b \in Blocks, ChildSent(b)
      PROVE  Rest'
  BY <1>6, Integrity
     DEF ChildSent, parentvars, ackvars, Integrity, Rest, Phases, SlotsTrue,
         Untouched, SumTrue, Held, AcceptedIsWhole, TypeOK
<1>7. ASSUME NEW b \in Blocks, ChildOk(b)
      PROVE  Rest'
  BY <1>7, Integrity
     DEF ChildOk, Slot, Finish, servervars, parentvars, ackvars, Integrity,
         Rest, Phases, SlotsTrue, Untouched, SumTrue, Held, AcceptedIsWhole,
         TypeOK
<1>8. ASSUME NEW b \in Blocks, ChildLost(b)
      PROVE  Rest'
  BY <1>8, Integrity
     DEF ChildLost, Slot, Again, servervars, parentvars, ackvars, Integrity,
         Rest, Phases, SlotsTrue, Untouched, SumTrue, Held, AcceptedIsWhole,
         TypeOK
<1>9. ASSUME NEW b \in Blocks, Drop(b)
      PROVE  Rest'
  BY <1>9, Integrity
     DEF Drop, servervars, parentvars, ackvars, Integrity, Rest, Phases,
         SlotsTrue, Untouched, SumTrue, Held, AcceptedIsWhole, TypeOK
<1>10. ASSUME NEW b \in Blocks, Kill(b)
      PROVE  Rest'
  BY <1>10, Integrity
     DEF Kill, servervars, parentvars, ackvars, Integrity, Rest, Phases,
         SlotsTrue, Untouched, SumTrue, Held, AcceptedIsWhole, TypeOK
<1>11. ASSUME NEW b \in Blocks, NEW t \in Attempts, BlockInit(b, t)
      PROVE  Rest'
  <2>1. \A c \in Blocks :
            /\ c # b => sslot'[c] = sslot[c] /\ spc'[c] = spc[c]
            /\ \A s \in Attempts : s # t => spc'[b][s] = spc[b][s]
    BY <1>11, Integrity DEF BlockInit, At, Integrity, TypeOK
  <2>2. /\ spc'[b][t] = "receive"
        /\ sslot'[b].size = 0 \/ sslot'[b] = sslot[b]
    BY <1>11, Integrity DEF BlockInit, At, Integrity, TypeOK
  <2>3. UNCHANGED <<written, ack, par, outcome>>
    BY <1>11 DEF BlockInit, parentvars, ackvars
  <2> QED BY <2>1, <2>2, <2>3, Integrity DEF Integrity, Rest, Phases, SlotsTrue,
            Untouched, SumTrue, Held, AcceptedIsWhole
<1>12. ASSUME NEW b \in Blocks, NEW t \in Attempts, BlockReceive(b, t)
      PROVE  Rest'
  BY <1>12, Integrity
     DEF BlockReceive, At, childvars, parentvars, ackvars, Integrity, Rest,
         Phases, SlotsTrue, Untouched, SumTrue, Held, AcceptedIsWhole,
         TypeOK
<1>13. ASSUME NEW b \in Blocks, NEW t \in Attempts, BlockSize(b, t)
      PROVE  Rest'
  <2>1. \A c \in Blocks :
            /\ c # b => sslot'[c] = sslot[c] /\ spc'[c] = spc[c]
            /\ \A s \in Attempts : s # t => spc'[b][s] = spc[b][s]
    BY <1>13, Integrity DEF BlockSize, At, Integrity, TypeOK
  <2>2. /\ spc[b][t] = "size" /\ spc'[b][t] = "sum"
        /\ sslot'[b].size = Length[b]
    BY <1>13, Integrity DEF BlockSize, At, Integrity, TypeOK
  <2>3. UNCHANGED <<written, ack, par, outcome>>
    BY <1>13 DEF BlockSize, parentvars, ackvars
  <2> QED BY <2>1, <2>2, <2>3, Integrity DEF Integrity, Rest, Phases, SlotsTrue,
            Untouched, SumTrue, Held, AcceptedIsWhole
<1>14. ASSUME NEW b \in Blocks, NEW t \in Attempts, BlockSum(b, t)
      PROVE  Rest'
  <2>1. \A c \in Blocks :
            /\ c # b => sslot'[c] = sslot[c] /\ spc'[c] = spc[c]
            /\ \A s \in Attempts : s # t => spc'[b][s] = spc[b][s]
    BY <1>14, Integrity DEF BlockSum, At, Integrity, TypeOK
  <2>2. /\ spc[b][t] = "sum" /\ spc'[b][t] = "done"
        /\ sslot'[b].size = sslot[b].size
    BY <1>14, Integrity DEF BlockSum, At, Integrity, TypeOK
  <2>3. UNCHANGED <<written, ack, par, outcome>>
    BY <1>14 DEF BlockSum, parentvars, ackvars
  <2> QED BY <2>1, <2>2, <2>3, Integrity DEF Integrity, Rest, Phases, SlotsTrue,
            Untouched, SumTrue, Held, AcceptedIsWhole
<1>15. ASSUME NEW b \in Blocks, NEW t \in Attempts, BlockDie(b, t)
      PROVE  Rest'
  BY <1>15, Integrity
     DEF BlockDie, At, childvars, parentvars, ackvars, Integrity, Rest,
         Phases, SlotsTrue, Untouched, SumTrue, Held, AcceptedIsWhole,
         TypeOK
<1>16. ASSUME PollSlot
      PROVE  Rest'
  BY <1>16, Integrity
     DEF PollSlot, childvars, servervars, ackvars, Integrity, Rest, Phases,
         SlotsTrue, Untouched, SumTrue, Held, AcceptedIsWhole, TypeOK
<1>17. ASSUME PollLeave
      PROVE  Rest'
  BY <1>17, Integrity
     DEF PollLeave, childvars, servervars, ackvars, Integrity, Rest, Phases,
         SlotsTrue, Untouched, SumTrue, Held, AcceptedIsWhole, TypeOK
<1>18. ASSUME PollAgain
      PROVE  Rest'
  BY <1>18, Integrity
     DEF PollAgain, childvars, servervars, Integrity, Rest, Phases,
         SlotsTrue, Untouched, SumTrue, Held, AcceptedIsWhole, TypeOK
<1>19. ASSUME ParentEnd
      PROVE  Rest'
  BY <1>19, Integrity
     DEF ParentEnd, childvars, servervars, Integrity, Rest, Phases,
         SlotsTrue, Untouched, SumTrue, Held, AcceptedIsWhole, TypeOK
<1>20. ASSUME AckStart
      PROVE  Rest'
  BY <1>20, Integrity, BlocksAre
     DEF AckStart, childvars, servervars, parentvars, Integrity, Rest,
         Phases, SlotsTrue, Untouched, SumTrue, Held, AcceptedIsWhole,
         TypeOK, Total
<1>21. ASSUME AckSlot
      PROVE  Rest'
  <2> DEFINE k == ack.k
             z == sslot[k].size
  <2>1. k \in 0 .. N /\ k < N /\ ack.size \in Nat
    BY <1>21, Integrity DEF AckSlot, Integrity, TypeOK
  <2>2. /\ Off[k + 1] = Off[k] + Length[k] /\ k \in Blocks /\ k \in Nat
        /\ Off[k] \in Nat /\ Off[k + 1] \in Nat /\ Length[k] \in Nat
        /\ z \in Nat
    <3> HIDE DEF k
    <3>1. k \in Blocks  BY <2>1, Loop
    <3> QED BY <2>1, <3>1, Loop, Integrity DEF Integrity, TypeOK
  <2>3. ack'.pc = "read" /\ ack'.k = k + 1 /\ ack'.size = ack.size + z
    BY <1>21, Integrity DEF AckSlot, Integrity, TypeOK
  <2>4. UNCHANGED <<written, sslot, spc, par, outcome>>
    BY <1>21 DEF AckSlot, servervars, parentvars
  <2>5. /\ ack.pc = "read" /\ z \in {0, Length[k]} /\ (z > 0 => k \in written)
        /\ ack.size <= Off[k]
        /\ ack.size = Off[k] => \A b \in Blocks : b < k => Held(b)
    BY <1>21, <2>2, Integrity DEF AckSlot, Integrity, SlotsTrue, SumTrue, Untouched
  <2> HIDE DEF k, z
  <2>6. ack'.size <= Off[k + 1]
    BY <2>1, <2>2, <2>3, <2>5
  <2>7. ASSUME ack'.size = Off[k + 1], NEW b \in Blocks, b < k + 1
        PROVE  Held(b)'
    <3>1. ack.size = Off[k] /\ z = Length[k]
      BY <2>1, <2>2, <2>3, <2>5, <2>7
    <3>2. CASE b = k  BY <2>2, <2>4, <2>5, <3>1, <3>2 DEF Held
    <3>3. CASE b # k
      <4>1. b < k  BY <2>2, <2>7, <3>3, BlocksAre
      <4> QED BY <2>4, <2>5, <3>1, <4>1 DEF Held
    <3> QED BY <3>2, <3>3
  <2>8. SumTrue'
    BY <2>3, <2>6, <2>7 DEF SumTrue
  <2> QED BY <2>3, <2>4, <2>5, <2>8, Integrity
          DEF Integrity, Rest, Phases, SlotsTrue, Untouched, Held, AcceptedIsWhole
<1>22. ASSUME AckRelease
      PROVE  Rest'
  BY <1>22, Integrity, BlocksAre
     DEF AckRelease, childvars, servervars, parentvars, Integrity, Rest,
         Phases, SlotsTrue, Untouched, SumTrue, Held, AcceptedIsWhole,
         TypeOK, Total
<1>23. ASSUME AckStat
      PROVE  Rest'
  <2>1. /\ ack.pc = "stat" /\ ack'.pc \in {"check", "end"} /\ ack'.size = ack.size
        /\ outcome' # "accepted"
        /\ ack'.pc = "check" => /\ written' = {b \in written : Off[b + 1] <= par.size}
                                /\ outcome' = outcome
    BY <1>23, Integrity DEF AckStat, Reject, Integrity, TypeOK, Phases
  <2>2. UNCHANGED par
    BY <1>23 DEF AckStat, parentvars
  <2>3. ASSUME ack'.pc = "check", ack.size = Total, par.size = Total
        PROVE  \A b \in Blocks : Held(b)'
    <3>1. written' = written
      BY <2>1, <2>3, ParallelAssumption, Integrity DEF Total, Integrity, TypeOK
    <3>2. \A b \in Blocks : b < N
      BY BlocksAre
    <3>3. \A b \in Blocks : Held(b)
      BY <2>1, <2>3, <3>2, Integrity DEF Integrity, SumTrue, Total
    <3> QED BY <3>1, <3>3 DEF Held
  <2>4. SumTrue'
    BY <2>1, <2>2, <2>3 DEF SumTrue, Total
  <2>5. Phases' /\ SlotsTrue' /\ AcceptedIsWhole'
    BY <2>1, <2>2, Integrity DEF Integrity, Phases, SlotsTrue, Untouched, AcceptedIsWhole
  <2> QED BY <2>4, <2>5 DEF Rest
<1>24. ASSUME AckCheck
      PROVE  Rest'
  BY <1>24, Integrity, BlocksAre
     DEF AckCheck, Reject, childvars, parentvars, Integrity, Rest, Phases,
         SlotsTrue, Untouched, SumTrue, Held, AcceptedIsWhole, TypeOK, Total
<1>25. ASSUME AckDie
      PROVE  Rest'
  BY <1>25, Integrity, BlocksAre
     DEF AckDie, childvars, servervars, parentvars, Integrity, Rest, Phases,
         SlotsTrue, Untouched, SumTrue, Held, AcceptedIsWhole, TypeOK, Total
<1>26. ASSUME UNCHANGED vars PROVE Rest'
  BY <1>26, Integrity DEF vars, childvars, servervars, parentvars, ackvars,
         Integrity, Rest, Phases, SlotsTrue, Untouched, SumTrue,
         Held, AcceptedIsWhole, TypeOK
<1> QED BY [Next]_vars, <1>1, <1>2, <1>3, <1>4, <1>5, <1>6, <1>7, <1>8, <1>9,
       <1>10, <1>11, <1>12, <1>13, <1>14, <1>15, <1>16, <1>17, <1>18, <1>19,
       <1>20, <1>21, <1>22, <1>23, <1>24, <1>25, <1>26
    DEF Next, ChildStep, BlockStep, ParentStep, AckStep

-----------------------------------------------------------------------------
LEMMA IntegrityInit == Init => Integrity
<1> SUFFICES ASSUME Init PROVE Integrity  OBVIOUS
<1>1. TypeOK  BY Bounds DEF Init, TypeOK
<1>2. Off[0] = 0 /\ \A b \in Blocks : ~(b < 0)
  BY ParallelAssumption, BlocksAre
<1>3. Rest
  BY <1>2 DEF Init, Rest, Phases, SlotsTrue, Untouched, SumTrue, Held, AcceptedIsWhole
<1> QED BY <1>1, <1>3 DEF Integrity, Rest

LEMMA Inductive == Spec => []Integrity
<1>1. Integrity /\ [Next]_vars => Integrity'
  <2>1. ASSUME Integrity, [Next]_vars PROVE TypeOK'
    BY <2>1, TypeStep DEF Integrity
  <2> QED BY <2>1, RestStep DEF Integrity, Rest
<1> QED BY IntegrityInit, <1>1, PTL DEF Spec

(* Every counter, slot and position of a parallel transfer keeps its type. *)
THEOREM ParallelTypeCorrect == Spec => []TypeOK
<1>1. Integrity => TypeOK  BY DEF Integrity
<1> QED BY Inductive, <1>1, PTL

(* Whatever connections fail, whatever children die, and in whatever order *)
(* attempts write the slots: a file that put_ack accepts, of which the     *)
(* client counted every byte, holds every block.                           *)
THEOREM AcceptedFilesAreWhole == Spec => []AcceptedIsWhole
<1>1. Integrity => AcceptedIsWhole  BY DEF Integrity
<1> QED BY Inductive, <1>1, PTL
-----------------------------------------------------------------------------
(* The user hears nothing before the parent's end.                         *)
Untold == par.pc # "end" => reply = "none"

LEMMA UntoldStep == ASSUME Integrity, Untold, [Next]_vars PROVE Untold'
<1>1. CASE UNCHANGED <<par, reply>>
  BY <1>1, Untold DEF Untold
<1>2. CASE PollSlot
  BY <1>2, Integrity, Untold DEF PollSlot, ackvars, Untold, Integrity, TypeOK
<1>3. CASE PollLeave
  BY <1>3, Integrity, Untold DEF PollLeave, ackvars, Untold, Integrity, TypeOK
<1>4. CASE PollAgain
  BY <1>4, Integrity, Untold DEF PollAgain, Untold, Integrity, TypeOK
<1>5. CASE ParentEnd
  BY <1>5, Integrity DEF ParentEnd, Untold, Integrity, TypeOK
<1>6. PollSlot \/ PollLeave \/ PollAgain \/ ParentEnd \/ UNCHANGED <<par, reply>>
  BY [Next]_vars
     DEF Next, ChildStep, BlockStep, ParentStep, AckStep, vars, parentvars, ackvars,
         ChildInit, ChildConnect, ChildHello, ChildNoServer, ChildSend, ChildSent,
         ChildOk, ChildLost, Drop, Kill, BlockInit, BlockReceive, BlockSize, BlockSum,
         BlockDie, AckStart, AckSlot, AckRelease, AckStat, AckCheck, AckDie
<1> QED BY <1>1, <1>2, <1>3, <1>4, <1>5, <1>6

(* Every step of the transfer is a step of the promise, or changes nothing *)
(* that it speaks of.                                                      *)
LEMMA PromiseStep ==
    ASSUME Integrity, Integrity', Untold, [Next]_vars
    PROVE  [Promise!PromiseNext]_(Promise!promised)
<1>1. CASE UNCHANGED <<written, par, outcome, reply>>
  BY <1>1 DEF Promise!promised
<1>2. ASSUME NEW b \in Blocks, NEW t \in Attempts, BlockReceive(b, t)
      PROVE  [Promise!PromiseNext]_(Promise!promised)
  <2>1. UNCHANGED <<par, outcome, reply>>
    BY <1>2 DEF BlockReceive, parentvars, ackvars
  <2>2. CASE outcome = "rejected"
    <3>1. written' = written  BY <1>2, <2>2 DEF BlockReceive
    <3> QED BY <1>1, <2>1, <3>1
  <2>3. CASE outcome # "rejected"
    <3>1. written' = written \cup {b}  BY <1>2, <2>3 DEF BlockReceive
    <3>2. Promise!Store(b)
      BY <2>1, <2>3, <3>1 DEF Promise!Store
    <3> QED BY <3>2 DEF Promise!PromiseNext
  <2> QED BY <2>2, <2>3
<1>3. CASE PollSlot
  <2>1. par.pc = "poll" /\ par'.pc = "poll" /\ UNCHANGED <<written, outcome, reply>>
    BY <1>3, Integrity DEF PollSlot, servervars, ackvars, Integrity, TypeOK
  <2> QED BY <2>1 DEF Promise!promised
<1>4. CASE PollLeave
  <2>1. /\ par.pc = "poll" /\ par'.pc = "ack" /\ par'.size = par.size
        /\ UNCHANGED <<written, outcome, reply>>
    BY <1>4, Integrity DEF PollLeave, servervars, ackvars, Integrity, TypeOK
  <2>2. outcome = "none"
    BY <2>1, Integrity DEF Integrity, Phases
  <2>3. CASE par.size = Total
    <3>1. Promise!Tally
      BY <2>1, <2>2, <2>3 DEF Promise!Tally, Total
    <3> QED BY <3>1 DEF Promise!PromiseNext
  <2>4. CASE par.size # Total
    BY <2>1, <2>4 DEF Promise!promised, Total
  <2> QED BY <2>3, <2>4
<1>5. CASE PollAgain
  <2>1. /\ par.pc = "poll" /\ par.size < Total
        /\ UNCHANGED <<written, outcome>>
    BY <1>5, Integrity, ParallelAssumption
       DEF PollAgain, AllSent, servervars, Integrity, TypeOK, Total
  <2>2. /\ par'.size = 0 /\ par'.pc \in {"poll", "end"}
        /\ reply' = reply \/ reply' = "error"
        /\ par'.pc = "end" => reply' = "error"
    BY <1>5 DEF PollAgain
  <2>3. par.size \in Nat /\ Total \in Nat /\ Total # 0
    <3>1. par.size \in Nat  BY Integrity DEF Integrity, TypeOK
    <3>2. Total \in Nat
      <4>1. N \in 0 .. N  BY Bounds
      <4> QED BY <4>1, ParallelAssumption DEF Total
    <3> QED BY <2>1, <3>1, <3>2
  <2>4. ~(par.pc # "poll" /\ par.size = Total) /\ ~(par'.pc # "poll" /\ par'.size = Total)
    BY <2>1, <2>2, <2>3
  <2>5. CASE reply' = reply
    BY <2>1, <2>4, <2>5 DEF Promise!promised, Total
  <2>6. CASE reply' = "error"
    <3>1. Promise!Tell
      BY <2>1, <2>4, <2>6, Untold DEF Promise!Tell, Untold, Total
    <3> QED BY <3>1 DEF Promise!PromiseNext
  <2> QED BY <2>2, <2>5, <2>6
<1>6. CASE ParentEnd
  <2>1. /\ par.pc = "ack" /\ par'.pc = "end" /\ par'.size = par.size
        /\ UNCHANGED <<written, outcome>>
        /\ reply' = "error" \/ (outcome = "accepted" /\ reply' = "success")
    BY <1>6, Integrity DEF ParentEnd, servervars, Integrity, TypeOK
  <2>2. Promise!Tell
    BY <2>1, Untold DEF Promise!Tell, Untold, Total
  <2> QED BY <2>2 DEF Promise!PromiseNext
<1>7. CASE AckStat
  <2>1. /\ ack.pc = "stat" /\ UNCHANGED <<par, reply>>
        /\ par.pc # "poll" /\ outcome = "none"
    BY <1>7, Integrity DEF AckStat, parentvars, Integrity, Phases
  <2>2. CASE Reject
    <3>1. Promise!Discard
      BY <2>1, <2>2 DEF Reject, Promise!Discard, Total
    <3> QED BY <3>1 DEF Promise!PromiseNext
  <2>3. CASE ~Reject
    <3>1. written' = {b \in written : Off[b + 1] <= par.size} /\ UNCHANGED outcome
      BY <1>7, <2>3 DEF AckStat
    <3>2. CASE par.size = Total
      <4>1. written' = written
        BY <3>1, <3>2, ParallelAssumption, Integrity DEF Total, Integrity, TypeOK
      <4> QED BY <1>1, <2>1, <3>1, <4>1
    <3>3. CASE par.size # Total
      <4>1. Promise!Cut
        BY <2>1, <3>1, <3>3 DEF Promise!Cut, Total
      <4> QED BY <4>1 DEF Promise!PromiseNext
    <3> QED BY <3>2, <3>3
  <2> QED BY <2>2, <2>3
<1>8. CASE AckCheck
  <2>1. ack.pc = "check" /\ UNCHANGED <<par, reply>> /\ outcome = "none"
    BY <1>8, Integrity DEF AckCheck, parentvars, Integrity, Phases
  <2>2. CASE Reject
    <3>1. Promise!Discard
      BY <2>1, <2>2 DEF Reject, Promise!Discard, Total
    <3> QED BY <3>1 DEF Promise!PromiseNext
  <2>3. CASE ~Reject
    <3>1. outcome' = "accepted" /\ UNCHANGED written
      BY <1>8, <2>3 DEF AckCheck
    <3>2. par.size = Total => {b \in Blocks : Length[b] > 0} \subseteq written
      BY <2>1, <3>1, Integrity' DEF Integrity, AcceptedIsWhole, Total
    <3>3. Promise!Accept
      BY <2>1, <3>1, <3>2 DEF Promise!Accept, Total
    <3> QED BY <3>3 DEF Promise!PromiseNext
  <2> QED BY <2>2, <2>3
<1>9. \/ UNCHANGED <<written, par, outcome, reply>>
      \/ \E b \in Blocks, t \in Attempts : BlockReceive(b, t)
      \/ PollSlot \/ PollLeave \/ PollAgain \/ ParentEnd \/ AckStat \/ AckCheck
  BY [Next]_vars
     DEF Next, ChildStep, BlockStep, ParentStep, AckStep, vars, parentvars, ackvars,
         servervars, ChildInit, ChildConnect, ChildHello, ChildNoServer, ChildSend,
         ChildSent, ChildOk, ChildLost, Drop, Kill, BlockInit, BlockSize, BlockSum,
         BlockDie, AckStart, AckSlot, AckRelease, AckDie
<1> QED BY <1>1, <1>2, <1>3, <1>4, <1>5, <1>6, <1>7, <1>8, <1>9

(* The parallel transfer implements the promise of an upload in blocks, for*)
(* any number of blocks, attempts, lengths and failures.                   *)
THEOREM ParallelKeepsPromise == Spec => KeepsPromise
<1>1. Init => Promise!PromiseInit /\ Untold
  BY DEF Init, Promise!PromiseInit, Untold
<1>2. Integrity /\ Untold /\ [Next]_vars => Untold'
  BY UntoldStep
<1>3. Integrity /\ Integrity' /\ Untold /\ [Next]_vars
        => [Promise!PromiseNext]_(Promise!promised)
  BY PromiseStep
<1> QED BY Inductive, <1>1, <1>2, <1>3, PTL DEF Spec, KeepsPromise, Promise!PromiseSpec

-----------------------------------------------------------------------------
(* Induction over an initial piece of the natural numbers, for a set.      *)
LEMMA Least == ASSUME NEW T \in SUBSET Nat, T # {} PROVE \E x \in T : \A y \in T : x <= y
<1>1. PICK x \in T : \A y \in T : ~ (<<y, x>> \in OpToRel(<, Nat))
  BY NatLessThanWellFounded, WFMin
<1>2. \A y \in T : y \in Nat /\ (<<y, x>> \in OpToRel(<, Nat) <=> y < x)
  BY DEF OpToRel
<1>3. \A y \in T : ~(y < x)  BY <1>1, <1>2
<1> QED BY <1>3

LEMMA UpTo ==
  ASSUME NEW n \in Nat, NEW T, 0 \in T, \A i \in 0 .. n - 1 : i \in T => i + 1 \in T
  PROVE  0 .. n \subseteq T
<1> DEFINE M == (0 .. n) \ T
<1> SUFFICES ASSUME M # {} PROVE FALSE  OBVIOUS
<1>1. PICK x \in M : \A y \in M : x <= y
  <2>1. M \in SUBSET Nat  OBVIOUS
  <2> HIDE DEF M
  <2> QED BY <2>1, Least
<1>2. x \in Nat /\ x <= n /\ x # 0 /\ x \notin T  OBVIOUS
<1>3. x - 1 \in 0 .. n - 1 /\ x - 1 \in T  BY <1>1, <1>2
<1> QED BY <1>2, <1>3

(* The theorem about a transfer that nothing disturbs is for files that no *)
(* block of which ends with a report of progress (see the run early_ack).  *)
Unaligned == \A b \in Blocks : Length[b] > 0 => Length[b] % Report # 0

(* The checksum of the first k blocks, for every k.                        *)
AreSums(f, n) ==
    /\ f \in [0 .. n -> Nat] /\ f[0] = 0
    /\ \A b \in 0 .. n - 1 : f[b + 1] = f[b] + Checksum(b, Length[b])

Sums == CHOOSE f : AreSums(f, N)

(* The blocks that the server has counted in full.                         *)
Counted(b) == Length[b] = 0 \/ spc[b][1] = "done"

(* A block while nothing fails: one attempt, a server child that keeps step*)
(* with it and counts it in the file and in its slot, and a slot of the    *)
(* client that says "all" only after the server has counted.               *)
InStep(b) ==
    /\ ~down[b] /\ cpc[b] # "dead" /\ try[b] = 1
    /\ \A t \in Attempts : t # 1 => spc[b][t] = "none"
    /\ spc[b][1] # "gone"
    /\ cpc[b] \in {"init", "connect"} => spc[b][1] = "none"
    /\ cpc[b] = "hello" => spc[b][1] \in {"start", "receive"}
    /\ cpc[b] = "send" => spc[b][1] = "receive"
    /\ cpc[b] = "wait" => spc[b][1] \in {"full", "size", "sum", "done"}
    /\ cpc[b] = "end" => spc[b][1] = "done"

(* What the server's table and the file say of a block.                    *)
OnServer(b) ==
    /\ spc[b][1] \in {"size", "sum", "done"} => b \in written
    /\ spc[b][1] \in {"sum", "done"} => sslot[b].size = Length[b]
    /\ spc[b][1] = "done" => sslot[b].sum = Checksum(b, Length[b])
    /\ Length[b] = 0 => sslot[b].size = 0 /\ sslot[b].sum = 0

(* What the client's table says of a block.                                *)
OnClient(b) ==
    /\ sent[b] <= Length[b] /\ (cpc[b] \in {"wait", "end"} => sent[b] = Length[b])
    /\ cslot[b].size <= sent[b] /\ cslot[b].sum = Checksum(b, cslot[b].size)
    /\ cslot[b].fin => cpc[b] = "end" /\ cslot[b].size = Length[b]
    /\ cpc[b] # "end" => cslot[b].size % Report = 0

(* The two passes over the tables: every block met in full, or every byte. *)
Tally ==
    /\ par.fin <= par.k /\ par.size <= Off[par.k]
    /\ par.fin = par.k => par.size = Off[par.k]
    /\ par.size = Off[par.k] => /\ par.sum = Sums[par.k]
                                /\ \A b \in Blocks : b < par.k => Counted(b)
    /\ par.pc = "ack" \/ ack.pc # "none" => par.k = N /\ par.size = Total
    /\ ack.pc # "end" => ack.size = Off[ack.k] /\ ack.sum = Sums[ack.k]
    /\ ack.pc \in {"stat", "check"} => ack.k = N
    /\ outcome # "rejected"

-----------------------------------------------------------------------------
(* The sums are well defined.                                              *)
LEMMA SumsExist == AreSums(Sums, N)
<1> DEFINE T == {n \in 0 .. N : \E f : AreSums(f, n)}
<1>1. 0 \in T
  <2> DEFINE f == [k \in {0} |-> 0]
  <2>1. 0 .. 0 = {0} /\ 0 .. 0 - 1 = {}  OBVIOUS
  <2>2. f \in [{0} -> Nat] /\ f[0] = 0  OBVIOUS
  <2> HIDE DEF f
  <2>3. AreSums(f, 0)  BY <2>1, <2>2 DEF AreSums
  <2> QED BY <2>3, Bounds
<1>2. \A n \in 0 .. N - 1 : n \in T => n + 1 \in T
  <2> SUFFICES ASSUME NEW n \in 0 .. N - 1, n \in T PROVE \E f : AreSums(f, n + 1)
    BY Bounds
  <2>1. PICK f : AreSums(f, n)  OBVIOUS
  <2> DEFINE s == f[n] + Checksum(n, Length[n])
             g == [k \in 0 .. n + 1 |-> IF k = n + 1 THEN s ELSE f[k]]
  <2>2. n \in Nat /\ n \in Blocks /\ n \in 0 .. n  BY Bounds DEF Blocks
  <2>3. s \in Nat
    <3>1. f[n] \in Nat  BY <2>1, <2>2 DEF AreSums
    <3>2. Checksum(n, Length[n]) \in Nat  BY <2>2, ChecksumType, ParallelAssumption
    <3> QED BY <3>1, <3>2
  <2> HIDE DEF s
  <2>4. \A k \in 0 .. n + 1 : k = n + 1 \/ k \in 0 .. n  BY <2>2
  <2>5. /\ g \in [0 .. n + 1 -> Nat] /\ g[n + 1] = s
        /\ \A k \in 0 .. n : g[k] = f[k]
    BY <2>1, <2>2, <2>3, <2>4 DEF AreSums
  <2> HIDE DEF g
  <2>6. \A b \in 0 .. n - 1 : b \in 0 .. n /\ b + 1 \in 0 .. n  BY <2>2
  <2>7. \A b \in 0 .. (n + 1) - 1 : b = n \/ b \in 0 .. n - 1  BY <2>2
  <2>8. 0 \in 0 .. n  BY <2>2
  <2>9. \A b \in 0 .. n - 1 : g[b + 1] = g[b] + Checksum(b, Length[b])
    BY <2>1, <2>5, <2>6 DEF AreSums
  <2>10. g[n + 1] = g[n] + Checksum(n, Length[n])  BY <2>2, <2>5 DEF s
  <2>11. g[0] = 0  BY <2>1, <2>5, <2>8 DEF AreSums
  <2> QED BY <2>5, <2>7, <2>9, <2>10, <2>11 DEF AreSums
<1>3. N \in T
  <2> HIDE DEF T
  <2>1. 0 .. N \subseteq T  BY <1>1, <1>2, Bounds, UpTo
  <2> QED BY <2>1, Bounds
<1>4. \E f : AreSums(f, N)  BY <1>3
<1> QED BY <1>4 DEF Sums

(* Each sum adds a block to the one before.                                *)
LEMMA SumsNext ==
    /\ Sums[0] = 0 /\ \A k \in 0 .. N : Sums[k] \in Nat
    /\ \A b \in Blocks : Sums[b + 1] = Sums[b] + Checksum(b, Length[b])
BY SumsExist, Bounds DEF AreSums, Blocks

(* Blocks without data do not move the offset.                             *)
LEMMA EmptyTail ==
    ASSUME NEW k \in 0 .. N, \A b \in Blocks : b >= k => Length[b] = 0
    PROVE  Off[k] = Off[N]
<1> DEFINE T == {i \in 0 .. N : i < k \/ Off[i] = Off[k]}
<1>1. 0 \in T  BY Bounds
<1>2. \A i \in 0 .. N - 1 : i \in T => i + 1 \in T
  <2> SUFFICES ASSUME NEW i \in 0 .. N - 1, i \in T PROVE i + 1 \in T  OBVIOUS
  <2>1. /\ i \in Blocks /\ i \in Nat /\ k \in Nat /\ i + 1 \in 0 .. N
        /\ Off[i + 1] = Off[i] + Length[i] /\ Off[i] \in Nat
    BY Bounds, ParallelAssumption DEF Blocks
  <2>2. CASE i + 1 <= k  BY <2>1, <2>2
  <2>3. CASE ~(i + 1 <= k)
    <3>1. i >= k /\ Off[i] = Off[k]  BY <2>1, <2>3
    <3>2. Length[i] = 0  BY <2>1, <3>1
    <3> QED BY <2>1, <3>1, <3>2
  <2> QED BY <2>2, <2>3
<1>3. N \in T
  <2> HIDE DEF T
  <2>1. 0 .. N \subseteq T  BY <1>1, <1>2, Bounds, UpTo
  <2> QED BY <2>1, Bounds
<1> QED BY <1>3, Bounds

(* A file with every block in it is as long as it should be.               *)
LEMMA WholeFileIsLong ==
    ASSUME written \subseteq Blocks, \A b \in Blocks : Held(b)
    PROVE  FileSize = Total
<1>1. CASE written = {}
  <2>1. \A b \in Blocks : Length[b] = 0
    BY <1>1, ParallelAssumption DEF Held
  <2>2. Off[0] = Off[N]  BY <2>1, Bounds, EmptyTail
  <2> QED BY <1>1, <2>2, ParallelAssumption DEF FileSize, Total
<1>2. CASE written # {}
  <2> DEFINE last == CHOOSE b \in written : \A c \in written : c <= b
  <2>1. \E b \in written : \A c \in written : c <= b
    <3> DEFINE D == {N - 1 - b : b \in written}
    <3>1. D \in SUBSET Nat /\ D # {}
      <4>1. \A b \in written : N - 1 - b \in Nat  BY Bounds, BlocksAre
      <4> QED BY <1>2, <4>1
    <3>2. PICK x \in D : \A y \in D : x <= y
      <4> HIDE DEF D
      <4> QED BY <3>1, Least
    <3>3. PICK b \in written : x = N - 1 - b  OBVIOUS
    <3>4. ASSUME NEW c \in written PROVE c <= b
      <4>1. x <= N - 1 - c  BY <3>2
      <4>2. c \in Nat /\ b \in Nat /\ N \in Nat  BY Bounds, BlocksAre
      <4> QED BY <3>3, <4>1, <4>2
    <3> QED BY <3>4
  <2>2. last \in written /\ \A c \in written : c <= last  BY <2>1
  <2> HIDE DEF last
  <2>3. last \in Nat /\ last + 1 \in 0 .. N  BY <2>2, BlocksAre
  <2>4. ASSUME NEW b \in Blocks, b >= last + 1 PROVE Length[b] = 0
    <3>1. b \in Nat  BY BlocksAre
    <3>2. b \notin written  BY <2>2, <2>3, <2>4, <3>1
    <3> QED BY <3>2, ParallelAssumption DEF Held
  <2>5. Off[last + 1] = Off[N]  BY <2>3, <2>4, EmptyTail
  <2>6. FileSize = Off[last + 1]  BY <1>2 DEF FileSize, last
  <2> QED BY <2>5, <2>6 DEF Total
<1> QED BY <1>1, <1>2
-----------------------------------------------------------------------------
(* What a step does to one entry of a table, field by field.               *)
SlotIs(b, size, sum, fin) ==
    \A c \in Blocks : /\ cslot'[c].size = IF c = b THEN size ELSE cslot[c].size
                      /\ cslot'[c].sum = IF c = b THEN sum ELSE cslot[c].sum
                      /\ cslot'[c].fin <=> IF c = b THEN fin ELSE cslot[c].fin

LEMMA SlotDoes ==
    ASSUME TypeOK, NEW b \in Blocks, NEW size, NEW sum, NEW fin \in BOOLEAN,
           Slot(b, size, sum, fin)
    PROVE  SlotIs(b, size, sum, fin)
BY DEF Slot, TypeOK, SlotIs

LEMMA FinishDoes ==
    ASSUME TypeOK, NEW b \in Blocks, Finish(b)
    PROVE  SlotIs(b, cslot[b].size, cslot[b].sum, TRUE)
<1>1. cslot \in [Blocks -> [size : Nat, sum : Nat, fin : BOOLEAN]]  BY DEF TypeOK
<1> DEFINE v == [cslot[b] EXCEPT !.fin = TRUE]
<1>2. v.size = cslot[b].size /\ v.sum = cslot[b].sum /\ v.fin = TRUE  BY <1>1
<1>3. cslot' = [cslot EXCEPT ![b] = v]  BY <1>1 DEF Finish
<1> HIDE DEF v
<1> QED BY <1>1, <1>2, <1>3 DEF SlotIs

ServerIs(b, t, l) ==
    \A c \in Blocks, u \in Attempts :
      spc'[c][u] = IF c = b /\ u = t THEN l ELSE spc[c][u]

LEMMA ServerGoes ==
    ASSUME TypeOK, NEW b \in Blocks, NEW t \in Attempts, NEW l,
           spc' = [spc EXCEPT ![b][t] = l]
    PROVE  ServerIs(b, t, l)
<1>1. spc' = [spc EXCEPT ![b] = [spc[b] EXCEPT ![t] = l]]  BY DEF TypeOK
<1>2. \A c \in Blocks : c \in DOMAIN spc /\ DOMAIN spc[c] = Attempts  BY DEF TypeOK
<1>3. \A c \in Blocks : c # b => spc'[c] = spc[c]  BY <1>1, <1>2
<1>4. spc'[b] = [spc[b] EXCEPT ![t] = l]  BY <1>1, <1>2
<1>5. \A u \in Attempts : spc'[b][u] = IF u = t THEN l ELSE spc[b][u]  BY <1>2, <1>4
<1> QED BY <1>3, <1>5 DEF ServerIs

ClientIs(b, l) == \A c \in Blocks : cpc'[c] = IF c = b THEN l ELSE cpc[c]

LEMMA ClientGoes ==
    ASSUME TypeOK, NEW b \in Blocks, NEW l, cpc' = [cpc EXCEPT ![b] = l]
    PROVE  ClientIs(b, l)
BY DEF TypeOK, ClientIs

(* The server's slot of a block, field by field.                           *)
CountIs(b, size, sum) ==
    \A c \in Blocks : /\ sslot'[c].size = IF c = b THEN size ELSE sslot[c].size
                      /\ sslot'[c].sum = IF c = b THEN sum ELSE sslot[c].sum

LEMMA CountDoes ==
    ASSUME TypeOK, NEW b \in Blocks, NEW v
    PROVE  /\ sslot' = [sslot EXCEPT ![b].size = v] => CountIs(b, v, sslot[b].sum)
           /\ sslot' = [sslot EXCEPT ![b].sum = v] => CountIs(b, sslot[b].size, v)
<1>1. sslot \in [Blocks -> [size : Nat, sum : Nat]]  BY DEF TypeOK
<1> DEFINE s == [sslot[b] EXCEPT !.size = v]
           m == [sslot[b] EXCEPT !.sum = v]
<1>2. /\ s.size = v /\ s.sum = sslot[b].sum
      /\ m.size = sslot[b].size /\ m.sum = v
  BY <1>1
<1>3. /\ sslot' = [sslot EXCEPT ![b].size = v] => sslot' = [sslot EXCEPT ![b] = s]
      /\ sslot' = [sslot EXCEPT ![b].sum = v] => sslot' = [sslot EXCEPT ![b] = m]
  BY <1>1
<1> HIDE DEF s, m
<1> QED BY <1>1, <1>2, <1>3 DEF CountIs
-----------------------------------------------------------------------------
Clean == (\A b \in Blocks : InStep(b) /\ OnServer(b) /\ OnClient(b)) /\ Tally

(* The types that the arithmetic below needs, one by one.                  *)
LEMMA CleanNumbers ==
    ASSUME TypeOK
    PROVE  /\ \A b \in Blocks :
                /\ Length[b] \in Nat /\ sent[b] \in Nat /\ cslot[b].size \in Nat
                /\ cslot[b].sum \in Nat /\ cslot[b].fin \in BOOLEAN
                /\ down[b] \in BOOLEAN
                /\ sslot[b].size \in Nat /\ sslot[b].sum \in Nat
           /\ par.k \in 0 .. N /\ par.fin \in Nat /\ par.size \in Nat /\ par.sum \in Nat
           /\ ack.k \in 0 .. N /\ ack.size \in Nat /\ ack.sum \in Nat
           /\ faults \in Nat /\ Report \in Nat \ {0} /\ 1 \in Attempts /\ 1 \in Nat
           /\ \A t \in Attempts : t \in Nat /\ t >= 1
           /\ Off[0] = 0 /\ \A k \in 0 .. N : Off[k] \in Nat
<1>1. ASSUME NEW b \in Blocks
      PROVE  /\ sent[b] \in Nat /\ cslot[b].size \in Nat
             /\ cslot[b].sum \in Nat /\ cslot[b].fin \in BOOLEAN /\ down[b] \in BOOLEAN
             /\ sslot[b].size \in Nat /\ sslot[b].sum \in Nat
  BY DEF TypeOK
<1>2. /\ par.k \in 0 .. N /\ par.fin \in Nat /\ par.size \in Nat /\ par.sum \in Nat
      /\ ack.k \in 0 .. N /\ ack.size \in Nat /\ ack.sum \in Nat /\ faults \in Nat
  BY DEF TypeOK
<1>3. Report \in Nat \ {0} /\ 1 \in Attempts /\ \A t \in Attempts : t \in Nat /\ t >= 1
  BY ParallelAssumption, Bounds DEF Attempts
<1>4. /\ Off[0] = 0 /\ \A k \in 0 .. N : Off[k] \in Nat
      /\ \A b \in Blocks : Length[b] \in Nat
  BY ParallelAssumption
<1> QED BY <1>1, <1>2, <1>3, <1>4

LEMMA NoChecksum == \A b \in Blocks : Checksum(b, 0) = 0
<1>1. \A b \in Blocks : Weight[b] \in Nat  BY ParallelAssumption
<1> QED BY <1>1 DEF Checksum

(* The passes look at nothing but what was counted.                        *)
LEMMA TallyKept ==
    ASSUME Tally, UNCHANGED <<par, ack, outcome>>,
           \A b \in Blocks : Counted(b) => Counted(b)'
    PROVE  Tally'
BY DEF Tally

(* Nothing that concerns block c moves back.                               *)
Same(c) ==
    /\ cpc'[c] = cpc[c] /\ try'[c] = try[c] /\ sent'[c] = sent[c] /\ (down'[c] <=> down[c])
    /\ cslot'[c].size = cslot[c].size /\ cslot'[c].sum = cslot[c].sum
    /\ cslot'[c].fin <=> cslot[c].fin
    /\ \A u \in Attempts : spc'[c][u] = spc[c][u]
    /\ sslot'[c].size = sslot[c].size /\ sslot'[c].sum = sslot[c].sum
    /\ c \in written => c \in written'

Fine(c) == InStep(c) /\ OnServer(c) /\ OnClient(c)

LEMMA SameFine ==
    ASSUME TypeOK, NEW c \in Blocks, Same(c), Fine(c)
    PROVE  Fine(c)' /\ (Counted(c) => Counted(c)')
<1>1. 1 \in Attempts  BY CleanNumbers
<1>2. InStep(c)'  BY <1>1 DEF Same, Fine, InStep
<1>3. OnServer(c)'  BY <1>1 DEF Same, Fine, OnServer
<1>4. OnClient(c)'  BY DEF Same, Fine, OnClient
<1>5. Counted(c) => Counted(c)'  BY <1>1 DEF Same, Counted
<1> QED BY <1>2, <1>3, <1>4, <1>5 DEF Fine

(* A step that concerns block b only.                                      *)
LEMMA OneBlockMoves ==
    ASSUME TypeOK, Clean, NEW b \in Blocks, \A c \in Blocks : c # b => Same(c),
           Fine(b)', Counted(b) => Counted(b)', UNCHANGED <<par, ack, outcome>>
    PROVE  Clean'
<1>1. ASSUME NEW c \in Blocks PROVE Fine(c)' /\ (Counted(c) => Counted(c)')
  <2>1. Fine(c)  BY DEF Clean, Fine
  <2>2. CASE c = b  BY <2>2
  <2>3. CASE c # b  BY <2>1, <2>3, SameFine
  <2> QED BY <2>2, <2>3
<1>2. Tally'  BY <1>1, TallyKept DEF Clean
<1> QED BY <1>1, <1>2 DEF Clean, Fine

(* The parent meets the next slot.                                         *)
LEMMA PollCounts ==
    ASSUME Unaligned, TypeOK, Clean, PollSlot PROVE Tally'
<1> DEFINE b == par.k
<1>0. b \in 0 .. N /\ b < N  BY CleanNumbers DEF PollSlot
<1>1. /\ b \in Blocks /\ b \in Nat /\ Off[b + 1] = Off[b] + Length[b]
      /\ Off[b] \in Nat /\ Length[b] \in Nat
  BY <1>0, Loop
<1>2. /\ par'.pc = "poll" /\ par.pc = "poll" /\ par'.k = b + 1
      /\ par'.fin = par.fin + IF cslot[b].fin THEN 1 ELSE 0
      /\ par'.size = par.size + cslot[b].size /\ par'.sum = par.sum + cslot[b].sum
      /\ UNCHANGED <<spc, ack, outcome>>
  BY DEF PollSlot, TypeOK, servervars, ackvars
<1>3. /\ par.fin \in Nat /\ par.size \in Nat /\ par.sum \in Nat
      /\ cslot[b].size \in Nat /\ cslot[b].sum \in Nat /\ cslot[b].fin \in BOOLEAN
      /\ sent[b] \in Nat /\ Sums[b] \in Nat
  BY <1>0, <1>1, CleanNumbers, SumsNext
<1>4. Sums[b + 1] = Sums[b] + Checksum(b, Length[b])  BY <1>1, SumsNext
<1>5. /\ par.fin <= b /\ par.size <= Off[b] /\ (par.fin = b => par.size = Off[b])
      /\ par.size = Off[b] => /\ par.sum = Sums[b]
                              /\ \A c \in Blocks : c < b => Counted(c)
      /\ par.pc = "ack" \/ ack.pc # "none" => par.k = N /\ par.size = Total
  BY DEF Clean, Tally
<1>6. /\ cslot[b].size <= Length[b] /\ cslot[b].sum = Checksum(b, cslot[b].size)
      /\ cslot[b].fin => cslot[b].size = Length[b]
  BY <1>1, <1>3 DEF Clean, OnClient
<1>7. cslot[b].size = Length[b] => Counted(b)
  <2> SUFFICES ASSUME cslot[b].size = Length[b], Length[b] # 0 PROVE spc[b][1] = "done"
    BY DEF Counted
  <2>1. Length[b] % Report # 0  BY <1>1 DEF Unaligned
  <2>2. cpc[b] = "end"  BY <1>1, <2>1 DEF Clean, OnClient
  <2> QED BY <1>1, <2>2 DEF Clean, InStep
<1>8. ack.pc = "none"  BY <1>0, <1>5
<1>9. \A c \in Blocks : c < b + 1 => c < b \/ c = b
  <2>1. \A c \in Nat : c < b + 1 => c < b \/ c = b  BY <1>1
  <2> QED BY <2>1, BlocksAre
<1>10. ack.pc # "end" => ack.size = Off[ack.k] /\ ack.sum = Sums[ack.k]  BY DEF Clean, Tally
<1>11. outcome # "rejected"  BY DEF Clean, Tally
<1>12. \A c \in Blocks : Counted(c)' <=> Counted(c)  BY <1>2 DEF Counted
<1> HIDE DEF b
<1>13. par'.fin <= par'.k /\ par'.size <= Off[par'.k]
  <2>1. par'.fin <= b + 1  BY <1>1, <1>2, <1>3, <1>5
  <2>2. par'.size <= Off[b] + Length[b]  BY <1>1, <1>2, <1>3, <1>5, <1>6
  <2> QED BY <1>1, <1>2, <2>1, <2>2
<1>14. par'.fin = par'.k => par'.size = Off[par'.k]
  <2>1. CASE cslot[b].fin
    <3>1. par'.fin = par.fin + 1 /\ par'.k = b + 1  BY <1>2, <2>1
    <3>2. par'.fin = par'.k => par.fin = b  BY <1>1, <1>3, <3>1
    <3>3. cslot[b].size = Length[b]  BY <1>6, <2>1
    <3>4. par.size = Off[b] => par'.size = Off[par'.k]  BY <1>1, <1>2, <3>3
    <3> QED BY <1>5, <3>2, <3>4
  <2>2. CASE ~cslot[b].fin
    <3>1. par'.fin = par.fin  BY <1>2, <1>3, <2>2
    <3> QED BY <1>1, <1>2, <1>3, <1>5, <3>1
  <2> QED BY <2>1, <2>2
<1>15. par'.size = Off[par'.k] => par.size = Off[b] /\ cslot[b].size = Length[b]
  BY <1>1, <1>2, <1>3, <1>5, <1>6
<1>16. par'.size = Off[par'.k] => /\ par'.sum = Sums[par'.k]
                                  /\ \A c \in Blocks : c < par'.k => Counted(c)'
  BY <1>2, <1>4, <1>5, <1>6, <1>7, <1>9, <1>12, <1>15
<1> QED BY <1>2, <1>8, <1>10, <1>11, <1>13, <1>14, <1>16 DEF Tally

(* A pass ends; put_ack is called only when it met everything.             *)
LEMMA PassesEnd ==
    ASSUME TypeOK, Phases, Clean, PollLeave \/ PollAgain \/ ParentEnd PROVE Tally'
<1>0. Tally /\ \A c \in Blocks : Counted(c)' <=> Counted(c)
  BY DEF Clean, Counted, PollLeave, PollAgain, ParentEnd, servervars
<1>1. CASE PollLeave
  <2>1. /\ par.k = N /\ (par.fin >= N \/ par.size >= Total)
        /\ par'.pc = "ack" /\ par'.k = par.k /\ par'.fin = par.fin
        /\ par'.size = par.size /\ par'.sum = par.sum /\ UNCHANGED <<ack, outcome>>
    BY <1>1 DEF PollLeave, AllSent, TypeOK, ackvars
  <2>2. par.fin \in Nat /\ par.size \in Nat /\ N \in Nat /\ Total \in Nat
    BY CleanNumbers, Bounds DEF Total
  <2>3. par.size = Total  BY <1>0, <2>1, <2>2 DEF Tally, Total
  <2> QED BY <1>0, <2>1, <2>3 DEF Tally
<1>2. CASE PollAgain
  <2>1. /\ par'.pc \in {"poll", "end"} /\ par'.k = 0 /\ par'.fin = 0 /\ par'.size = 0
        /\ par'.sum = 0 /\ par.pc = "poll" /\ UNCHANGED <<ack, outcome>>
    BY <1>2 DEF PollAgain
  <2>2. ack.pc = "none"  BY <2>1 DEF Phases
  <2>3. Off[0] = 0 /\ Sums[0] = 0 /\ \A c \in Blocks : ~(c < 0)
    BY CleanNumbers, SumsNext, BlocksAre
  <2> QED BY <1>0, <2>1, <2>2, <2>3 DEF Tally
<1>3. CASE ParentEnd
  <2>1. /\ par'.pc = "end" /\ par'.k = par.k /\ par'.fin = par.fin
        /\ par'.size = par.size /\ par'.sum = par.sum /\ par.pc = "ack"
        /\ UNCHANGED <<ack, outcome>>
    BY <1>3 DEF ParentEnd, TypeOK
  <2> QED BY <1>0, <2>1 DEF Tally
<1> QED BY <1>1, <1>2, <1>3

(* put_ack adds up slots that the server has counted in full.              *)
LEMMA AckCounts ==
    ASSUME TypeOK, Phases, Clean, AckStart \/ AckSlot \/ AckRelease PROVE Tally'
<1>0. Tally /\ \A c \in Blocks : Counted(c)' <=> Counted(c)
  BY DEF Clean, Counted, AckStart, AckSlot, AckRelease, servervars
<1>1. UNCHANGED <<par, outcome>>  BY DEF AckStart, AckSlot, AckRelease, parentvars
<1>2. CASE AckStart \/ AckRelease
  <2>1. /\ ack'.pc = "read" \/ (ack'.pc = "stat" /\ ack.k = N /\ ack.pc = "read")
        /\ ack.pc # "end" /\ (ack.pc # "none" \/ par.pc = "ack")
        /\ ack'.k = ack.k /\ ack'.size = ack.size /\ ack'.sum = ack.sum
    BY <1>2 DEF AckStart, AckRelease, TypeOK
  <2> QED BY <1>0, <1>1, <2>1 DEF Tally
<1>3. CASE AckSlot
  <2> DEFINE b == ack.k
  <2>1. b \in 0 .. N /\ b < N  BY <1>3, CleanNumbers DEF AckSlot
  <2>2. /\ b \in Blocks /\ b \in Nat /\ Off[b + 1] = Off[b] + Length[b]
        /\ Sums[b + 1] = Sums[b] + Checksum(b, Length[b])
    BY <2>1, Loop, SumsNext
  <2>3. /\ ack'.pc = "read" /\ ack.pc = "read" /\ ack'.k = b + 1
        /\ ack'.size = ack.size + sslot[b].size /\ ack'.sum = ack.sum + sslot[b].sum
    BY <1>3 DEF AckSlot, TypeOK
  <2>4. par.k = N /\ par.size = Off[N]  BY <1>0, <2>3 DEF Tally, Total
  <2>5. Counted(b)  BY <1>0, <2>1, <2>2, <2>4 DEF Tally
  <2>6. sslot[b].size = Length[b] /\ sslot[b].sum = Checksum(b, Length[b])
    <3>1. OnServer(b)  BY <2>2 DEF Clean
    <3>2. CASE Length[b] = 0  BY <2>2, <3>1, <3>2, NoChecksum DEF OnServer
    <3>3. CASE spc[b][1] = "done"  BY <3>1, <3>3 DEF OnServer
    <3> QED BY <2>5, <3>2, <3>3 DEF Counted
  <2>7. ack.size = Off[b] /\ ack.sum = Sums[b]  BY <1>0, <2>3 DEF Tally
  <2> HIDE DEF b
  <2>8. ack'.size = Off[ack'.k] /\ ack'.sum = Sums[ack'.k]  BY <2>2, <2>3, <2>6, <2>7
  <2> QED BY <1>0, <1>1, <2>3, <2>8 DEF Tally
<1> QED BY <1>2, <1>3

(* The file is as long as the client counted, and nothing is cut off.      *)
LEMMA StatKeeps ==
    ASSUME TypeOK, Clean, AckStat PROVE Tally' /\ written' = written
<1>0. Tally  BY DEF Clean
<1>1. ack.pc = "stat" /\ par.k = N /\ par.size = Total  BY <1>0 DEF AckStat, Tally
<1>2. \A b \in Blocks : Held(b)
  <2> SUFFICES ASSUME NEW b \in Blocks, Length[b] > 0 PROVE b \in written  BY DEF Held
  <2>1. Counted(b)  BY <1>0, <1>1, BlocksAre DEF Tally, Total
  <2>2. spc[b][1] = "done"  BY <2>1, ParallelAssumption DEF Counted
  <2> QED BY <2>2 DEF Clean, OnServer
<1>3. FileSize = Total  BY <1>2, WholeFileIsLong DEF TypeOK
<1>4. Total \in Nat /\ ~(Total < Total)  BY CleanNumbers, Bounds DEF Total
<1>5. written' = {b \in written : Off[b + 1] <= par.size} /\ UNCHANGED outcome
      /\ ack'.pc = "check" /\ ack'.k = ack.k /\ ack'.size = ack.size /\ ack'.sum = ack.sum
  BY <1>1, <1>3, <1>4 DEF AckStat, TypeOK
<1>6. \A b \in written : Off[b + 1] <= par.size
  BY <1>1, ParallelAssumption DEF TypeOK, Total
<1>7. written' = written  BY <1>5, <1>6
<1>8. UNCHANGED <<par, spc>>  BY DEF AckStat, parentvars
<1>9. \A c \in Blocks : Counted(c)' <=> Counted(c)  BY <1>8 DEF Counted
<1> QED BY <1>0, <1>1, <1>5, <1>7, <1>8, <1>9 DEF Tally

(* The two tables agree.                                                   *)
LEMMA CheckAccepts ==
    ASSUME TypeOK, Clean, AckCheck PROVE Tally' /\ written' = written
<1>0. Tally  BY DEF Clean
<1>1. ack.pc = "check" /\ par.k = N /\ par.size = Total  BY <1>0 DEF AckCheck, Tally
<1>2. par.sum = Sums[N]  BY <1>0, <1>1 DEF Tally, Total
<1>3. ack.k = N /\ ack.size = Total /\ ack.sum = Sums[N]  BY <1>0, <1>1 DEF Tally, Total
<1>4. outcome' = "accepted" /\ UNCHANGED written /\ ack'.pc = "end"
  BY <1>2, <1>3 DEF AckCheck, TypeOK
<1>5. UNCHANGED <<par, spc>>  BY DEF AckCheck, parentvars
<1>6. \A c \in Blocks : Counted(c)' <=> Counted(c)  BY <1>5 DEF Counted
<1> QED BY <1>0, <1>1, <1>4, <1>5, <1>6 DEF Tally
-----------------------------------------------------------------------------
(* No step that leaves the transfer undisturbed breaks it.                 *)
LEMMA CleanStep ==
    ASSUME Unaligned, Integrity, Clean, faults = 0, faults' = 0, TypeOK', [Next]_vars
    PROVE  Clean'
<1>t. TypeOK /\ Phases  BY DEF Integrity
<1>c. Tally /\ \A c \in Blocks : Fine(c)  BY DEF Clean, Fine
<1>f. faults = 0 /\ faults' = 0 /\ Clean /\ 1 \in Attempts /\ 1 \in Nat
      /\ Report \in Nat \ {0} /\ \A t \in Attempts : t >= 1
  BY <1>t, CleanNumbers
<1>n. \A b \in Blocks :
        /\ Length[b] \in Nat /\ sent[b] \in Nat /\ cslot[b].size \in Nat
        /\ cslot[b].sum \in Nat /\ cslot[b].fin \in BOOLEAN /\ down[b] \in BOOLEAN
        /\ sslot[b].size \in Nat /\ sslot[b].sum \in Nat
  BY <1>t, CleanNumbers
<1>1. ASSUME NEW b \in Blocks, ChildInit(b) PROVE Clean'
  <2>1. SlotIs(b, 0, 0, FALSE)  BY <1>1, <1>t, SlotDoes DEF ChildInit
  <2>2. ClientIs(b, "connect")  BY <1>1, <1>t, ClientGoes DEF ChildInit
  <2>3. /\ cpc[b] = "init" /\ sent'[b] = 0 /\ down'[b] = FALSE
        /\ \A c \in Blocks : c # b => sent'[c] = sent[c] /\ down'[c] = down[c]
        /\ UNCHANGED <<try, spc, sslot, written, par, ack, outcome>>
    BY <1>1, <1>t DEF ChildInit, servervars, parentvars, ackvars, TypeOK
  <2>4. \A c \in Blocks : c # b => Same(c)
    BY <2>1, <2>2, <2>3 DEF SlotIs, ClientIs, Same
  <2>5. Fine(b)'
    <3>1. InStep(b)'  BY <1>c, <2>2, <2>3 DEF Fine, InStep, ClientIs
    <3>2. OnServer(b)'  BY <1>c, <2>3 DEF Fine, OnServer
    <3>3. OnClient(b)'
      <4>1. 0 % Report = 0 /\ Checksum(b, 0) = 0 /\ 0 <= Length[b]
        BY <1>f, <1>n, NoChecksum
      <4> QED BY <2>1, <2>2, <2>3, <4>1 DEF SlotIs, ClientIs, OnClient
    <3> QED BY <3>1, <3>2, <3>3 DEF Fine
  <2> QED BY <1>t, <1>f, <2>3, <2>4, <2>5, OneBlockMoves DEF Counted
<1>2. ASSUME NEW b \in Blocks, ChildConnect(b) PROVE Clean'
  <2>1. ClientIs(b, "hello")  BY <1>2, <1>t, ClientGoes DEF ChildConnect
  <2>2. try[b] = 1  BY <1>c DEF Fine, InStep
  <2>3. ServerIs(b, 1, "start")
    BY <1>2, <1>t, <1>f, <2>2, ServerGoes DEF ChildConnect
  <2>4. /\ cpc[b] = "connect" /\ UNCHANGED <<try, sent, down, cslot, sslot, written, par, ack, outcome>>
    BY <1>2 DEF ChildConnect, parentvars, ackvars
  <2>5. \A c \in Blocks : c # b => Same(c)
    BY <2>1, <2>3, <2>4 DEF ServerIs, ClientIs, Same
  <2>6. Fine(b)'
    <3>1. InStep(b)'  BY <1>c, <1>f, <2>1, <2>3, <2>4 DEF Fine, InStep, ClientIs, ServerIs
    <3>2. OnServer(b)'  BY <1>c, <1>f, <2>3, <2>4 DEF Fine, OnServer, ServerIs
    <3>3. OnClient(b)'  BY <1>c, <2>1, <2>4 DEF Fine, OnClient, ClientIs
    <3> QED BY <3>1, <3>2, <3>3 DEF Fine
  <2>7. Counted(b) => Counted(b)'
    BY <1>c, <1>f, <2>3, <2>4 DEF Fine, InStep, Counted, ServerIs
  <2> QED BY <1>t, <1>f, <2>4, <2>5, <2>6, <2>7, OneBlockMoves
<1>3. ASSUME NEW b \in Blocks, ChildHello(b) PROVE Clean'
  <2>1. ClientIs(b, "send")  BY <1>3, <1>t, ClientGoes DEF ChildHello
  <2>2. /\ cpc[b] = "hello" /\ spc[b][try[b]] = "receive"
        /\ UNCHANGED <<try, sent, down, cslot, spc, sslot, written, par, ack, outcome>>
    BY <1>3 DEF ChildHello, servervars, parentvars, ackvars
  <2>3. \A c \in Blocks : c # b => Same(c)
    BY <2>1, <2>2 DEF ClientIs, Same
  <2>4. Fine(b)'
    <3>1. InStep(b)'  BY <1>c, <1>f, <2>1, <2>2 DEF Fine, InStep, ClientIs
    <3>2. OnServer(b)'  BY <1>c, <2>2 DEF Fine, OnServer
    <3>3. OnClient(b)'  BY <1>c, <2>1, <2>2 DEF Fine, OnClient, ClientIs
    <3> QED BY <3>1, <3>2, <3>3 DEF Fine
  <2> QED BY <1>t, <1>f, <2>2, <2>3, <2>4, OneBlockMoves DEF Counted
<1>4. ASSUME NEW b \in Blocks, ChildNoServer(b) PROVE Clean'
  BY <1>4, <1>c DEF ChildNoServer, Fine, InStep
<1>5. ASSUME NEW b \in Blocks, ChildSend(b) PROVE Clean'
  <2> DEFINE n == sent[b] + 1
  <2>1. /\ cpc[b] = "send" /\ sent[b] < Length[b] /\ sent'[b] = n
        /\ \A c \in Blocks : c # b => sent'[c] = sent[c]
        /\ UNCHANGED <<cpc, try, down, spc, sslot, written, par, ack, outcome>>
    BY <1>5, <1>t DEF ChildSend, servervars, parentvars, ackvars, TypeOK
  <2>2. n \in Nat /\ n <= Length[b] /\ sent[b] <= n  BY <1>n, <2>1
  <2>3. \/ n % Report = 0 /\ SlotIs(b, n, Checksum(b, n), FALSE)
        \/ cslot' = cslot
    <3>1. CASE n % Report = 0
      <4>1. Slot(b, n, Checksum(b, n), FALSE)  BY <1>5, <2>1, <3>1 DEF ChildSend
      <4> QED BY <1>t, <3>1, <4>1, SlotDoes
    <3>2. CASE n % Report # 0
      BY <1>5, <2>1, <3>2 DEF ChildSend
    <3> QED BY <3>1, <3>2
  <2> HIDE DEF n
  <2>4. \A c \in Blocks : c # b => Same(c)
    BY <2>1, <2>3 DEF SlotIs, Same
  <2>5. Fine(b)'
    <3>1. InStep(b)'  BY <1>c, <2>1 DEF Fine, InStep
    <3>2. OnServer(b)'  BY <1>c, <2>1 DEF Fine, OnServer
    <3>3. OnClient(b)'
      <4>1. /\ cslot[b].size <= sent[b] /\ cslot[b].sum = Checksum(b, cslot[b].size)
            /\ ~cslot[b].fin /\ cslot[b].size % Report = 0
        BY <1>c, <2>1 DEF Fine, OnClient
      <4>2. CASE n % Report = 0 /\ SlotIs(b, n, Checksum(b, n), FALSE)
        BY <2>1, <2>2, <4>2 DEF SlotIs, OnClient
      <4>3. CASE cslot' = cslot
        <5>1. cslot[b].size <= n  BY <1>n, <2>2, <4>1
        <5> QED BY <2>1, <2>2, <4>1, <4>3, <5>1 DEF OnClient
      <4> QED BY <2>3, <4>2, <4>3
    <3> QED BY <3>1, <3>2, <3>3 DEF Fine
  <2> QED BY <1>t, <1>f, <2>1, <2>4, <2>5, OneBlockMoves DEF Counted
<1>6. ASSUME NEW b \in Blocks, ChildSent(b) PROVE Clean'
  <2>1. ClientIs(b, "wait")  BY <1>6, <1>t, ClientGoes DEF ChildSent
  <2>2. try[b] = 1 /\ spc[b][1] = "receive"  BY <1>6, <1>c DEF ChildSent, Fine, InStep
  <2>3. ServerIs(b, 1, "full")
    <3>1. spc' = [spc EXCEPT ![b][1] = "full"]
      BY <1>6, <1>t, <1>f, <2>2 DEF ChildSent, TypeOK
    <3> QED BY <1>t, <1>f, <3>1, ServerGoes
  <2>4. /\ cpc[b] = "send" /\ sent[b] = Length[b]
        /\ UNCHANGED <<try, sent, down, cslot, sslot, written, par, ack, outcome>>
    BY <1>6 DEF ChildSent, parentvars, ackvars
  <2>5. \A c \in Blocks : c # b => Same(c)
    BY <2>1, <2>3, <2>4 DEF ServerIs, ClientIs, Same
  <2>6. Fine(b)'
    <3>1. InStep(b)'  BY <1>c, <1>f, <2>1, <2>3, <2>4 DEF Fine, InStep, ClientIs, ServerIs
    <3>2. OnServer(b)'  BY <1>c, <1>f, <2>3, <2>4 DEF Fine, OnServer, ServerIs
    <3>3. OnClient(b)'  BY <1>c, <2>1, <2>4 DEF Fine, OnClient, ClientIs
    <3> QED BY <3>1, <3>2, <3>3 DEF Fine
  <2>7. Counted(b) => Counted(b)'
    BY <1>f, <2>2, <2>3, <2>4 DEF Counted, ServerIs
  <2> QED BY <1>t, <1>f, <2>4, <2>5, <2>6, <2>7, OneBlockMoves
<1>7. ASSUME NEW b \in Blocks, ChildOk(b) PROVE Clean'
  <2>1. ClientIs(b, "end")  BY <1>7, <1>t, ClientGoes DEF ChildOk
  <2>2. /\ cpc[b] = "wait" /\ spc[b][try[b]] = "done"
        /\ UNCHANGED <<try, sent, down, spc, sslot, written, par, ack, outcome>>
    BY <1>7 DEF ChildOk, servervars, parentvars, ackvars
  <2>3. /\ try[b] = 1 /\ sent[b] = Length[b] /\ spc[b][1] = "done"
        /\ cslot[b].size <= sent[b] /\ cslot[b].sum = Checksum(b, cslot[b].size)
    BY <1>c, <2>2 DEF Fine, InStep, OnClient
  <2>4. SlotIs(b, Length[b], Checksum(b, Length[b]), TRUE)
    <3>1. CASE sent[b] % Report # 0
      <4>1. Slot(b, Length[b], Checksum(b, Length[b]), TRUE)
        BY <1>7, <2>3, <3>1 DEF ChildOk
      <4> QED BY <1>t, <4>1, SlotDoes
    <3>2. CASE sent[b] % Report = 0
      <4>1. Finish(b)  BY <1>7, <3>2 DEF ChildOk
      <4>2. Length[b] = 0
        <5>1. Length[b] > 0 => Length[b] % Report # 0  BY DEF Unaligned
        <5> QED BY <1>n, <2>3, <3>2, <5>1
      <4>3. cslot[b].size = Length[b]  BY <1>n, <2>3, <4>2
      <4> QED BY <1>t, <2>3, <4>1, <4>3, FinishDoes
    <3> QED BY <3>1, <3>2
  <2>5. \A c \in Blocks : c # b => Same(c)
    BY <2>1, <2>2, <2>4 DEF SlotIs, ClientIs, Same
  <2>6. Fine(b)'
    <3>1. InStep(b)'  BY <1>c, <1>f, <2>1, <2>2, <2>3 DEF Fine, InStep, ClientIs
    <3>2. OnServer(b)'  BY <1>c, <2>2 DEF Fine, OnServer
    <3>3. OnClient(b)'  BY <1>n, <2>1, <2>2, <2>3, <2>4 DEF OnClient, ClientIs, SlotIs
    <3> QED BY <3>1, <3>2, <3>3 DEF Fine
  <2> QED BY <1>t, <1>f, <2>2, <2>5, <2>6, OneBlockMoves DEF Counted
<1>8. ASSUME NEW b \in Blocks, ChildLost(b) PROVE Clean'
  BY <1>8, <1>c DEF ChildLost, Fine, InStep
<1>9. ASSUME NEW b \in Blocks, Drop(b) \/ Kill(b) PROVE Clean'
  BY <1>9, <1>f DEF Drop, Kill
<1>10. ASSUME NEW b \in Blocks, NEW t \in Attempts, BlockInit(b, t) PROVE Clean'
  <2>1. t = 1 /\ spc[b][1] = "start"
    BY <1>10, <1>c DEF BlockInit, Fine, InStep
  <2>2. ServerIs(b, 1, "receive")
    BY <1>10, <1>t, <2>1, ServerGoes DEF BlockInit, At
  <2>3. UNCHANGED <<cpc, try, sent, down, cslot, written, par, ack, outcome>>
    BY <1>10 DEF BlockInit, childvars, parentvars, ackvars
  <2>4. \/ sslot' = sslot
        \/ sslot' = [sslot EXCEPT ![b] = [size |-> 0, sum |-> 0]]
    BY <1>10 DEF BlockInit
  <2>5. /\ \A c \in Blocks : c # b => /\ sslot'[c].size = sslot[c].size
                                     /\ sslot'[c].sum = sslot[c].sum
        /\ (sslot'[b].size = 0 /\ sslot'[b].sum = 0) \/ sslot'[b] = sslot[b]
    BY <1>t, <2>4 DEF TypeOK
  <2>6. \A c \in Blocks : c # b => Same(c)
    BY <2>2, <2>3, <2>5 DEF ServerIs, Same
  <2>7. cpc[b] = "hello"
    <3>1. InStep(b)  BY <1>c DEF Fine
    <3>2. cpc[b] \in {"init", "connect", "hello", "send", "wait", "end", "dead"}
      BY <1>t DEF TypeOK
    <3> QED BY <2>1, <3>1, <3>2 DEF InStep
  <2>8. Fine(b)'
    <3>1. InStep(b)'  BY <1>c, <1>f, <2>2, <2>3, <2>7 DEF Fine, InStep, ServerIs
    <3>2. OnServer(b)'  BY <1>c, <1>f, <2>2, <2>3, <2>5 DEF Fine, OnServer, ServerIs
    <3>3. OnClient(b)'  BY <1>c, <2>3 DEF Fine, OnClient
    <3> QED BY <3>1, <3>2, <3>3 DEF Fine
  <2>9. Counted(b) => Counted(b)'  BY <2>1 DEF Counted
  <2> QED BY <1>t, <1>f, <2>3, <2>6, <2>8, <2>9, OneBlockMoves
<1>11. ASSUME NEW b \in Blocks, NEW t \in Attempts, BlockReceive(b, t) PROVE Clean'
  <2>1. t = 1 /\ spc[b][1] = "full"
    BY <1>11, <1>c DEF BlockReceive, Fine, InStep
  <2>2. ServerIs(b, 1, "size")
    BY <1>11, <1>t, <2>1, ServerGoes DEF BlockReceive, At
  <2>3. /\ UNCHANGED <<cpc, try, sent, down, cslot, sslot, par, ack, outcome>>
        /\ written' = written \cup {b}
    BY <1>11, <1>c DEF BlockReceive, childvars, parentvars, ackvars, Tally
  <2>4. \A c \in Blocks : c # b => Same(c)
    BY <2>2, <2>3 DEF ServerIs, Same
  <2>5. cpc[b] = "wait"
    <3>1. InStep(b)  BY <1>c DEF Fine
    <3>2. cpc[b] \in {"init", "connect", "hello", "send", "wait", "end", "dead"}
      BY <1>t DEF TypeOK
    <3> QED BY <2>1, <3>1, <3>2 DEF InStep
  <2>6. Fine(b)'
    <3>1. InStep(b)'  BY <1>c, <1>f, <2>2, <2>3, <2>5 DEF Fine, InStep, ServerIs
    <3>2. OnServer(b)'  BY <1>c, <1>f, <2>2, <2>3 DEF Fine, OnServer, ServerIs
    <3>3. OnClient(b)'  BY <1>c, <2>3 DEF Fine, OnClient
    <3> QED BY <3>1, <3>2, <3>3 DEF Fine
  <2>7. Counted(b) => Counted(b)'  BY <2>1 DEF Counted
  <2> QED BY <1>t, <1>f, <2>3, <2>4, <2>6, <2>7, OneBlockMoves
<1>12. ASSUME NEW b \in Blocks, NEW t \in Attempts, BlockSize(b, t) PROVE Clean'
  <2>1. t = 1 /\ spc[b][1] = "size"
    BY <1>12, <1>c DEF BlockSize, Fine, InStep
  <2>2. ServerIs(b, 1, "sum")
    BY <1>12, <1>t, <2>1, ServerGoes DEF BlockSize, At
  <2>3. UNCHANGED <<cpc, try, sent, down, cslot, written, par, ack, outcome>>
    BY <1>12 DEF BlockSize, childvars, parentvars, ackvars
  <2>4. CountIs(b, Length[b], sslot[b].sum)  BY <1>12, <1>t, CountDoes DEF BlockSize
  <2>5. \A c \in Blocks : c # b => Same(c)
    BY <2>2, <2>3, <2>4 DEF ServerIs, CountIs, Same
  <2>6. cpc[b] = "wait"
    <3>1. InStep(b)  BY <1>c DEF Fine
    <3>2. cpc[b] \in {"init", "connect", "hello", "send", "wait", "end", "dead"}
      BY <1>t DEF TypeOK
    <3> QED BY <2>1, <3>1, <3>2 DEF InStep
  <2>7. Fine(b)'
    <3>1. InStep(b)'  BY <1>c, <1>f, <2>2, <2>3, <2>6 DEF Fine, InStep, ServerIs
    <3>2. OnServer(b)'
      BY <1>c, <1>f, <2>1, <2>2, <2>3, <2>4 DEF Fine, OnServer, ServerIs, CountIs
    <3>3. OnClient(b)'  BY <1>c, <2>3 DEF Fine, OnClient
    <3> QED BY <3>1, <3>2, <3>3 DEF Fine
  <2>8. Counted(b) => Counted(b)'  BY <2>1 DEF Counted
  <2> QED BY <1>t, <1>f, <2>3, <2>5, <2>7, <2>8, OneBlockMoves
<1>13. ASSUME NEW b \in Blocks, NEW t \in Attempts, BlockSum(b, t) PROVE Clean'
  <2>1. t = 1 /\ spc[b][1] = "sum"
    BY <1>13, <1>c DEF BlockSum, Fine, InStep
  <2>2. ServerIs(b, 1, "done")
    BY <1>13, <1>t, <2>1, ServerGoes DEF BlockSum, At
  <2>3. UNCHANGED <<cpc, try, sent, down, cslot, written, par, ack, outcome>>
    BY <1>13 DEF BlockSum, childvars, parentvars, ackvars
  <2>4. CountIs(b, sslot[b].size, Checksum(b, Length[b]))
    BY <1>13, <1>t, CountDoes DEF BlockSum
  <2>5. \A c \in Blocks : c # b => Same(c)
    BY <2>2, <2>3, <2>4 DEF ServerIs, CountIs, Same
  <2>6. cpc[b] = "wait"
    <3>1. InStep(b)  BY <1>c DEF Fine
    <3>2. cpc[b] \in {"init", "connect", "hello", "send", "wait", "end", "dead"}
      BY <1>t DEF TypeOK
    <3> QED BY <2>1, <3>1, <3>2 DEF InStep
  <2>7. Fine(b)'
    <3>1. InStep(b)'  BY <1>c, <1>f, <2>2, <2>3, <2>6 DEF Fine, InStep, ServerIs
    <3>2. OnServer(b)'
      BY <1>c, <1>f, <2>1, <2>2, <2>3, <2>4, NoChecksum DEF Fine, OnServer, ServerIs, CountIs
    <3>3. OnClient(b)'  BY <1>c, <2>3 DEF Fine, OnClient
    <3> QED BY <3>1, <3>2, <3>3 DEF Fine
  <2>8. Counted(b) => Counted(b)'  BY <2>1 DEF Counted
  <2> QED BY <1>t, <1>f, <2>3, <2>5, <2>7, <2>8, OneBlockMoves
<1>14. ASSUME NEW b \in Blocks, NEW t \in Attempts, BlockDie(b, t) PROVE Clean'
  <2>1. t = 1 /\ ~down[b] /\ cpc[b] # "dead" /\ try[b] = 1 /\ outcome # "rejected"
    BY <1>14, <1>c DEF BlockDie, Fine, InStep, Tally
  <2> QED BY <1>14, <2>1 DEF BlockDie, Broken
<1>15. ASSUME PollSlot PROVE Clean'
  <2>1. UNCHANGED <<childvars, servervars, ack, outcome>>
    BY <1>15 DEF PollSlot, ackvars
  <2>2. Tally'  BY <1>15, <1>t, <1>c, PollCounts DEF Clean
  <2>3. \A c \in Blocks : Same(c)  BY <2>1 DEF childvars, servervars, Same
  <2> QED BY <1>t, <1>c, <2>2, <2>3, SameFine DEF Clean, Fine
<1>16. ASSUME PollLeave \/ PollAgain \/ ParentEnd \/ AckStart \/ AckSlot \/ AckRelease PROVE Clean'
  <2>1. UNCHANGED <<childvars, servervars>>
    BY <1>16 DEF PollLeave, PollAgain, ParentEnd, AckStart, AckSlot, AckRelease
  <2>2. Tally'  BY <1>16, <1>t, <1>f, PassesEnd, AckCounts
  <2>3. \A c \in Blocks : Same(c)  BY <2>1 DEF childvars, servervars, Same
  <2> QED BY <1>t, <1>c, <2>2, <2>3, SameFine DEF Clean, Fine
<1>17. ASSUME AckStat PROVE Clean'
  <2>1. UNCHANGED <<childvars, spc, sslot, par>>  BY <1>17 DEF AckStat, parentvars
  <2>2. Tally' /\ written' = written  BY <1>17, <1>t, <1>f, StatKeeps
  <2>3. \A c \in Blocks : Same(c)  BY <2>1, <2>2 DEF childvars, Same
  <2> QED BY <1>t, <1>c, <2>2, <2>3, SameFine DEF Clean, Fine
<1>18. ASSUME AckCheck PROVE Clean'
  <2>1. UNCHANGED <<childvars, spc, sslot, par>>  BY <1>18 DEF AckCheck, parentvars
  <2>2. Tally' /\ written' = written  BY <1>18, <1>t, <1>f, CheckAccepts
  <2>3. \A c \in Blocks : Same(c)  BY <2>1, <2>2 DEF childvars, Same
  <2> QED BY <1>t, <1>c, <2>2, <2>3, SameFine DEF Clean, Fine
<1>19. ASSUME AckDie PROVE Clean'  BY <1>19, <1>f DEF AckDie
<1>20. ASSUME UNCHANGED vars PROVE Clean'
  <2>1. /\ UNCHANGED <<childvars, servervars, par, ack, outcome>>
    BY <1>20 DEF vars, parentvars, ackvars
  <2>2. \A c \in Blocks : Same(c)  BY <2>1 DEF childvars, servervars, Same
  <2>3. \A c \in Blocks : Fine(c)' /\ (Counted(c) => Counted(c)')
    BY <1>t, <1>c, <2>2, SameFine
  <2> QED BY <1>c, <2>1, <2>3, TallyKept DEF Clean, Fine
<1> QED
  BY <1>1, <1>2, <1>3, <1>4, <1>5, <1>6, <1>7, <1>8, <1>9, <1>10, <1>11, <1>12, <1>13,
     <1>14, <1>15, <1>16, <1>17, <1>18, <1>19, <1>20
  DEF Next, ChildStep, BlockStep, ParentStep, AckStep

(* It holds before anything has moved.                                     *)
LEMMA CleanInitial == Init => Clean
<1> SUFFICES ASSUME Init PROVE Clean  OBVIOUS
<1>0. /\ 0 % Report = 0 /\ Off[0] = 0 /\ Sums[0] = 0 /\ N \in Nat \ {0} /\ 1 \in Attempts
  BY ParallelAssumption, SumsNext, Bounds
<1>1. ASSUME NEW b \in Blocks PROVE InStep(b) /\ OnServer(b) /\ OnClient(b)
  <2>1. Length[b] \in Nat /\ Checksum(b, 0) = 0  BY ParallelAssumption, NoChecksum
  <2>2. InStep(b)  BY <1>0 DEF Init, InStep
  <2>3. OnServer(b)  BY <1>0 DEF Init, OnServer
  <2>4. OnClient(b)  BY <1>0, <2>1 DEF Init, OnClient
  <2> QED BY <2>2, <2>3, <2>4
<1>2. Tally
  <2>1. \A b \in Blocks : ~(b < 0)  BY BlocksAre
  <2> QED BY <1>0, <2>1 DEF Init, Tally
<1> QED BY <1>1, <1>2 DEF Clean

(* A transfer without a failure had none before.                           *)
LEMMA FaultsStay == ASSUME TypeOK, [Next]_vars, faults' = 0 PROVE faults = 0
<1>1. faults \in Nat  BY DEF TypeOK
<1>2. faults' = faults \/ faults' = faults + 1
  BY DEF Next, ChildStep, BlockStep, ParentStep, AckStep, vars, ChildInit, ChildConnect,
         ChildHello, ChildNoServer, ChildSend, ChildSent, ChildOk, ChildLost, Drop, Kill,
         BlockInit, BlockReceive, BlockSize, BlockSum, BlockDie, PollSlot, PollLeave,
         PollAgain, ParentEnd, AckStart, AckSlot, AckRelease, AckStat, AckCheck, AckDie
<1> QED BY <1>1, <1>2

(* put_ack deletes no file whose transfer met no failure, for any number of*)
(* blocks, attempts and lengths, unless a block ends exactly where its     *)
(* child reports progress: then the client counts it before the server.    *)
THEOREM CleanTransfersStay ==
    ASSUME Unaligned PROVE Spec => []CleanIsAccepted
<1>1. Init => (faults = 0 => Clean)  BY CleanInitial
<1>2. Integrity /\ Integrity' /\ (faults = 0 => Clean) /\ [Next]_vars => (faults = 0 => Clean)'
  <2> SUFFICES ASSUME Integrity, Integrity', faults = 0 => Clean, [Next]_vars, faults' = 0
               PROVE  Clean'
    OBVIOUS
  <2>1. TypeOK /\ TypeOK'  BY DEF Integrity
  <2>2. faults = 0  BY <2>1, FaultsStay
  <2> QED BY <2>1, <2>2, CleanStep
<1>3. (faults = 0 => Clean) => CleanIsAccepted  BY DEF Clean, Tally, CleanIsAccepted
<1> QED BY <1>1, <1>2, <1>3, Inductive, PTL DEF Spec
=============================================================================
