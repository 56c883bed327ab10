-------------------------- MODULE BlockLayoutProofs --------------------------
(***************************************************************************)
(* The layouts of BlockLayout for every file size, block size and page     *)
(* size: a parallel transfer and a separate transfer with blocks of whole  *)
(* pages contain every byte once, and no layout whose block sizes add up   *)
(* to the file's has a hole.                                               *)
(***************************************************************************)
EXTENDS BlockLayout, TLAPS

(* Division as the least facts the proofs need.                            *)
LEMMA Quotient ==
    ASSUME NEW a \in Nat, NEW b \in Nat \ {0}
    PROVE  /\ a \div b \in Nat
           /\ b * (a \div b) <= a
           /\ a < b * (a \div b) + b
           /\ a % b = a - b * (a \div b)
BY SMT

(* 90 pages are enough: ten blocks reach the end of the file.              *)
LEMMA TenBlocksReach ==
    ASSUME NEW size \in Nat, size >= 90 * Page
    PROVE  /\ ParallelPages(size) \in Nat
           /\ ParallelPages(size) * Page \in Nat
           /\ size <= 10 * (ParallelPages(size) * Page)
<1> DEFINE ninth == size \div 9
           pages == ninth \div Page
<1>1. /\ ninth \in Nat /\ 9 * ninth <= size /\ size < 9 * ninth + 9
  BY Quotient
<1>2. Page \in Nat \ {0}
  BY LayoutAssumption
<1>3. pages \in Nat /\ Page * pages <= ninth /\ ninth < Page * pages + Page
  BY <1>1, <1>2, Quotient
<1>4. PICK step \in Nat : step = Page * pages
  BY <1>2, <1>3
<1>5. step = pages * Page
  BY <1>2, <1>3, <1>4
<1> HIDE DEF ninth, pages
<1>6. size <= 10 * step
  <2>1. step <= ninth /\ ninth + 1 <= step + Page
    BY <1>1, <1>2, <1>3, <1>4
  <2>2. size + 1 <= 9 * ninth + 9
    BY <1>1
  <2>3. size + 1 <= 9 * (step + Page)
    BY <1>1, <1>2, <1>4, <2>1, <2>2
  <2>4. 10 * (size + 1) <= 90 * step + 90 * Page
    BY <1>2, <1>4, <2>3
  <2> QED
    BY <1>2, <1>4, <2>4
<1> QED
  BY <1>3, <1>4, <1>5, <1>6 DEF ParallelPages, ninth, pages

(* What block_size_buffer_build computes when nothing wraps.               *)
LEMMA SeparateStepIsPages ==
    ASSUME NEW bs \in Nat \ {0}, bs < Word
    PROVE  /\ SeparatePages(bs) \in Nat
           /\ SeparateStep(bs) \in Nat
           /\ SeparateStep(bs) = SeparatePages(bs) * Page
           /\ bs % Page = 0 => SeparateStep(bs) = bs
<1> DEFINE pages == bs \div Page
<1>1. Page \in Nat \ {0} /\ Word \in Nat \ {0}
  BY LayoutAssumption
<1>2. /\ pages \in Nat /\ Page * pages <= bs /\ bs % Page = bs - Page * pages
  BY <1>1, Quotient
<1>3. \A x \in Nat : x < Word => x % Word = x
  BY <1>1, SMT
<1> HIDE DEF pages
<1>4. pages <= Page * pages /\ Page * pages = pages * Page /\ pages * Page \in Nat
  BY <1>1, <1>2, SMT
<1>5. pages < Word /\ pages * Page < Word
  BY <1>1, <1>2, <1>4
<1>6. pages % Word = pages /\ (pages * Page) % Word = pages * Page
  BY <1>2, <1>3, <1>4, <1>5
<1>7. SeparatePages(bs) = pages /\ SeparateStep(bs) = pages * Page
  BY <1>6 DEF SeparatePages, SeparateStep, pages
<1> QED
  BY <1>2, <1>4, <1>7

LEMMA SizeAsked ==
    ASSUME NEW asked \in Nat
    PROVE  SeparateSize(asked) \in Nat \ {0}
BY LayoutAssumption DEF SeparateSize
-----------------------------------------------------------------------------
Exact == cut.form = "separate" => NoWrap

(* The parameters of the layout, once it is planned.                       *)
Planned ==
    layout.pc = "move" =>
      /\ layout.step = layout.pages * Page
      /\ cut.form = "parallel" => layout.count = 10 /\ cut.size <= 10 * layout.step
      /\ cut.form = "separate" =>
           /\ layout.count = cut.size \div SeparateSize(cut.asked) + 1
           /\ SeparateSize(cut.asked) % Page = 0 => layout.step = SeparateSize(cut.asked)

Reached == IF place.off <= cut.size THEN place.off ELSE cut.size

(* The blocks so far fill the file from its start without a gap.           *)
Gapless ==
    /\ place.off = place.num * layout.step
    /\ moved = [bytes |-> Bytes(Reached), total |-> Reached]

LayoutType ==
    /\ cut \in [form : {"parallel", "separate"}, size : Nat, asked : Nat]
    /\ cut.form = "parallel" => cut.size >= 90 * Page
    /\ layout \in [pc : {"plan", "move"}, pages : Nat, step : Nat, count : Nat]
    /\ place \in [num : Nat, off : Nat]
    /\ layout.pc = "plan" => place = [num |-> 0, off |-> 0]
                             /\ moved = [bytes |-> {}, total |-> 0]

LayoutIInv == LayoutType /\ (Exact => Planned /\ Gapless)

LEMMA LayoutInitInv == LayoutInit => LayoutIInv
<1> SUFFICES ASSUME LayoutInit PROVE LayoutIInv
  OBVIOUS
<1>1. LayoutType
  BY LayoutAssumption DEF LayoutInit, LayoutType
<1>2. Planned
  BY DEF LayoutInit, Planned
<1>3. Gapless
  <2>1. cut.size \in Nat
    BY <1>1 DEF LayoutType
  <2>2. Reached = 0 /\ Bytes(0) = {}
    BY <2>1 DEF LayoutInit, Reached, Bytes
  <2> QED
    BY <2>2 DEF LayoutInit, Gapless
<1> QED
  BY <1>1, <1>2, <1>3 DEF LayoutIInv

LEMMA PlanParallelInv ==
    ASSUME LayoutIInv, PlanParallel PROVE LayoutIInv'
<1>1. cut.size \in Nat /\ cut.size >= 90 * Page
  BY DEF LayoutIInv, LayoutType, PlanParallel
<1> DEFINE pages == ParallelPages(cut.size)
<1>2. pages \in Nat /\ pages * Page \in Nat /\ cut.size <= 10 * (pages * Page)
  BY <1>1, TenBlocksReach
<1>3. layout' = [pc |-> "move", pages |-> pages, step |-> pages * Page, count |-> 10]
  BY DEF PlanParallel, NumBlocks
<1>4. UNCHANGED <<cut, place, moved>> /\ place = [num |-> 0, off |-> 0]
      /\ moved = [bytes |-> {}, total |-> 0]
  BY DEF PlanParallel, LayoutIInv, LayoutType
<1> HIDE DEF pages
<1>5. LayoutType'
  BY <1>2, <1>3, <1>4 DEF LayoutIInv, LayoutType
<1>6. Planned'
  BY <1>2, <1>3, <1>4 DEF PlanParallel, Planned
<1>7. Gapless'
  <2>1. Reached' = 0 /\ Bytes(0) = {}
    BY <1>1, <1>4 DEF Reached, Bytes
  <2>2. place'.num * layout'.step = 0
    BY <1>2, <1>3, <1>4
  <2>3. Bytes(Reached)' = Bytes(0)
    BY <2>1 DEF Bytes
  <2> QED
    BY <1>4, <2>1, <2>2, <2>3 DEF Gapless
<1> QED
  BY <1>5, <1>6, <1>7 DEF LayoutIInv

LEMMA PlanSeparateInv ==
    ASSUME LayoutIInv, PlanSeparate PROVE LayoutIInv'
<1>1. cut.size \in Nat /\ cut.asked \in Nat
  BY DEF LayoutIInv, LayoutType
<1> DEFINE bs == SeparateSize(cut.asked)
<1>2. bs \in Nat \ {0}
  BY <1>1, SizeAsked
<1>3. layout' = [pc |-> "move", pages |-> SeparatePages(bs), step |-> SeparateStep(bs),
                 count |-> SeparateCount(cut.size, bs)]
  BY DEF PlanSeparate
<1>4. UNCHANGED <<cut, place, moved>> /\ place = [num |-> 0, off |-> 0]
      /\ moved = [bytes |-> {}, total |-> 0] /\ cut.form = "separate"
  BY DEF PlanSeparate, LayoutIInv, LayoutType
<1>5. SeparatePages(bs) \in Nat /\ SeparateStep(bs) \in Nat
      /\ SeparateCount(cut.size, bs) \in Nat
  <2>1. Page \in Nat \ {0} /\ Word \in Nat \ {0}
    BY LayoutAssumption
  <2>2. \A x \in Nat : x % Word \in Nat
    BY <2>1, SMT
  <2>3. bs \div Page \in Nat /\ cut.size \div bs \in Nat
    BY <1>1, <1>2, <2>1, Quotient
  <2>4. SeparatePages(bs) \in Nat
    BY <2>2, <2>3 DEF SeparatePages
  <2>5. SeparatePages(bs) * Page \in Nat
    BY <2>1, <2>4
  <2> QED
    BY <2>2, <2>3, <2>4, <2>5 DEF SeparateStep, SeparateCount
<1>6. LayoutType'
  <2> HIDE DEF bs
  <2> QED
    BY <1>3, <1>4, <1>5 DEF LayoutIInv, LayoutType
<1>7. Exact' => Planned'
  <2>1. SUFFICES ASSUME Exact' PROVE Planned'
    OBVIOUS
  <2>2. bs < Word
    BY <1>4, <2>1 DEF Exact, NoWrap
  <2>3. SeparateStep(bs) = SeparatePages(bs) * Page
        /\ (bs % Page = 0 => SeparateStep(bs) = bs)
    BY <1>2, <2>2, SeparateStepIsPages
  <2>4. SeparateSize(cut.asked)' = bs
    BY <1>4
  <2> HIDE DEF bs
  <2> QED
    BY <1>3, <1>4, <2>3, <2>4 DEF Planned, SeparateCount
<1>8. Gapless'
  <2>1. Reached' = 0 /\ Bytes(0) = {}
    BY <1>1, <1>4 DEF Reached, Bytes
  <2>2. place'.num * layout'.step = 0
    <3> HIDE DEF bs
    <3> QED
      BY <1>3, <1>4, <1>5
  <2>3. Bytes(Reached)' = Bytes(0)
    BY <2>1 DEF Bytes
  <2> QED
    BY <1>4, <2>1, <2>2, <2>3 DEF Gapless
<1> QED
  BY <1>6, <1>7, <1>8 DEF LayoutIInv

LEMMA MoveBlockInv ==
    ASSUME LayoutIInv, MoveBlock PROVE LayoutIInv'
<1> USE DEF MoveBlock
<1>1. LayoutType'
  BY DEF LayoutIInv, LayoutType
<1>2. ASSUME Exact' PROVE Planned' /\ Gapless'
  <2>1. Exact /\ Planned /\ Gapless
    BY <1>2 DEF LayoutIInv, Exact, NoWrap
  <2>2. Planned'
    BY <2>1 DEF Planned
  <2>3. /\ cut.size \in Nat /\ place.num \in Nat /\ place.off \in Nat
        /\ layout.step \in Nat /\ layout.pages \in Nat
        /\ layout.step = layout.pages * Page
    BY <2>1 DEF LayoutIInv, LayoutType, Planned
  <2>4. place'.off = place'.num * layout'.step
    <3>1. (place.num + 1) * layout.step = place.num * layout.step + layout.step
      BY <2>3, SMT
    <3> QED
      BY <2>1, <3>1 DEF Gapless
  <2> DEFINE last == BlockEnd(place.off)
  <2>5. /\ last \in Nat /\ last >= place.off
        /\ IF place.off <= cut.size THEN last = Reached' ELSE last = place.off
    BY <2>3 DEF BlockEnd, Reached
  <2>6. moved' = [bytes |-> Bytes(Reached) \cup (place.off .. last - 1),
                  total |-> Reached + (last - place.off)]
    BY <2>1 DEF Gapless
  <2> HIDE DEF last
  <2>7. Reached + (last - place.off) = Reached'
    BY <2>3, <2>5 DEF Reached
  <2>8. Bytes(Reached) \cup (place.off .. last - 1) = Bytes(Reached')
    <3>1. CASE place.off <= cut.size
      BY <3>1, <2>3, <2>5 DEF Reached, Bytes
    <3>2. CASE ~(place.off <= cut.size)
      BY <3>2, <2>3, <2>5 DEF Reached, Bytes
    <3> QED
      BY <3>1, <3>2
  <2>9. moved' = [bytes |-> Bytes(Reached'), total |-> Reached']
    BY <2>6, <2>7, <2>8
  <2>10. Bytes(Reached)' = Bytes(Reached')
    BY DEF Bytes
  <2> QED
    BY <2>2, <2>4, <2>9, <2>10 DEF Gapless
<1> QED
  BY <1>1, <1>2 DEF LayoutIInv

LEMMA LayoutInductive == LayoutIInv /\ [LayoutNext]_layoutVars => LayoutIInv'
<1> SUFFICES ASSUME LayoutIInv, [LayoutNext]_layoutVars PROVE LayoutIInv'
  OBVIOUS
<1>1. CASE PlanParallel
  BY <1>1, PlanParallelInv
<1>2. CASE PlanSeparate
  BY <1>2, PlanSeparateInv
<1>3. CASE MoveBlock
  BY <1>3, MoveBlockInv
<1>4. CASE UNCHANGED layoutVars
  BY <1>4 DEF layoutVars, LayoutIInv, LayoutType, Exact, NoWrap, Planned, Gapless, Reached, Bytes
<1> QED
  BY <1>1, <1>2, <1>3, <1>4 DEF LayoutNext

LEMMA LayoutAlways == LayoutSpec => []LayoutIInv
<1>1. LayoutInit => LayoutIInv
  BY LayoutInitInv
<1>2. LayoutIInv /\ [LayoutNext]_layoutVars => LayoutIInv'
  BY LayoutInductive
<1> QED
  BY <1>1, <1>2, PTL DEF LayoutSpec
-----------------------------------------------------------------------------
(* The blocks of a parallel transfer tile every file of at least 90 pages  *)
(* (parallel_put.c:59, get_parallel_data.c:227).                           *)
THEOREM ParallelLayoutTiles == LayoutSpec => []ParallelTiles
<1>1. LayoutIInv => ParallelTiles
  <2> SUFFICES ASSUME LayoutIInv, BlocksDone, cut.form = "parallel" PROVE EveryByteOnce
    BY DEF ParallelTiles
  <2>1. Exact /\ Planned /\ Gapless
    BY DEF LayoutIInv, Exact
  <2>2. cut.size \in Nat /\ layout.step \in Nat /\ place.off \in Nat
    BY DEF LayoutIInv, LayoutType
  <2>3. place.off >= cut.size
    BY <2>1, <2>2 DEF BlocksDone, Planned, Gapless
  <2>4. Reached = cut.size
    BY <2>2, <2>3 DEF Reached
  <2> QED
    BY <2>1, <2>4 DEF Gapless, EveryByteOnce
<1> QED
  BY <1>1, LayoutAlways, PTL

(* So do the blocks of a separate transfer when the block size is a        *)
(* multiple of the page (get_parallel_data.c:37-63).                       *)
THEOREM PagedLayoutTiles == LayoutSpec => []PagedSeparateTiles
<1>1. LayoutIInv => PagedSeparateTiles
  <2> DEFINE bs == SeparateSize(cut.asked)
  <2> SUFFICES ASSUME LayoutIInv, BlocksDone, cut.form = "separate", NoWrap, bs % Page = 0
               PROVE  EveryByteOnce
    BY DEF PagedSeparateTiles
  <2>1. Exact /\ Planned /\ Gapless
    BY DEF LayoutIInv, Exact
  <2>2. cut.size \in Nat /\ cut.asked \in Nat /\ place.off \in Nat
    BY DEF LayoutIInv, LayoutType
  <2>3. bs \in Nat \ {0}
    BY <2>2, SizeAsked
  <2>4. place.off = (cut.size \div bs + 1) * bs
    BY <2>1 DEF BlocksDone, Planned, Gapless
  <2> HIDE DEF bs
  <2>5. cut.size \div bs \in Nat /\ cut.size < bs * (cut.size \div bs) + bs
    BY <2>2, <2>3, Quotient
  <2>6. (cut.size \div bs + 1) * bs = bs * (cut.size \div bs) + bs
    BY <2>3, <2>5, SMT
  <2>7. Reached = cut.size
    BY <2>2, <2>4, <2>5, <2>6 DEF Reached
  <2> QED
    BY <2>1, <2>7 DEF Gapless, EveryByteOnce
<1> QED
  BY <1>1, LayoutAlways, PTL

(* Whatever the block size, a layout whose sizes add up to the file's has  *)
(* no hole.                                                                *)
THEOREM HolesNeverHide == LayoutSpec => []HolesAreCounted
<1>1. LayoutIInv => HolesAreCounted
  BY DEF LayoutIInv, HolesAreCounted, Exact, Gapless
<1> QED
  BY <1>1, LayoutAlways, PTL
-----------------------------------------------------------------------------
LEMMA LayoutTypeStep ==
    ASSUME LayoutIInv, LayoutIInv', LayoutTypeOK, [LayoutNext]_layoutVars PROVE LayoutTypeOK'
<1>1. LayoutType /\ LayoutType'  BY DEF LayoutIInv
<1>2. CASE layout.pc = "plan" /\ UNCHANGED <<cut, place, moved>>
  <2>1. place'.num = 0 /\ moved' = [bytes |-> {}, total |-> 0]
    BY <1>1, <1>2 DEF LayoutType
  <2>2. layout'.count \in Nat  BY <1>1 DEF LayoutType
  <2> QED BY <1>1, <2>1, <2>2 DEF LayoutType, LayoutTypeOK
<1>3. CASE MoveBlock
  <2> DEFINE last == BlockEnd(place.off)
  <2>1. /\ cut.size \in Nat /\ place.off \in Nat /\ layout.pages * Page \in Nat
        /\ place.num \in Nat /\ layout.count \in Nat /\ moved.total \in Nat
    BY <1>1, LayoutAssumption DEF LayoutType, LayoutTypeOK
  <2>2. /\ last \in Nat /\ last >= place.off
        /\ last <= cut.size \/ last = place.off
    BY <2>1 DEF BlockEnd
  <2>3. /\ moved' = [bytes |-> moved.bytes \cup (place.off .. last - 1),
                    total |-> moved.total + (last - place.off)]
        /\ place' = [num |-> place.num + 1, off |-> place.off + layout.step]
        /\ place.num < layout.count /\ UNCHANGED <<cut, layout>>
    BY <1>3 DEF MoveBlock
  <2> HIDE DEF last
  <2>4. place.off .. last - 1 \subseteq Bytes(cut.size)  BY <2>1, <2>2 DEF Bytes
  <2>5. moved.bytes \subseteq Bytes(cut.size)  BY DEF LayoutTypeOK
  <2>6. moved.total + (last - place.off) \in Nat  BY <2>1, <2>2
  <2>7. moved' \in [bytes : SUBSET Bytes(cut.size), total : Nat]  BY <2>3, <2>4, <2>5, <2>6
  <2>8. place'.num <= layout'.count  BY <2>1, <2>3
  <2> QED BY <1>1, <2>3, <2>7, <2>8 DEF LayoutType, LayoutTypeOK
<1>4. CASE UNCHANGED layoutVars  BY <1>4 DEF layoutVars, LayoutTypeOK
<1>5. PlanParallel \/ PlanSeparate => layout.pc = "plan" /\ UNCHANGED <<cut, place, moved>>
  BY DEF PlanParallel, PlanSeparate
<1> QED BY <1>2, <1>3, <1>4, <1>5 DEF LayoutNext

(* No block is transferred beyond the number of blocks planned, and no     *)
(* byte beyond the end of the file.                                        *)
THEOREM LayoutIsTyped == LayoutSpec => []LayoutTypeOK
<1>1. LayoutInit => LayoutTypeOK
  <2> SUFFICES ASSUME LayoutInit PROVE LayoutTypeOK  OBVIOUS
  <2>1. LayoutType  BY LayoutInitInv DEF LayoutIInv
  <2> QED BY <2>1 DEF LayoutInit, LayoutType, LayoutTypeOK
<1>2. LayoutIInv /\ LayoutIInv' /\ LayoutTypeOK /\ [LayoutNext]_layoutVars => LayoutTypeOK'
  BY LayoutTypeStep
<1> QED BY <1>1, <1>2, LayoutAlways, PTL DEF LayoutSpec
=============================================================================
