----------------------------- MODULE BlockLayout -----------------------------
(***************************************************************************)
(* How a file is cut into blocks.  A parallel transfer has ten blocks of a *)
(* ninth of the file each, rounded down to pages; a separate transfer has  *)
(* blocks of the size the client asked for or the server is configured     *)
(* for, and the server tells the client how many there are, how many pages *)
(* each has and how far apart they lie.  Every block is read from its      *)
(* offset page by page up to its last page or the end of the file.         *)
(***************************************************************************)
EXTENDS Integers

CONSTANTS
    Page,           \* BLOCK_SIZE: 4096
    Word,           \* the unsigned int arithmetic of the server: 2^32
    LeastSeparate,  \* the least block size a client may ask for: 5,000,000
    Configured,     \* separate_configured_size
    ParallelSizes,  \* sizes of the files sent in parallel
    SeparateSizes,  \* sizes of the files sent as separate blocks
    AskedSizes      \* block sizes the clients ask for

(* The servers of InterCom and the uploads send no file in parallel that   *)
(* has less than 5,000,000 bytes, far more than 90 pages of 4096; a        *)
(* download of Transcend needs parallel_configured_size to be as large.    *)
ASSUME LayoutAssumption ==
    /\ Page \in Nat \ {0} /\ Word \in Nat \ {0}
    /\ LeastSeparate \in Nat \ {0} /\ Configured \in Nat \ {0}
    /\ LeastSeparate >= Page /\ Configured >= Page
    /\ ParallelSizes \subseteq Nat /\ \A s \in ParallelSizes : s >= 90 * Page
    /\ SeparateSizes \subseteq Nat /\ AskedSizes \subseteq Nat

VARIABLES
    cut,        \* the transfer: parallel or separate, size, block size asked for
    layout,     \* position, pages of a block, distance and number of blocks
    place,      \* the next block: its number and offset
    moved       \* the bytes transferred, and the sizes of the blocks added up

layoutVars == <<cut, layout, place, moved>>

Bytes(size) == 0 .. size - 1

NumBlocks == 10     \* NUM_PARALLEL_PROCESSES

(* Mutant: a tenth of the file for each of the ten blocks.                 *)
ParallelPagesTenth(size) == (size \div 10) \div Page

ParallelPages(size) == (size \div 9) \div Page

SeparateSize(asked) == IF asked < LeastSeparate THEN Configured ELSE asked

(* num_blocks is an unsigned int, and so is its product with 4096.         *)
SeparatePages(bs) == (bs \div Page) % Word

(* Mutant: blocks that overlap by a page.                                  *)
SeparateStepShort(bs) == ((SeparatePages(bs) - 1) * Page) % Word

SeparateStep(bs) == (SeparatePages(bs) * Page) % Word

(* Mutant: no block for what is left after the full ones.                  *)
SeparateCountFull(size, bs) == size \div bs

SeparateCount(size, bs) == (size \div bs) + 1
-----------------------------------------------------------------------------
LayoutInit ==
    /\ cut \in {[form |-> "parallel", size |-> s, asked |-> 0] : s \in ParallelSizes}
         \cup {[form |-> "separate", size |-> s, asked |-> a] :
                 s \in SeparateSizes, a \in AskedSizes}
    /\ layout = [pc |-> "plan", pages |-> 0, step |-> 0, count |-> 0]
    /\ place = [num |-> 0, off |-> 0]
    /\ moved = [bytes |-> {}, total |-> 0]

(* trans_parallel_put and get_parallel compute the same blocks.            *)
PlanParallel ==
    /\ layout.pc = "plan" /\ cut.form = "parallel"
    /\ layout' = [pc |-> "move", pages |-> ParallelPages(cut.size),
                  step |-> ParallelPages(cut.size) * Page, count |-> NumBlocks]
    /\ UNCHANGED <<cut, place, moved>>

(* block_size_buffer_build, for uploads and downloads.                     *)
PlanSeparate ==
    /\ layout.pc = "plan" /\ cut.form = "separate"
    /\ LET bs == SeparateSize(cut.asked) IN
         layout' = [pc |-> "move", pages |-> SeparatePages(bs), step |-> SeparateStep(bs),
                    count |-> SeparateCount(cut.size, bs)]
    /\ UNCHANGED <<cut, place, moved>>

(* The offset at which the reading of a block ends: its last page or the   *)
(* end of the file.                                                        *)
BlockEnd(off) ==
    LET full == off + layout.pages * Page IN
    IF cut.size <= off THEN off ELSE IF full <= cut.size THEN full ELSE cut.size

MoveBlock ==
    /\ layout.pc = "move" /\ place.num < layout.count
    /\ LET last == BlockEnd(place.off) IN
         moved' = [bytes |-> moved.bytes \cup (place.off .. last - 1),
                   total |-> moved.total + (last - place.off)]
    /\ place' = [num |-> place.num + 1, off |-> place.off + layout.step]
    /\ UNCHANGED <<cut, layout>>

LayoutNext == PlanParallel \/ PlanSeparate \/ MoveBlock

LayoutSpec == LayoutInit /\ [][LayoutNext]_layoutVars
-----------------------------------------------------------------------------
LayoutTypeOK ==
    /\ cut \in [form : {"parallel", "separate"}, size : Nat, asked : Nat]
    /\ layout \in [pc : {"plan", "move"}, pages : Nat, step : Nat, count : Nat]
    /\ place \in [num : Nat, off : Nat] /\ place.num <= layout.count
    /\ moved \in [bytes : SUBSET Bytes(cut.size), total : Nat]

BlocksDone == layout.pc = "move" /\ place.num = layout.count
EveryByteOnce == moved = [bytes |-> Bytes(cut.size), total |-> cut.size]

(* The ten blocks of a parallel transfer contain every byte of the file    *)
(* once, although nine of them have less than a ninth of it: the tenth is  *)
(* always long enough for what the rounding left over (parallel_put.c:59,  *)
(* get_parallel_data.c:227).                                               *)
ParallelTiles == BlocksDone /\ cut.form = "parallel" => EveryByteOnce

NoWrap == SeparateSize(cut.asked) < Word

(* A block size of whole pages that fits an unsigned int loses nothing,    *)
(* also when the file's size is a multiple of it.                          *)
PagedSeparateTiles ==
    BlocksDone /\ cut.form = "separate" /\ NoWrap /\ SeparateSize(cut.asked) % Page = 0
      => EveryByteOnce

(* Other block sizes may leave the file's end out, but never so that the   *)
(* sizes of the blocks add up to the file's: the comparison of the sizes   *)
(* at the end of the transfer notices every hole of the layout.            *)
HolesAreCounted ==
    BlocksDone /\ (cut.form = "separate" => NoWrap) /\ moved.total = cut.size
      => moved.bytes = Bytes(cut.size)
=============================================================================
