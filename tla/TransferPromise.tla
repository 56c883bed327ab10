--------------------------- MODULE TransferPromise ---------------------------
(***************************************************************************)
(* What an upload in blocks promises, whichever processes carry it out:    *)
(* the file of an accepted upload whose bytes the client counted in full   *)
(* has every block with data from then on, a rejected upload leaves no     *)
(* data and never gets any again, the verdict is final, and the user is    *)
(* told of a success only after the file was accepted.  ParallelPut and    *)
(* SeparateTransfer implement it.                                          *)
(***************************************************************************)
CONSTANTS
    Parts,      \* the blocks of the file
    Filled      \* the blocks that have data

VARIABLES
    stored,     \* the blocks in the data file
    counted,    \* the client counted every byte of the file as sent
    decision,   \* none, accepted or rejected
    answer      \* what the client's user is told: none, success or error

promised == <<stored, counted, decision, answer>>

(* A block arrives; some may come when the verdict is known.               *)
Store(p) ==
    /\ decision # "rejected"
    /\ stored' = stored \cup {p}
    /\ UNCHANGED <<counted, decision, answer>>

(* The client's count is complete.                                         *)
Tally ==
    /\ decision = "none"
    /\ counted' = TRUE
    /\ UNCHANGED <<stored, decision, answer>>

(* The file is cut to the size the client counted.                         *)
Cut ==
    /\ decision = "none" /\ ~counted
    /\ stored' \in SUBSET stored
    /\ UNCHANGED <<counted, decision, answer>>

Accept ==
    /\ decision = "none"
    /\ counted => Filled \subseteq stored
    /\ decision' = "accepted"
    /\ UNCHANGED <<stored, counted, answer>>

Discard ==
    /\ decision = "none"
    /\ decision' = "rejected"
    /\ stored' = {}
    /\ UNCHANGED <<counted, answer>>

Tell ==
    /\ answer = "none"
    /\ \/ answer' = "error"
       \/ decision = "accepted" /\ answer' = "success"
    /\ UNCHANGED <<stored, counted, decision>>

PromiseInit ==
    /\ stored = {} /\ counted \in BOOLEAN
    /\ decision = "none" /\ answer = "none"

PromiseNext ==
    \/ \E p \in Parts : Store(p)
    \/ Tally \/ Cut \/ Accept \/ Discard \/ Tell

PromiseSpec == PromiseInit /\ [][PromiseNext]_promised
=============================================================================
