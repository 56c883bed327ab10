---------------------------- MODULE SecureKeyword ----------------------------
(***************************************************************************)
(* Personal secure keywords.  create_secure_keyword draws codes until the  *)
(* data base takes one (the code is a unique key there, across all         *)
(* servers), then writes a file of the code's name; the mail follows.      *)
(* keyword_database_lookup reads the first line of that file, and the data *)
(* base when there is no file.  InterCom's daily pass unlinks the files    *)
(* whose item has no history any more.                                     *)
(***************************************************************************)
EXTENDS Naturals, FiniteSets

CONSTANTS
    Issuers,        \* server processes that send keywords
    IssuedItem,     \* the item each of them sends keywords for
    Externals,      \* issuers in send_external_keyword (an external InterCom user)
    Codes,          \* the keywords keyword_create can draw
    Addresses,      \* number of e-mail addresses of a request
    Attempts,       \* draws for one address (10)
    KMaxFaults,     \* bound: failures of the data base, the disk and processes
    NoItem

Stored == {IssuedItem[p] : p \in Issuers}

ASSUME IssueAssumption ==
    /\ Externals \subseteq Issuers /\ NoItem \notin Stored
    /\ {Addresses, Attempts, KMaxFaults} \subseteq Nat /\ Attempts > 0

VARIABLES
    issuer,     \* position, addresses left, draws made, last code drawn
    rows,       \* dt_keyword_mapping: the item of each code
    kfile,      \* db_admin/keywords/<code>: the item on its first line
    mailed,     \* codes mailed as registered, with their items
    unregistered, \* codes mailed after the user was told "not sent"
    history,    \* items whose history file exists
    dbUp,
    kfaults     \* <<outages and kills, lost lines>> so far

kvars == <<issuer, rows, kfile, mailed, unregistered, history, dbUp, kfaults>>

KTypeOK ==
    /\ issuer \in [Issuers -> [pc : {"address", "draw", "line", "mail", "done", "dead"},
                               left : 0..Addresses, draws : 0..Attempts,
                               code : Codes \cup {NoItem}]]
    /\ rows \in [Codes -> Stored \cup {NoItem}]
    /\ kfile \in [Codes -> Stored \cup {NoItem}]
    /\ mailed \subseteq Codes \X Stored
    /\ unregistered \subseteq (Codes \cup {NoItem}) \X Stored
    /\ history \subseteq Stored
    /\ dbUp \in BOOLEAN
    /\ kfaults \in (0..KMaxFaults) \X (0..KMaxFaults)
-----------------------------------------------------------------------------
(* The loop of send_secure_keyword over the addresses.                     *)
NextAddress(p) ==
    /\ issuer[p].pc = "address"
    /\ issuer' = [issuer EXCEPT ![p].pc = IF issuer[p].left = 0 THEN "done" ELSE "draw",
                                ![p].left = IF @ = 0 THEN 0 ELSE @ - 1,
                                ![p].draws = 0]
    /\ UNCHANGED <<rows, kfile, mailed, unregistered, history, dbUp, kfaults>>

(* What follows a failed create_secure_keyword: send_secure_keyword tells  *)
(* the user and continues; send_external_keyword tells the user and falls  *)
(* through to the mail.                                                    *)
AfterFailure(p) == IF p \in Externals THEN "mail" ELSE "address"

(* Mutant: the result of the insert is not looked at.                      *)
DrawUnchecked(p) ==
    /\ issuer[p].pc = "draw" /\ dbUp
    /\ \E c \in Codes :
         /\ rows' = IF rows[c] = NoItem THEN [rows EXCEPT ![c] = IssuedItem[p]] ELSE rows
         /\ issuer' = [issuer EXCEPT ![p].pc = "line", ![p].code = c]
    /\ UNCHANGED <<kfile, mailed, unregistered, history, dbUp, kfaults>>

(* Mutant: the count of the draws starts over.                             *)
DrawForever(p) ==
    /\ issuer[p].pc = "draw" /\ dbUp
    /\ \E c \in Codes :
         /\ issuer' = [issuer EXCEPT ![p].code = c, ![p].draws = (@ + 1) % Attempts,
                         ![p].pc = IF rows[c] = NoItem THEN "line" ELSE "draw"]
         /\ rows' = IF rows[c] = NoItem THEN [rows EXCEPT ![c] = IssuedItem[p]] ELSE rows
    /\ UNCHANGED <<kfile, mailed, unregistered, history, dbUp, kfaults>>

(* One pass of the loop of create_secure_keyword: the insert fails on a    *)
(* code in use.                                                            *)
Draw(p) ==
    /\ issuer[p].pc = "draw" /\ dbUp
    /\ \E c \in Codes :
         IF rows[c] = NoItem
         THEN /\ rows' = [rows EXCEPT ![c] = IssuedItem[p]]
              /\ issuer' = [issuer EXCEPT ![p].pc = "line", ![p].code = c]
         ELSE /\ issuer' = [issuer EXCEPT ![p].code = c, ![p].draws = @ + 1,
                              ![p].pc = IF issuer[p].draws + 1 = Attempts
                                        THEN AfterFailure(p) ELSE "draw"]
              /\ UNCHANGED rows
    /\ UNCHANGED <<kfile, mailed, unregistered, history, dbUp, kfaults>>

(* sql_connect without the data base: exit(1).                             *)
DrawExits(p) ==
    /\ issuer[p].pc = "draw" /\ ~dbUp
    /\ issuer' = [issuer EXCEPT ![p].pc = "dead"]
    /\ UNCHANGED <<rows, kfile, mailed, unregistered, history, dbUp, kfaults>>

(* keyword_add appends; an unsuccessful append changes nothing of what     *)
(* follows.                                                                *)
AddLine(p) ==
    /\ issuer[p].pc = "line"
    /\ issuer' = [issuer EXCEPT ![p].pc = "mail"]
    /\ LET c == issuer[p].code
       IN  \/ /\ kfile' = IF kfile[c] = NoItem THEN [kfile EXCEPT ![c] = IssuedItem[p]] ELSE kfile
              /\ UNCHANGED kfaults
           \/ /\ kfaults[2] < KMaxFaults /\ kfaults' = [kfaults EXCEPT ![2] = @ + 1]
              /\ UNCHANGED kfile
    /\ UNCHANGED <<rows, mailed, unregistered, history, dbUp>>

MailKeyword(p) ==
    /\ issuer[p].pc = "mail"
    /\ issuer' = [issuer EXCEPT ![p].pc = "address"]
    /\ LET letter == <<issuer[p].code, IssuedItem[p]>>
       IN  IF issuer[p].draws < Attempts
           THEN mailed' = mailed \cup {letter} /\ UNCHANGED unregistered
           ELSE unregistered' = unregistered \cup {letter} /\ UNCHANGED mailed
    /\ UNCHANGED <<rows, kfile, history, dbUp, kfaults>>

(* Mutant: the pass does not look for the history.                         *)
UnlinkAny(c) ==
    /\ kfile[c] # NoItem
    /\ kfile' = [kfile EXCEPT ![c] = NoItem]
    /\ UNCHANGED <<issuer, rows, mailed, unregistered, history, dbUp, kfaults>>

(* dlt_keyword_entries of InterCom, one file.                              *)
UnlinkKeyword(c) ==
    /\ kfile[c] # NoItem /\ kfile[c] \notin history
    /\ kfile' = [kfile EXCEPT ![c] = NoItem]
    /\ UNCHANGED <<issuer, rows, mailed, unregistered, history, dbUp, kfaults>>

(* cron_dlt_history: the history file goes when it has expired.            *)
HistoryEnds(i) ==
    /\ i \in history
    /\ history' = history \ {i}
    /\ UNCHANGED <<issuer, rows, kfile, mailed, unregistered, dbUp, kfaults>>

Kill(p) ==
    /\ issuer[p].pc \notin {"done", "dead"} /\ kfaults[1] < KMaxFaults
    /\ issuer' = [issuer EXCEPT ![p].pc = "dead"]
    /\ kfaults' = [kfaults EXCEPT ![1] = @ + 1]
    /\ UNCHANGED <<rows, kfile, mailed, unregistered, history, dbUp>>

DbStops ==
    /\ dbUp /\ kfaults[1] < KMaxFaults
    /\ dbUp' = FALSE
    /\ kfaults' = [kfaults EXCEPT ![1] = @ + 1]
    /\ UNCHANGED <<issuer, rows, kfile, mailed, unregistered, history>>

DbStarts ==
    /\ ~dbUp /\ dbUp' = TRUE
    /\ UNCHANGED <<issuer, rows, kfile, mailed, unregistered, history, kfaults>>
-----------------------------------------------------------------------------
KInit ==
    /\ issuer = [p \in Issuers |-> [pc |-> "address", left |-> Addresses, draws |-> 0,
                                    code |-> NoItem]]
    /\ rows = [c \in Codes |-> NoItem]
    /\ kfile = [c \in Codes |-> NoItem]
    /\ mailed = {} /\ unregistered = {}
    /\ history = Stored
    /\ dbUp = TRUE
    /\ kfaults = <<0, 0>>

IssuerStep(p) ==
    NextAddress(p) \/ Draw(p) \/ DrawExits(p) \/ AddLine(p) \/ MailKeyword(p)

KNext ==
    \/ \E p \in Issuers : IssuerStep(p) \/ Kill(p)
    \/ \E c \in Codes : UnlinkKeyword(c)
    \/ \E i \in Stored : HistoryEnds(i)
    \/ DbStops \/ DbStarts

KSpec == KInit /\ [][KNext]_kvars

(* A server process runs; nothing else has to happen.                      *)
KFairness == \A p \in Issuers : WF_kvars(IssuerStep(p))
-----------------------------------------------------------------------------
(* keyword_database_lookup: the first line of the file, or the row; the    *)
(* process of a look-up that needs the row ends without the data base.     *)
KeywordLookup(c) ==
    CASE kfile[c] # NoItem -> kfile[c]
      [] kfile[c] = NoItem /\ dbUp -> rows[c]
      [] OTHER -> NoItem

(* A keyword the user was told of leads to the item it was mailed for and  *)
(* to no other, whichever of the two places answers, at any later time.    *)
KeywordMeansItsItem ==
    \A m \in mailed : rows[m[1]] = m[2] /\ KeywordLookup(m[1]) \in {m[2], NoItem}

(* While the history of its item exists, a mailed keyword is found even by *)
(* a process that would end at a query: the file is written before the     *)
(* mail and the daily pass leaves it, unless its line could not be written.*)
KeywordOutlivesDatabase ==
    \A m \in mailed : (m[2] \in history /\ kfaults[2] = 0) => KeywordLookup(m[1]) = m[2]

(* A request for keywords ends, data base or no data base.                 *)
KeywordsEnd == <>(\A p \in Issuers : issuer[p].pc \in {"done", "dead"})
=============================================================================
