------------------------- MODULE SecureKeywordProofs -------------------------
(***************************************************************************)
(* A mailed keyword leads to its item, for any number of servers, keywords,*)
(* addresses, draws and failures.                                          *)
(***************************************************************************)
EXTENDS SecureKeyword, TLAPS

(* A code that has been drawn with success is the issuer's.                *)
Registered(p) ==
    /\ issuer[p].pc \in {"draw", "line"} => issuer[p].draws < Attempts
    /\ issuer[p].pc = "line" \/ (issuer[p].pc = "mail" /\ issuer[p].draws < Attempts)
         => issuer[p].code \in Codes /\ rows[issuer[p].code] = IssuedItem[p]

(* The file of a code never says anything but its row.                     *)
FilesFollowRows == \A c \in Codes : kfile[c] # NoItem => kfile[c] = rows[c]

(* Registered keywords that are about to be mailed, and those that were,   *)
(* have their file unless an append failed.                                *)
Filed(c, i) == i \in history /\ kfaults[2] = 0 => kfile[c] = i

KeywordInv ==
    /\ KTypeOK
    /\ \A p \in Issuers : Registered(p)
    /\ FilesFollowRows
    /\ \A m \in mailed : rows[m[1]] = m[2]
    /\ \A m \in mailed : Filed(m[1], m[2])
    /\ \A p \in Issuers :
         issuer[p].pc = "mail" /\ issuer[p].draws < Attempts
           => Filed(issuer[p].code, IssuedItem[p])
-----------------------------------------------------------------------------
LEMMA IssueBounds ==
    /\ Addresses \in Nat /\ Attempts \in Nat /\ KMaxFaults \in Nat /\ Attempts > 0
    /\ NoItem \notin Stored /\ \A p \in Issuers : IssuedItem[p] \in Stored
  BY IssueAssumption DEF Stored

LEMMA KeywordInit == KInit => KeywordInv
<1> SUFFICES ASSUME KInit PROVE KeywordInv  OBVIOUS
<1>1. KTypeOK  BY IssueBounds DEF KInit, KTypeOK
<1>2. \A p \in Issuers : issuer[p].pc = "address"  BY DEF KInit
<1>3. mailed = {} /\ \A c \in Codes : kfile[c] = NoItem  BY DEF KInit
<1> QED BY <1>1, <1>2, <1>3 DEF KeywordInv, Registered, FilesFollowRows

(* Only one issuer moves in its step.                                      *)
LEMMA KeywordStep == ASSUME KeywordInv, [KNext]_kvars PROVE KeywordInv'
<1> USE IssueBounds
<1>1. ASSUME NEW p \in Issuers, NextAddress(p) PROVE KeywordInv'
  <2>1. /\ issuer'[p].pc \in {"done", "draw"} /\ issuer'[p].draws = 0
        /\ \A q \in Issuers : q # p => issuer'[q] = issuer[q]
        /\ issuer' \in [Issuers -> [pc : {"address", "draw", "line", "mail", "done", "dead"},
                               left : 0..Addresses, draws : 0..Attempts,
                               code : Codes \cup {NoItem}]]
    <3>1. CASE issuer[p].left = 0
      <4>1. issuer' = [issuer EXCEPT ![p].pc = "done", ![p].left = 0, ![p].draws = 0]
        BY <1>1, <3>1 DEF NextAddress
      <4>2. issuer[p] \in [pc : {"address", "draw", "line", "mail", "done", "dead"},
                            left : 0..Addresses, draws : 0..Attempts, code : Codes \cup {NoItem}]
        BY DEF KeywordInv, KTypeOK
      <4>3. issuer' = [issuer EXCEPT ![p] = [issuer[p] EXCEPT !.pc = "done", !.left = 0, !.draws = 0]]
        BY <4>1 DEF KeywordInv, KTypeOK
      <4>4. [issuer[p] EXCEPT !.pc = "done", !.left = 0, !.draws = 0]
              \in [pc : {"address", "draw", "line", "mail", "done", "dead"},
                   left : 0..Addresses, draws : 0..Attempts, code : Codes \cup {NoItem}]
        <5>1. 0 \in 0..Addresses /\ 0 \in 0..Attempts
          OBVIOUS
        <5> QED BY <4>2, <5>1
      <4> QED BY <4>2, <4>3, <4>4 DEF KeywordInv, KTypeOK
    <3>2. CASE issuer[p].left # 0
      <4>1. issuer[p].left - 1 \in 0..Addresses
        BY <3>2 DEF KeywordInv, KTypeOK
      <4> QED BY <1>1, <3>2, <4>1 DEF NextAddress, KeywordInv, KTypeOK
    <3> QED BY <3>1, <3>2
  <2>2. UNCHANGED <<rows, kfile, mailed, unregistered, history, dbUp, kfaults>>
    BY <1>1 DEF NextAddress
  <2> QED BY <2>1, <2>2 DEF KeywordInv, KTypeOK, Registered, FilesFollowRows, Filed
<1>2. ASSUME NEW p \in Issuers, Draw(p) PROVE KeywordInv'
  <2>1. PICK c \in Codes :
         IF rows[c] = NoItem
         THEN /\ rows' = [rows EXCEPT ![c] = IssuedItem[p]]
              /\ issuer' = [issuer EXCEPT ![p].pc = "line", ![p].code = c]
         ELSE /\ issuer' = [issuer EXCEPT ![p].code = c, ![p].draws = @ + 1,
                              ![p].pc = IF issuer[p].draws + 1 = Attempts
                                        THEN AfterFailure(p) ELSE "draw"]
              /\ UNCHANGED rows
    BY <1>2 DEF Draw
  <2>2. /\ issuer[p].pc = "draw"
        /\ UNCHANGED <<kfile, mailed, unregistered, history, dbUp, kfaults>>
    BY <1>2 DEF Draw
  <2>3. CASE rows[c] = NoItem
    <3>1. /\ issuer'[p].pc = "line" /\ issuer'[p].code = c /\ issuer'[p].draws = issuer[p].draws
          /\ \A q \in Issuers : q # p => issuer'[q] = issuer[q]
          /\ issuer' \in [Issuers -> [pc : {"address", "draw", "line", "mail", "done", "dead"},
                               left : 0..Addresses, draws : 0..Attempts,
                               code : Codes \cup {NoItem}]]
      BY <2>1, <2>3 DEF KeywordInv, KTypeOK
    <3>2. /\ rows' \in [Codes -> Stored \cup {NoItem}]
          /\ rows'[c] = IssuedItem[p] /\ \A d \in Codes : rows[d] # NoItem => rows'[d] = rows[d]
      BY <2>1, <2>3 DEF KeywordInv, KTypeOK
    <3>3. \A m \in mailed : m[1] \in Codes /\ m[2] # NoItem
      BY DEF KeywordInv, KTypeOK
    <3> QED BY <2>2, <3>1, <3>2, <3>3 DEF KeywordInv, KTypeOK, Registered, FilesFollowRows, Filed
  <2>4. CASE rows[c] # NoItem
    <3>0. issuer[p].draws < Attempts
      BY <2>2 DEF KeywordInv, Registered
    <3>1. /\ issuer'[p].draws = issuer[p].draws + 1
          /\ issuer'[p].pc = (IF issuer[p].draws + 1 = Attempts THEN AfterFailure(p) ELSE "draw")
          /\ \A q \in Issuers : q # p => issuer'[q] = issuer[q]
      BY <2>1, <2>4 DEF KeywordInv, KTypeOK
    <3>2. issuer' \in [Issuers -> [pc : {"address", "draw", "line", "mail", "done", "dead"},
                               left : 0..Addresses, draws : 0..Attempts,
                               code : Codes \cup {NoItem}]]
      <4>1. issuer[p].draws + 1 \in 0..Attempts
        BY <3>0 DEF KeywordInv, KTypeOK
      <4> QED BY <2>1, <2>4, <4>1 DEF KeywordInv, KTypeOK, AfterFailure
    <3>3. rows' = rows /\ issuer[p].draws \in 0..Attempts  BY <2>1, <2>4 DEF KeywordInv, KTypeOK
    <3> QED BY <2>2, <3>0, <3>1, <3>2, <3>3 DEF AfterFailure, KeywordInv, KTypeOK, Registered, FilesFollowRows, Filed
  <2> QED BY <2>3, <2>4
<1>3. ASSUME NEW p \in Issuers, DrawExits(p) \/ Kill(p) PROVE KeywordInv'
  <2>1. /\ issuer'[p].pc = "dead"
        /\ \A q \in Issuers : q # p => issuer'[q] = issuer[q]
        /\ issuer' \in [Issuers -> [pc : {"address", "draw", "line", "mail", "done", "dead"},
                               left : 0..Addresses, draws : 0..Attempts,
                               code : Codes \cup {NoItem}]]
    BY <1>3 DEF DrawExits, Kill, KeywordInv, KTypeOK
  <2>2. kfaults' \in (0..KMaxFaults) \X (0..KMaxFaults) /\ kfaults'[2] = kfaults[2]
    BY <1>3 DEF DrawExits, Kill, KeywordInv, KTypeOK
  <2> QED BY <1>3, <2>1, <2>2 DEF DrawExits, Kill, KeywordInv, KTypeOK, Registered, FilesFollowRows, Filed
<1>4. ASSUME NEW p \in Issuers, AddLine(p) PROVE KeywordInv'
  <2>1. /\ issuer[p].pc = "line" /\ issuer'[p] = [issuer[p] EXCEPT !.pc = "mail"]
        /\ issuer'[p].pc = "mail" /\ issuer'[p].draws = issuer[p].draws
        /\ issuer'[p].code = issuer[p].code
        /\ \A q \in Issuers : q # p => issuer'[q] = issuer[q]
        /\ issuer' \in [Issuers -> [pc : {"address", "draw", "line", "mail", "done", "dead"},
                               left : 0..Addresses, draws : 0..Attempts,
                               code : Codes \cup {NoItem}]]
    BY <1>4 DEF AddLine, KeywordInv, KTypeOK
  <2>2. PICK c \in Codes : c = issuer[p].code /\ rows[c] = IssuedItem[p] /\ issuer[p].draws < Attempts
    BY <2>1 DEF KeywordInv, Registered
  <2>3. UNCHANGED <<rows, mailed, unregistered, history, dbUp>>
    BY <1>4 DEF AddLine
  <2>4. CASE kfile' = (IF kfile[c] = NoItem THEN [kfile EXCEPT ![c] = IssuedItem[p]] ELSE kfile)
             /\ UNCHANGED kfaults
    <3>1. /\ kfile' \in [Codes -> Stored \cup {NoItem}] /\ kfile'[c] = IssuedItem[p]
          /\ \A d \in Codes : kfile[d] # NoItem => kfile'[d] = kfile[d]
          /\ \A d \in Codes : d # c => kfile'[d] = kfile[d]
      BY <2>2, <2>4 DEF KeywordInv, KTypeOK, FilesFollowRows
    <3>2. \A m \in mailed : m[1] \in Codes /\ m[2] \in Stored
      BY DEF KeywordInv, KTypeOK
    <3>3. \A q \in Issuers : (issuer[q].pc = "mail" /\ issuer[q].draws < Attempts
                                => Filed(issuer[q].code, IssuedItem[q]))'
      BY <2>1, <2>2, <2>3, <2>4, <3>1 DEF KeywordInv, Filed, Registered, KTypeOK
    <3>4. \A m \in mailed' : Filed(m[1], m[2])'
      BY <2>3, <2>4, <3>1, <3>2 DEF KeywordInv, Filed
    <3>5. FilesFollowRows'
      BY <2>2, <2>3, <3>1 DEF KeywordInv, FilesFollowRows
    <3>6. KTypeOK' /\ (\A q \in Issuers : Registered(q)') /\ \A m \in mailed' : rows'[m[1]] = m[2]
      BY <2>1, <2>2, <2>3, <2>4, <3>1 DEF KeywordInv, KTypeOK, Registered
    <3> QED BY <3>3, <3>4, <3>5, <3>6 DEF KeywordInv
  <2>5. CASE kfaults[2] < KMaxFaults /\ kfaults' = [kfaults EXCEPT ![2] = @ + 1] /\ UNCHANGED kfile
    <3>1. kfaults' \in (0..KMaxFaults) \X (0..KMaxFaults) /\ kfaults'[2] # 0
      BY <2>5 DEF KeywordInv, KTypeOK
    <3> QED BY <2>1, <2>2, <2>3, <2>5, <3>1 DEF KeywordInv, KTypeOK, Registered, FilesFollowRows, Filed
  <2>6. \/ kfile' = (IF kfile[c] = NoItem THEN [kfile EXCEPT ![c] = IssuedItem[p]] ELSE kfile)
           /\ UNCHANGED kfaults
        \/ kfaults[2] < KMaxFaults /\ kfaults' = [kfaults EXCEPT ![2] = @ + 1] /\ UNCHANGED kfile
    <3>1. c = issuer[p].code  BY <2>2
    <3> QED BY <1>4, <3>1, Zenon DEF AddLine
  <2> QED BY <2>4, <2>5, <2>6
<1>5. ASSUME NEW p \in Issuers, MailKeyword(p) PROVE KeywordInv'
  <2>1. /\ issuer[p].pc = "mail" /\ issuer'[p].pc = "address"
        /\ \A q \in Issuers : q # p => issuer'[q] = issuer[q]
        /\ issuer' \in [Issuers -> [pc : {"address", "draw", "line", "mail", "done", "dead"},
                               left : 0..Addresses, draws : 0..Attempts,
                               code : Codes \cup {NoItem}]]
        /\ UNCHANGED <<rows, kfile, history, dbUp, kfaults>>
    BY <1>5 DEF MailKeyword, KeywordInv, KTypeOK
  <2>2. CASE issuer[p].draws < Attempts
    <3>1. /\ mailed' = mailed \cup {<<issuer[p].code, IssuedItem[p]>>} /\ UNCHANGED unregistered
          /\ issuer[p].code \in Codes /\ rows[issuer[p].code] = IssuedItem[p]
          /\ Filed(issuer[p].code, IssuedItem[p])
      BY <1>5, <2>1, <2>2 DEF MailKeyword, KeywordInv, Registered
    <3> QED BY <2>1, <3>1 DEF KeywordInv, KTypeOK, Registered, FilesFollowRows, Filed
  <2>3. CASE ~(issuer[p].draws < Attempts)
    <3>1. UNCHANGED mailed /\ unregistered' \subseteq (Codes \cup {NoItem}) \X Stored
      BY <1>5, <2>1, <2>3 DEF MailKeyword, KeywordInv, KTypeOK
    <3> QED BY <2>1, <3>1 DEF KeywordInv, KTypeOK, Registered, FilesFollowRows, Filed
  <2> QED BY <2>2, <2>3
<1>6. ASSUME NEW c \in Codes, UnlinkKeyword(c) PROVE KeywordInv'
  <2>1. /\ kfile' \in [Codes -> Stored \cup {NoItem}] /\ kfile[c] \notin history
        /\ \A d \in Codes : d # c => kfile'[d] = kfile[d]
        /\ kfile'[c] = NoItem
    BY <1>6 DEF UnlinkKeyword, KeywordInv, KTypeOK
  <2>2. UNCHANGED <<issuer, rows, mailed, unregistered, history, dbUp, kfaults>>
    BY <1>6 DEF UnlinkKeyword
  <2>3. \A m \in mailed : m[1] \in Codes
    BY DEF KeywordInv, KTypeOK
  <2> QED BY <2>1, <2>2, <2>3 DEF KeywordInv, KTypeOK, Registered, FilesFollowRows, Filed
<1>7. ASSUME NEW i \in Stored, HistoryEnds(i) PROVE KeywordInv'
  BY <1>7 DEF HistoryEnds, KeywordInv, KTypeOK, Registered, FilesFollowRows, Filed
<1>8. ASSUME DbStops \/ DbStarts PROVE KeywordInv'
  <2>1. kfaults' \in (0..KMaxFaults) \X (0..KMaxFaults) /\ kfaults'[2] = kfaults[2]
    BY <1>8 DEF DbStops, DbStarts, KeywordInv, KTypeOK
  <2> QED BY <1>8, <2>1 DEF DbStops, DbStarts, KeywordInv, KTypeOK, Registered, FilesFollowRows, Filed
<1>9. ASSUME UNCHANGED kvars PROVE KeywordInv'
  BY <1>9 DEF kvars, KeywordInv, KTypeOK, Registered, FilesFollowRows, Filed
<1> QED BY [KNext]_kvars, <1>1, <1>2, <1>3, <1>4, <1>5, <1>6, <1>7, <1>8, <1>9 DEF KNext, IssuerStep

LEMMA KeywordInductive == KSpec => []KeywordInv
<1>1. KeywordInv /\ [KNext]_kvars => KeywordInv'  BY KeywordStep
<1> QED BY KeywordInit, <1>1, PTL DEF KSpec

(* No counter of addresses, draws or failures leaves its range.            *)
THEOREM KeywordsAreTyped == KSpec => []KTypeOK
<1>1. KeywordInv => KTypeOK  BY DEF KeywordInv
<1> QED BY <1>1, KeywordInductive, PTL

(* Whatever codes the servers draw, and wherever the data base or a process*)
(* fails, no mailed keyword ever leads to another item.                    *)
THEOREM MailedKeywordsAreTrue == KSpec => []KeywordMeansItsItem
<1>1. ASSUME KeywordInv PROVE KeywordMeansItsItem
  <2>1. \A m \in mailed : m[1] \in Codes /\ rows[m[1]] = m[2]
    BY <1>1 DEF KeywordInv, KTypeOK
  <2> QED BY <1>1, <2>1 DEF KeywordInv, FilesFollowRows, KeywordMeansItsItem, KeywordLookup
<1> QED BY KeywordInductive, <1>1, PTL

(* As long as its item has a history, a mailed keyword is found without the*)
(* data base, for the daily pass spares its file.                          *)
THEOREM MailedKeywordsLast == KSpec => []KeywordOutlivesDatabase
<1>1. ASSUME KeywordInv PROVE KeywordOutlivesDatabase
  <2>1. \A m \in mailed : m[1] \in Codes /\ m[2] \in Stored /\ m[2] # NoItem
    BY <1>1, IssueBounds DEF KeywordInv, KTypeOK
  <2> QED BY <1>1, <2>1 DEF KeywordInv, Filed, KeywordOutlivesDatabase, KeywordLookup
<1> QED BY KeywordInductive, <1>1, PTL
=============================================================================
