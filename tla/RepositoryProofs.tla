-------------------------- MODULE RepositoryProofs --------------------------
(***************************************************************************)
(* Type correctness of Repository and its central safety property: the     *)
(* transfer lock that put_big_file sets is not lifted before the data were *)
(* received and checked, whatever requests write the metadata meanwhile.   *)
(***************************************************************************)
EXTENDS Repository, TLAPS

CronPositions == {"cron_data", "cron_expired", "cron_data_unlink", "cron_md",
                  "cron_md_unlink", "cron_hist"}

(* A request that is about to write the metadata is one of Modifies.       *)
ModifyOps == \A p \in Procs : pc[p] = "modify" => op[p] \in Modifies

TypeInv == TypeOK /\ ModifyOps

(* Before the keyword is known nobody but the upload itself and the audits *)
(* is at work.                                                             *)
Quiet ==
    ~announced =>
        /\ transfer = "no"
        /\ \A p \in Procs : pc[p] \in {"idle", "put_md", "put_parse"} \cup CronPositions

(* One process at most is between the first metadata and the keyword, and  *)
(* there are no metadata before it.                                        *)
Opening(p) == pc[p] \in {"put_md", "put_parse"}

OneUpload ==
    /\ announced => form # "none"
    /\ MdPresent => form # "none"
    /\ \A p \in Procs : Opening(p) => form # "none" /\ ~announced
    /\ \A p, q \in Procs : Opening(p) /\ Opening(q) => p = q

(* The metadata of the upload that is being opened are locked.             *)
OpenedLocked ==
    \A p \in Procs :
        /\ pc[p] = "put_md"    => /\ fs[p].body.lock = "l"
                                  /\ MdPresent => md.ino = fs[p].ino
        /\ pc[p] = "put_parse" => (MdPresent => md.body.lock = "l")

(* The positions of put_trans_file_ack, and those of a zip.                *)
Acking == {"put_trunc", "put_final", "put_hist", "put_msg"}
ZipPositions == {"zip_lock", "zip_move", "zip_gzip", "zip_rest", "zip_reread",
                 "zip_unlock"}

(* The flag "l" of metadata or of a copy of them: another is there only if *)
(* the data have been received, or the metadata were made anew and have no *)
(* flag at all or the one of a zip.                                        *)
Released(lock) == received \/ (remade /\ (lock = "0" \/ zipped))

(* What a process that may write the metadata knows.                       *)
CopiesKnow ==
    \A p \in Procs :
        /\ pc[p] \in Acking => received
        /\ pc[p] \in ZipPositions => received \/ (remade /\ zipped)
        /\ pc[p] = "modify" /\ fs[p].body.lock # "l" => Released(fs[p].body.lock)
        /\ pc[p] = "modify" /\ op[p] \in {"lock", "unlock"}
               => fs[p].body.lock \in {"u", "L"}

LockInv == Quiet /\ OneUpload /\ OpenedLocked /\ CopiesKnow /\ NoEarlyRelease

IInv == TypeInv /\ LockInv

-----------------------------------------------------------------------------
(* Changing one field of a body, or the fields that a handler changes      *)
(* together, gives a body.                                                 *)
LEMMA BodyLock ==
    ASSUME NEW b \in Body, NEW l \in LockFlags PROVE [b EXCEPT !.lock = l] \in Body
  BY DEF Body

LEMMA BodyDlt ==
    ASSUME NEW b \in Body, NEW d \in DltFlags PROVE [b EXCEPT !.dlt = d] \in Body
  BY DEF Body

LEMMA BodyOwn ==
    ASSUME NEW b \in Body, NEW u \in Users \cup {NoUser}
    PROVE  [b EXCEPT !.own = u] \in Body
  BY DEF Body

LEMMA BodyOwnLock ==
    ASSUME NEW b \in Body, NEW u \in Users \cup {NoUser}, NEW l \in LockFlags
    PROVE  [b EXCEPT !.own = u, !.lock = l] \in Body
  BY DEF Body

LEMMA BodySmall ==
    ASSUME NEW b \in Body, NEW u \in Users \cup {NoUser}, NEW l \in LockFlags
    PROVE  [b EXCEPT !.own = u, !.lock = l, !.small = TRUE] \in Body
  BY DEF Body

LEMMA BodyExt ==
    ASSUME NEW b \in Body, NEW u \in Users \cup {NoUser}, NEW n \in Nat
    PROVE  [b EXCEPT !.own = u, !.ext = n] \in Body
  BY DEF Body

LEMMA BodyExtTime ==
    ASSUME NEW b \in Body, NEW n \in Nat, NEW t \in Nat
    PROVE  [b EXCEPT !.ext = n, !.time = t] \in Body
  BY DEF Body

LEMMA BodyEmail ==
    ASSUME NEW b \in Body, NEW e \in BOOLEAN PROVE [b EXCEPT !.email = e] \in Body
  BY DEF Body

LEMMA BodyBlank == Blank \in Body
  BY DEF Body, Blank, DltFlags, LockFlags

LEMMA NoMdType == NoMd \in MdFile
  BY BodyBlank DEF NoMd, MdFile

(* What a request writes back is a body.                                   *)
LEMMA ModifiedType ==
    ASSUME NEW o \in Modifies, NEW u \in Users \cup {NoUser}, NEW b \in Body
    PROVE  \A c \in Modified(o, u, b) : c \in Body
<1> DEFINE c == [b EXCEPT !.own = u]
<1>1. c \in Body  BY BodyOwn
<1>2. CASE o = "extend"
  <2>1. ASSUME NEW x \in Modified(o, u, b) PROVE x \in Body
    <3>1. PICK n \in 1 .. (ExtendMax - b.ext), w \in Weekend : x = Extended(c, n, w)
      BY <1>2, <2>1 DEF Modified
    <3> HIDE DEF c
    <3>2. c.ext \in Nat /\ c.time \in Nat /\ b.ext \in Nat  BY <1>1 DEF Body
    <3>3. n \in Nat /\ w \in Nat  BY <3>2, TimeAssumption
    <3>4. c.ext + n \in Nat /\ c.time + n + w \in Nat  BY <3>2, <3>3
    <3> QED BY <1>1, <3>1, <3>4, BodyExtTime DEF Extended
  <2> QED BY <2>1
<1>3. ASSUME NEW l \in LockFlags PROVE [c EXCEPT !.lock = l] \in Body
  BY <1>1, BodyLock
<1>4. ASSUME NEW d \in DltFlags PROVE [c EXCEPT !.dlt = d] \in Body
  BY <1>1, BodyDlt
<1>5. [c EXCEPT !.email = TRUE] \in Body /\ [c EXCEPT !.email = FALSE] \in Body
  BY <1>1, BodyEmail
<1>6. CASE o = "lock"  BY <1>3, <1>6 DEF Modified, LockFlags
<1>7. CASE o = "unlock"  BY <1>3, <1>7 DEF Modified, LockFlags
<1>8. CASE o = "owner_dlt"  BY <1>4, <1>8 DEF Modified, DltFlags
<1>9. CASE o = "user_dlt"  BY <1>4, <1>9 DEF Modified, DltFlags
<1>10. CASE o = "set_email"  BY <1>5, <1>10 DEF Modified
<1>11. CASE o = "clear_email"  BY <1>5, <1>11 DEF Modified
<1> QED BY <1>2, <1>6, <1>7, <1>8, <1>9, <1>10, <1>11 DEF Modifies

(* PutParse: what it makes of the metadata and of the uploader's copy.     *)
LEMMA ParseEffect ==
    ASSUME TypeOK, NEW p \in Procs, PutParse(p)
    PROVE  /\ pc[p] = "put_parse" /\ pc' = [pc EXCEPT ![p] = "put_open"]
           /\ announced' = TRUE /\ several' \in BOOLEAN
           /\ fs' \in [Procs -> MdFile] /\ \A q \in Procs \ {p} : fs'[q] = fs[q]
           /\ fs'[p].body = [fs[p].body EXCEPT !.lock = "u",
                                 !.dlt = IF several' THEN "no" ELSE fs[p].body.dlt]
           /\ fs'[p].body.time = fs[p].body.time
           /\ \/ remade' = FALSE /\ md' = md /\ fs'[p].ino = fs[p].ino
              \/ /\ remade' = TRUE /\ ~MdPresent /\ md' \in MdFile /\ md'.body = Blank
                 /\ md'.ino = fs[p].ino + 1 /\ fs'[p].ino = fs[p].ino + 1
           /\ UNCHANGED <<data, aside, hist, op, user, got, now, upd, transfer, counted,
                  form, owner, due, cut, zipped, received, acked, removed>>
<1>1. PICK d \in BOOLEAN, m \in BOOLEAN, n \in {fs[p].ino, fs[p].ino + 1} :
         /\ several' = m
         /\ remade' = (d /\ ~MdPresent)
         /\ remade' => n = fs[p].ino + 1
         /\ ~remade' => n = fs[p].ino
         /\ md' = IF remade' THEN [ino |-> n, body |-> Blank] ELSE md
         /\ fs' = [fs EXCEPT ![p].ino = n, ![p].body.lock = "u",
                             ![p].body.dlt = IF m THEN "no" ELSE @]
  BY DEF PutParse
<1>2. fs[p] \in MdFile /\ fs[p].body \in Body /\ fs[p].ino \in Nat
  BY DEF TypeOK, MdFile
<1>3. fs[p].body.dlt \in DltFlags  BY <1>2 DEF Body
<1> DEFINE b == [fs[p].body EXCEPT !.lock = "u",
                                   !.dlt = IF m THEN "no" ELSE fs[p].body.dlt]
<1>4. b = [[fs[p].body EXCEPT !.lock = "u"] EXCEPT
               !.dlt = IF m THEN "no" ELSE fs[p].body.dlt]
  BY <1>2 DEF Body
<1>5. [fs[p].body EXCEPT !.lock = "u"] \in Body  BY <1>2, BodyLock DEF LockFlags
<1>6. b \in Body  BY <1>3, <1>4, <1>5, BodyDlt DEF DltFlags
<1>7. fs'[p] = [ino |-> n, body |-> b]
  BY <1>1, <1>2 DEF TypeOK, MdFile, Body
<1>8. b.time = fs[p].body.time  BY <1>2 DEF Body
<1>9. \A q \in Procs \ {p} : fs'[q] = fs[q]  BY <1>1 DEF TypeOK
<1> HIDE DEF b
<1>10. n \in Nat  BY <1>1, <1>2
<1>11. fs' \in [Procs -> MdFile]
  <2>1. [ino |-> n, body |-> b] \in MdFile  BY <1>6, <1>10 DEF MdFile
  <2>2. DOMAIN fs' = Procs /\ fs' = [q \in Procs |-> fs'[q]]  BY <1>1 DEF TypeOK
  <2> QED BY <2>1, <2>2, <1>7, <1>9 DEF TypeOK
<1>12. \/ remade' = FALSE /\ md' = md /\ fs'[p].ino = fs[p].ino
       \/ /\ remade' = TRUE /\ ~MdPresent /\ md' \in MdFile /\ md'.body = Blank
          /\ md'.ino = fs[p].ino + 1 /\ fs'[p].ino = fs[p].ino + 1
  <2>1. CASE d /\ ~MdPresent
    <3>1. remade' = TRUE  BY <1>1, <2>1
    <3>2. md' = [ino |-> n, body |-> Blank] /\ n = fs[p].ino + 1  BY <1>1, <3>1
    <3> QED BY <2>1, <3>1, <3>2, <1>7, <1>10, BodyBlank DEF MdFile
  <2>2. CASE ~(d /\ ~MdPresent)
    <3>1. remade' = FALSE  BY <1>1, <2>2
    <3>2. md' = md /\ n = fs[p].ino  BY <1>1, <3>1
    <3> QED BY <3>1, <3>2, <1>7
  <2> QED BY <2>1, <2>2
<1>13. fs'[p].body = [fs[p].body EXCEPT !.lock = "u",
                                 !.dlt = IF several' THEN "no" ELSE fs[p].body.dlt]
  <2>1. fs'[p].body = b  BY <1>7
  <2>2. several' = m  BY <1>1
  <2> QED BY <2>1, <2>2 DEF b
<1>14. fs'[p].body.time = fs[p].body.time  BY <1>7, <1>8
<1>15. /\ pc[p] = "put_parse" /\ pc' = [pc EXCEPT ![p] = "put_open"]
       /\ announced' = TRUE /\ several' \in BOOLEAN
       /\ UNCHANGED <<data, aside, hist, op, user, got, now, upd, transfer, counted,
                  form, owner, due, cut, zipped, received, acked, removed>>
  BY <1>1 DEF PutParse, Goto
<1> QED BY <1>9, <1>11, <1>12, <1>13, <1>14, <1>15

(* AckPass: the data stay or are cut, with the count in the copy.          *)
LEMMA PassEffect ==
    ASSUME TypeOK, NEW p \in Procs, AckPass(p)
    PROVE  /\ fs' \in [Procs -> MdFile] /\ \A q \in Procs \ {p} : fs'[q] = fs[q]
           /\ fs'[p].ino = fs[p].ino /\ fs'[p].body.lock = fs[p].body.lock
           /\ fs'[p].body.time = fs[p].body.time /\ fs'[p].body.ext = fs[p].body.ext
           /\ fs'[p].body.dlt = fs[p].body.dlt
           /\ data' \in {data, "partial"} /\ cut' \in BOOLEAN
           /\ \/ data' = data /\ (cut' <=> cut)
              \/ data' = "partial" /\ cut' = TRUE
<1>1. CASE UNCHANGED <<data, fs, cut>>
  <2>1. fs' = fs /\ data' = data /\ cut' = cut  BY <1>1
  <2>2. fs \in [Procs -> MdFile] /\ cut \in BOOLEAN  BY DEF TypeOK
  <2>3. fs' \in [Procs -> MdFile] /\ \A q \in Procs : fs'[q] = fs[q]  BY <2>1, <2>2
  <2> QED BY <2>1, <2>2, <2>3
<1>2. CASE data' = "partial" /\ cut' = TRUE /\ fs' = [fs EXCEPT ![p].body.small = TRUE]
  <2>1. fs[p].body \in Body /\ fs[p].ino \in Nat  BY DEF TypeOK, MdFile
  <2>2. [fs[p].body EXCEPT !.small = TRUE] \in Body  BY <2>1 DEF Body
  <2>3. fs'[p] = [fs[p] EXCEPT !.body = [fs[p].body EXCEPT !.small = TRUE]]
    BY <1>2 DEF TypeOK, MdFile
  <2>4. fs'[p].ino = fs[p].ino /\ fs'[p].body = [fs[p].body EXCEPT !.small = TRUE]
        /\ fs'[p] \in MdFile
    BY <2>1, <2>2, <2>3 DEF TypeOK, MdFile
  <2>5. fs' \in [Procs -> MdFile] /\ \A q \in Procs \ {p} : fs'[q] = fs[q]
    BY <1>2, <2>4 DEF TypeOK
  <2> QED BY <1>2, <2>1, <2>4, <2>5 DEF Body
<1> QED BY <1>1, <1>2 DEF AckPass

(* Every step keeps the types.                                             *)
LEMMA TypeStep == ASSUME TypeInv, [Next]_vars PROVE TypeInv'
<1>1. ASSUME NEW p \in Procs, NEW u \in Users, PutStart(p, u)
      PROVE  TypeInv'
  BY <1>1, TypeInv, UsersAssumption, TimeAssumption
     DEF PutStart, TruncateMd, Goto, Idle, MdPresent, Blank, TypeInv, TypeOK,
         ModifyOps, MdFile, Body, DltFlags, LockFlags, Contents, Positions,
         Ops, Modifies
<1>2. ASSUME NEW p \in Procs, NEW u \in Users, BlockStart(p, u)
      PROVE  TypeInv'
  BY <1>2, TypeInv, UsersAssumption, TimeAssumption
     DEF BlockStart, Serve, MdPresent, filevars, ghosts, Goto, Idle, TypeInv,
         TypeOK, ModifyOps, MdFile, Body, DltFlags, LockFlags, Contents,
         Positions, Ops, Modifies
<1>3. ASSUME NEW p \in Procs, NEW u \in Users, AckStart(p, u)
      PROVE  TypeInv'
  <2>1. [md.body EXCEPT !.lock = "u"] \in Body
    BY TypeInv, BodyLock DEF TypeInv, TypeOK, MdFile, LockFlags
  <2> QED BY <1>3, <2>1, TypeInv, UsersAssumption, TimeAssumption
         DEF AckStart, Serve, MdPresent, filevars, ghosts, Goto, Idle,
             TypeInv, TypeOK, ModifyOps, MdFile, DltFlags, LockFlags,
             Contents, Positions, Ops, Modifies
<1>4. ASSUME NEW p \in Procs, NEW u \in Users, OneStepStart(p, u)
      PROVE  TypeInv'
  <2>1. now + Life \in Nat
    BY TypeInv, TimeAssumption DEF TypeInv, TypeOK, MdFile
  <2>2. [Blank EXCEPT !.own = u, !.lock = "u", !.time = now + Life] \in Body
    BY <2>1 DEF Body, Blank, DltFlags, LockFlags
  <2> QED BY <1>4, <2>1, <2>2, TypeInv, UsersAssumption, TimeAssumption
         DEF OneStepStart, Serve, Goto, Idle, filevars, ghosts, TypeInv,
             TypeOK, ModifyOps, MdFile, DltFlags, LockFlags, Contents,
             Positions, Ops, Modifies
<1>5. ASSUME NEW p \in Procs, NEW u \in Users, NEW o \in Modifies, ModifyRead(p, u, o)
      PROVE  TypeInv'
  BY <1>5, TypeInv, UsersAssumption, TimeAssumption
     DEF ModifyRead, Serve, MdPresent, Permitted, filevars, ghosts, Goto,
         Idle, TypeInv, TypeOK, ModifyOps, MdFile, Body, DltFlags, LockFlags,
         Contents, Positions, Ops, Modifies
<1>6. ASSUME NEW p \in Procs, NEW u \in Users, NEW o \in {"get", "getdlt"}, GetRead(p, u, o)
      PROVE  TypeInv'
  <2>1. md.body \in Body /\ md.body.dlt \in DltFlags
    BY TypeInv DEF TypeInv, TypeOK, MdFile, Body
  <2>2. [md.body EXCEPT !.dlt = IF o = "getdlt" /\ @ # "owner" THEN "yes" ELSE @]
            \in Body
    BY <2>1, BodyDlt DEF DltFlags
  <2> QED BY <1>6, <2>1, <2>2, TypeInv, UsersAssumption, TimeAssumption
         DEF GetRead, Serve, MdPresent, Retrievable, filevars, ghosts, Goto,
             Idle, TypeInv, TypeOK, ModifyOps, MdFile, DltFlags, LockFlags,
             Contents, Positions, Ops, Modifies
<1>7. ASSUME NEW p \in Procs, NEW u \in Users, DeleteRead(p, u)
      PROVE  TypeInv'
  BY <1>7, TypeInv, UsersAssumption, TimeAssumption
     DEF DeleteRead, Serve, MdPresent, filevars, ghosts, Goto, Idle, TypeInv,
         TypeOK, ModifyOps, MdFile, Body, DltFlags, LockFlags, Contents,
         Positions, Ops, Modifies
<1>8. ASSUME NEW p \in Procs, NEW u \in Users, ZipRead(p, u)
      PROVE  TypeInv'
  BY <1>8, TypeInv, UsersAssumption, TimeAssumption
     DEF ZipRead, Serve, MdPresent, Retrievable, filevars, ghosts, Goto,
         Idle, TypeInv, TypeOK, ModifyOps, MdFile, Body, DltFlags, LockFlags,
         Contents, Positions, Ops, Modifies
<1>9. ASSUME NEW p \in Procs, CronStart(p)
      PROVE  TypeInv'
  BY <1>9, TypeInv, UsersAssumption, TimeAssumption
     DEF CronStart, Serve, Blank, filevars, ghosts, Goto, Idle, TypeInv,
         TypeOK, ModifyOps, MdFile, Body, DltFlags, LockFlags, Contents,
         Positions, Ops, Modifies
<1>10. ASSUME NEW p \in Procs, PutWriteMd(p)
      PROVE  TypeInv'
  BY <1>10, TypeInv, UsersAssumption, TimeAssumption
     DEF PutWriteMd, WriteMd, Goto, ghosts, MdPresent, TypeInv, TypeOK,
         ModifyOps, MdFile, Body, DltFlags, LockFlags, Contents, Positions,
         Ops, Modifies
<1>11. ASSUME NEW p \in Procs, PutParse(p)
      PROVE  TypeInv'
  <2>1. TypeOK  BY TypeInv DEF TypeInv
  <2>2. /\ fs' \in [Procs -> MdFile] /\ md' \in MdFile /\ pc' \in [Procs -> Positions]
        /\ announced' \in BOOLEAN /\ several' \in BOOLEAN /\ remade' \in BOOLEAN
    BY <1>11, <2>1, ParseEffect DEF TypeOK, Positions
  <2>3. /\ \A q \in Procs : pc'[q] = "modify" => pc[q] = "modify"
        /\ UNCHANGED <<data, aside, hist, op, user, got, now, upd, transfer, counted,
                  form, owner, due, cut, zipped, received, acked, removed>>
    BY <1>11, <2>1, ParseEffect DEF TypeOK
  <2> QED BY <2>2, <2>3, TypeInv DEF TypeInv, TypeOK, ModifyOps
<1>12. ASSUME NEW p \in Procs, PutOpenSerial(p)
      PROVE  TypeInv'
  BY <1>12, TypeInv, UsersAssumption, TimeAssumption
     DEF PutOpenSerial, Goto, ghosts, TypeInv, TypeOK, ModifyOps, MdFile,
         Body, DltFlags, LockFlags, Contents, Positions, Ops, Modifies
<1>13. ASSUME NEW p \in Procs, PutOpenParallel(p)
      PROVE  TypeInv'
  BY <1>13, TypeInv, UsersAssumption, TimeAssumption
     DEF PutOpenParallel, Exit, ghosts, Goto, NoMd, Blank, TypeInv, TypeOK,
         ModifyOps, MdFile, Body, DltFlags, LockFlags, Contents, Positions,
         Ops, Modifies
<1>14. ASSUME NEW p \in Procs, PutReceive(p)
      PROVE  TypeInv'
  BY <1>14, TypeInv, UsersAssumption, TimeAssumption
     DEF PutReceive, Goto, ghosts, TypeInv, TypeOK, ModifyOps, MdFile, Body,
         DltFlags, LockFlags, Contents, Positions, Ops, Modifies
<1>15. ASSUME NEW p \in Procs, PutCheckPass(p)
      PROVE  TypeInv'
  BY <1>15, TypeInv, UsersAssumption, TimeAssumption
     DEF PutCheckPass, Goto, filevars, TypeInv, TypeOK, ModifyOps, MdFile,
         Body, DltFlags, LockFlags, Contents, Positions, Ops, Modifies
<1>16. ASSUME NEW p \in Procs, PutCheckFail(p)
      PROVE  TypeInv'
  BY <1>16, TypeInv, UsersAssumption, TimeAssumption
     DEF PutCheckFail, Goto, ghosts, TypeInv, TypeOK, ModifyOps, MdFile,
         Body, DltFlags, LockFlags, Contents, Positions, Ops, Modifies
<1>17. ASSUME NEW p \in Procs, PutDrop(p)
      PROVE  TypeInv'
  BY <1>17, TypeInv, UsersAssumption, TimeAssumption
     DEF PutDrop, Exit, NoMd, ghosts, Goto, Blank, TypeInv, TypeOK,
         ModifyOps, MdFile, Body, DltFlags, LockFlags, Contents, Positions,
         Ops, Modifies
<1>18. ASSUME NEW p \in Procs, PutTruncate(p)
      PROVE  TypeInv'
  <2>1. [fs[p].body EXCEPT !.own = user[p], !.ext = 0] \in Body
    BY TypeInv, BodyExt DEF TypeInv, TypeOK, MdFile
  <2> QED BY <1>18, BodyBlank, <2>1, TypeInv, UsersAssumption, TimeAssumption
         DEF PutTruncate, TruncateMd, Goto, ghosts, MdPresent,
             TypeInv, TypeOK, ModifyOps, MdFile, DltFlags, LockFlags,
             Contents, Positions, Ops, Modifies
<1>19. ASSUME NEW p \in Procs, PutFinal(p)
      PROVE  TypeInv'
  BY <1>19, TypeInv, UsersAssumption, TimeAssumption
     DEF PutFinal, WriteMd, Goto, ghosts, MdPresent, TypeInv, TypeOK,
         ModifyOps, MdFile, Body, DltFlags, LockFlags, Contents, Positions,
         Ops, Modifies
<1>20. ASSUME NEW p \in Procs, PutHistory(p)
      PROVE  TypeInv'
  BY <1>20, TypeInv, UsersAssumption, TimeAssumption
     DEF PutHistory, Goto, ghosts, TypeInv, TypeOK, ModifyOps, MdFile, Body,
         DltFlags, LockFlags, Contents, Positions, Ops, Modifies
<1>21. ASSUME NEW p \in Procs, PutMsg(p)
      PROVE  TypeInv'
  BY <1>21, TypeInv, UsersAssumption, TimeAssumption
     DEF PutMsg, Exit, filevars, Goto, NoMd, Blank, TypeInv, TypeOK,
         ModifyOps, MdFile, Body, DltFlags, LockFlags, Contents, Positions,
         Ops, Modifies
<1>22. ASSUME NEW p \in Procs, BlockOpen(p)
      PROVE  TypeInv'
  BY <1>22, TypeInv, UsersAssumption, TimeAssumption
     DEF BlockOpen, Goto, ghosts, TypeInv, TypeOK, ModifyOps, MdFile, Body,
         DltFlags, LockFlags, Contents, Positions, Ops, Modifies
<1>23. ASSUME NEW p \in Procs, BlockWrite(p)
      PROVE  TypeInv'
  BY <1>23, TypeInv, UsersAssumption, TimeAssumption
     DEF BlockWrite, Exit, ghosts, Goto, NoMd, Blank, TypeInv, TypeOK,
         ModifyOps, MdFile, Body, DltFlags, LockFlags, Contents, Positions,
         Ops, Modifies
<1>24. ASSUME NEW p \in Procs, AckPass(p)
      PROVE  TypeInv'
  <2>1. TypeOK  BY TypeInv DEF TypeInv
  <2>2. /\ fs' \in [Procs -> MdFile] /\ data' \in Contents /\ cut' \in BOOLEAN
    BY <1>24, <2>1, PassEffect DEF TypeOK, Contents
  <2> QED BY <1>24, <2>2, TypeInv
          DEF AckPass, Goto, TypeInv, TypeOK, ModifyOps, Positions
<1>25. ASSUME NEW p \in Procs, AckFail(p)
      PROVE  TypeInv'
  BY <1>25, TypeInv, UsersAssumption, TimeAssumption
     DEF AckFail, Goto, ghosts, TypeInv, TypeOK, ModifyOps, MdFile, Body,
         DltFlags, LockFlags, Contents, Positions, Ops, Modifies
<1>26. ASSUME NEW p \in Procs, OneStepMove(p)
      PROVE  TypeInv'
  BY <1>26, TypeInv, UsersAssumption, TimeAssumption
     DEF OneStepMove, Goto, TypeInv, TypeOK, ModifyOps, MdFile, Body,
         DltFlags, LockFlags, Contents, Positions, Ops, Modifies
<1>27. ASSUME NEW p \in Procs, ModifyWrite(p)
      PROVE  TypeInv'
  <2>1. PICK b \in Modified(op[p], user[p], fs[p].body) : WriteMd(p, b)
    BY <1>27 DEF ModifyWrite
  <2>2. op[p] \in Modifies /\ user[p] \in Users \cup {NoUser} /\ fs[p].body \in Body
    BY <1>27, TypeInv DEF ModifyWrite, TypeInv, TypeOK, ModifyOps, MdFile
  <2>3. b \in Body
    BY <2>1, <2>2, ModifiedType
  <2> QED BY <1>27, BodyBlank, <2>1, <2>2, <2>3, TypeInv, UsersAssumption, TimeAssumption
         DEF ModifyWrite, WriteMd, Exit, Goto, NoMd, ghosts, TypeInv, TypeOK,
             ModifyOps, MdFile, DltFlags, LockFlags, Contents, Positions,
             Ops, Modifies
<1>28. ASSUME NEW p \in Procs, GetOpen(p)
      PROVE  TypeInv'
  BY <1>28, TypeInv, UsersAssumption, TimeAssumption
     DEF GetOpen, Goto, filevars, ghosts, TypeInv, TypeOK, ModifyOps, MdFile,
         Body, DltFlags, LockFlags, Contents, Positions, Ops, Modifies
<1>29. ASSUME NEW p \in Procs, GetDone(p)
      PROVE  TypeInv'
  <2>1. CASE fs[p].body.dlt = "yes"
    BY <1>29, <2>1, TypeInv
       DEF GetDone, Goto, filevars, ghosts, TypeInv, TypeOK, ModifyOps,
           Positions
  <2>2. CASE fs[p].body.dlt # "yes"
    BY <1>29, <2>2, TypeInv, NoMdType
       DEF GetDone, Exit, Goto, filevars, ghosts, TypeInv, TypeOK,
           ModifyOps, Positions, Ops, Contents
  <2> QED BY <2>1, <2>2
<1>30. ASSUME NEW p \in Procs, UnlinkMd(p)
      PROVE  TypeInv'
  BY <1>30, TypeInv, UsersAssumption, TimeAssumption
     DEF UnlinkMd, Goto, MdPresent, NoMd, Blank, TypeInv, TypeOK, ModifyOps,
         MdFile, Body, DltFlags, LockFlags, Contents, Positions, Ops,
         Modifies
<1>31. ASSUME NEW p \in Procs, UnlinkData(p)
      PROVE  TypeInv'
  BY <1>31, TypeInv, UsersAssumption, TimeAssumption
     DEF UnlinkData, Exit, Goto, NoMd, Blank, TypeInv, TypeOK, ModifyOps,
         MdFile, Body, DltFlags, LockFlags, Contents, Positions, Ops,
         Modifies
<1>32. ASSUME NEW p \in Procs, ZipLock(p)
      PROVE  TypeInv'
  <2>1. [fs[p].body EXCEPT !.own = user[p], !.lock = "z"] \in Body
    BY TypeInv, BodyOwnLock DEF TypeInv, TypeOK, MdFile, LockFlags
  <2> QED BY <1>32, <2>1, TypeInv, UsersAssumption, TimeAssumption
         DEF ZipLock, WriteMd, Goto, ghosts, MdPresent, TypeInv, TypeOK,
             ModifyOps, MdFile, DltFlags, LockFlags, Contents, Positions,
             Ops, Modifies
<1>33. ASSUME NEW p \in Procs, ZipMove(p)
      PROVE  TypeInv'
  BY <1>33, TypeInv, UsersAssumption, TimeAssumption
     DEF ZipMove, Goto, ghosts, TypeInv, TypeOK, ModifyOps, MdFile, Body,
         DltFlags, LockFlags, Contents, Positions, Ops, Modifies
<1>34. ASSUME NEW p \in Procs, ZipCompress(p)
      PROVE  TypeInv'
  BY <1>34, TypeInv, UsersAssumption, TimeAssumption
     DEF ZipCompress, Goto, ghosts, TypeInv, TypeOK, ModifyOps, MdFile, Body,
         DltFlags, LockFlags, Contents, Positions, Ops, Modifies
<1>35. ASSUME NEW p \in Procs, ZipFinish(p)
      PROVE  TypeInv'
  BY <1>35, TypeInv, UsersAssumption, TimeAssumption
     DEF ZipFinish, Goto, ghosts, TypeInv, TypeOK, ModifyOps, MdFile, Body,
         DltFlags, LockFlags, Contents, Positions, Ops, Modifies
<1>36. ASSUME NEW p \in Procs, ZipReread(p)
      PROVE  TypeInv'
  BY <1>36, TypeInv, UsersAssumption, TimeAssumption
     DEF ZipReread, Goto, MdPresent, filevars, ghosts, TypeInv, TypeOK,
         ModifyOps, MdFile, Body, DltFlags, LockFlags, Contents, Positions,
         Ops, Modifies
<1>37. ASSUME NEW p \in Procs, ZipUnlock(p)
      PROVE  TypeInv'
  <2>1. [fs[p].body EXCEPT !.own = user[p], !.lock = "u", !.small = TRUE] \in Body
    BY TypeInv, BodySmall DEF TypeInv, TypeOK, MdFile, LockFlags
  <2> QED BY <1>37, BodyBlank, <2>1, TypeInv, UsersAssumption, TimeAssumption
         DEF ZipUnlock, WriteMd, Exit, ghosts, MdPresent, Goto, NoMd,
             TypeInv, TypeOK, ModifyOps, MdFile, DltFlags, LockFlags,
             Contents, Positions, Ops, Modifies
<1>38. ASSUME NEW p \in Procs, CronData(p)
      PROVE  TypeInv'
  <2>1. pc' \in [Procs -> Positions]
    BY <1>38, TypeInv
       DEF CronData, Goto, CronSeesExpired, TypeInv, TypeOK, Positions
  <2>2. \A q \in Procs : pc'[q] = "modify" => pc[q] = "modify"
    BY <1>38, TypeInv DEF CronData, Goto, CronSeesExpired, TypeInv, TypeOK
  <2>3. UNCHANGED <<filevars, op, user, fs, got, now, upd, transfer, counted, ghosts>>
    BY <1>38 DEF CronData
  <2> QED BY <2>1, <2>2, <2>3, TypeInv
         DEF TypeInv, TypeOK, ModifyOps, filevars, ghosts
<1>39. ASSUME NEW p \in Procs, CronUnlinkExpired(p)
      PROVE  TypeInv'
  BY <1>39, TypeInv, UsersAssumption, TimeAssumption
     DEF CronUnlinkExpired, Goto, MdPresent, NoMd, Blank, TypeInv, TypeOK,
         ModifyOps, MdFile, Body, DltFlags, LockFlags, Contents, Positions,
         Ops, Modifies
<1>40. ASSUME NEW p \in Procs, CronUnlinkData(p)
      PROVE  TypeInv'
  BY <1>40, TypeInv, UsersAssumption, TimeAssumption
     DEF CronUnlinkData, Goto, ghosts, TypeInv, TypeOK, ModifyOps, MdFile,
         Body, DltFlags, LockFlags, Contents, Positions, Ops, Modifies
<1>41. ASSUME NEW p \in Procs, CronEmpty(p)
      PROVE  TypeInv'
  BY <1>41, TypeInv, UsersAssumption, TimeAssumption
     DEF CronEmpty, Goto, MdPresent, Blank, filevars, ghosts, TypeInv,
         TypeOK, ModifyOps, MdFile, Body, DltFlags, LockFlags, Contents,
         Positions, Ops, Modifies
<1>42. ASSUME NEW p \in Procs, CronUnlinkMd(p)
      PROVE  TypeInv'
  BY <1>42, TypeInv, UsersAssumption, TimeAssumption
     DEF CronUnlinkMd, Goto, MdPresent, NoMd, Blank, TypeInv, TypeOK,
         ModifyOps, MdFile, Body, DltFlags, LockFlags, Contents, Positions,
         Ops, Modifies
<1>43. ASSUME NEW p \in Procs, CronHistory(p)
      PROVE  TypeInv'
  BY <1>43, TypeInv, UsersAssumption, TimeAssumption
     DEF CronHistory, Exit, ghosts, Goto, NoMd, Blank, TypeInv, TypeOK,
         ModifyOps, MdFile, Body, DltFlags, LockFlags, Contents, Positions,
         Ops, Modifies
<1>44. ASSUME NEW p \in Procs, Die(p)
      PROVE  TypeInv'
  BY <1>44, TypeInv, UsersAssumption, TimeAssumption
     DEF Die, Exit, Idle, filevars, ghosts, Goto, NoMd, Blank, TypeInv,
         TypeOK, ModifyOps, MdFile, Body, DltFlags, LockFlags, Contents,
         Positions, Ops, Modifies
<1>45. ASSUME Tick
      PROVE  TypeInv'
  BY <1>45, TypeInv, UsersAssumption, TimeAssumption
     DEF Tick, filevars, procvars, ghosts, TypeInv, TypeOK, ModifyOps,
         MdFile, Body, DltFlags, LockFlags, Contents, Positions, Ops,
         Modifies
<1>46. ASSUME UNCHANGED vars
      PROVE  TypeInv'
  BY <1>46, TypeInv DEF vars, filevars, procvars, ghosts, TypeInv, TypeOK,
         ModifyOps
<1> QED BY [Next]_vars, <1>1, <1>2, <1>3, <1>4, <1>5, <1>6, <1>7, <1>8, <1>9,
       <1>10, <1>11, <1>12, <1>13, <1>14, <1>15, <1>16, <1>17, <1>18, <1>19,
       <1>20, <1>21, <1>22, <1>23, <1>24, <1>25, <1>26, <1>27, <1>28, <1>29,
       <1>30, <1>31, <1>32, <1>33, <1>34, <1>35, <1>36, <1>37, <1>38, <1>39,
       <1>40, <1>41, <1>42, <1>43, <1>44, <1>45, <1>46
    DEF Next, Arrive, UploadStep, RequestStep, CronStep

-----------------------------------------------------------------------------
(* A request other than lock and unlock writes back the lock flag it read.  *)
LEMMA ModifiedLock ==
    ASSUME NEW o \in Modifies \ {"lock", "unlock"}, NEW u, NEW c \in Body,
           NEW b \in Modified(o, u, c)
    PROVE  b.lock = c.lock
<1> DEFINE d == [c EXCEPT !.own = u]
<1>1. d.lock = c.lock /\ d \in [own : {u}, dlt : DltFlags, lock : LockFlags \cup {"0"},
          time : Nat, ext : Nat, email : BOOLEAN, small : BOOLEAN]
  BY DEF Body
<1>2. CASE o = "extend"
  <2>1. PICK n \in 1 .. (ExtendMax - c.ext), w \in Weekend : b = Extended(d, n, w)
    BY <1>2 DEF Modified
  <2> HIDE DEF d
  <2> QED BY <1>1, <2>1 DEF Extended
<1>3. CASE o \in {"owner_dlt", "user_dlt"}
  <2>1. b = [d EXCEPT !.dlt = "owner"] \/ b = [d EXCEPT !.dlt = "no"]
    BY <1>3 DEF Modified
  <2> HIDE DEF d
  <2> QED BY <1>1, <2>1
<1>4. CASE o \in {"set_email", "clear_email"}
  <2>1. b = [d EXCEPT !.email = TRUE] \/ b = [d EXCEPT !.email = FALSE]
    BY <1>4 DEF Modified
  <2> HIDE DEF d
  <2> QED BY <1>1, <2>1
<1> QED BY <1>2, <1>3, <1>4 DEF Modifies

(* Every step keeps the lock invariant.                                    *)
LEMMA LockStep == ASSUME TypeInv, LockInv, [Next]_vars PROVE LockInv'
<1>1. ASSUME NEW p \in Procs, NEW u \in Users, PutStart(p, u)
      PROVE  LockInv'
  BY <1>1, TypeInv, LockInv, UsersAssumption
     DEF PutStart, TruncateMd, Goto, Idle, MdPresent, Blank, LockInv, Quiet,
         OneUpload, Opening, OpenedLocked, CopiesKnow, Released, Acking,
         ZipPositions, NoEarlyRelease, CronPositions, TypeInv, TypeOK
<1>2. ASSUME NEW p \in Procs, NEW u \in Users, BlockStart(p, u)
      PROVE  LockInv'
  BY <1>2, TypeInv, LockInv, UsersAssumption
     DEF BlockStart, Serve, MdPresent, filevars, ghosts, Goto, Idle, LockInv,
         Quiet, OneUpload, Opening, OpenedLocked, CopiesKnow, Released, Acking,
         ZipPositions, NoEarlyRelease, CronPositions, TypeInv, TypeOK
<1>3. ASSUME NEW p \in Procs, NEW u \in Users, AckStart(p, u)
      PROVE  LockInv'
  BY <1>3, TypeInv, LockInv, UsersAssumption
     DEF AckStart, Serve, MdPresent, filevars, ghosts, Goto, Idle, LockInv,
         Quiet, OneUpload, Opening, OpenedLocked, CopiesKnow, Released, Acking,
         ZipPositions, NoEarlyRelease, CronPositions, TypeInv, TypeOK
<1>4. ASSUME NEW p \in Procs, NEW u \in Users, OneStepStart(p, u)
      PROVE  LockInv'
  BY <1>4, TypeInv, LockInv, UsersAssumption
     DEF OneStepStart, Serve, Blank, filevars, Goto, Idle, LockInv, Quiet,
         OneUpload, Opening, OpenedLocked, CopiesKnow, Released, Acking,
         ZipPositions, NoEarlyRelease, MdPresent, CronPositions, TypeInv,
         TypeOK
<1>5. ASSUME NEW p \in Procs, NEW u \in Users, NEW o \in Modifies, ModifyRead(p, u, o)
      PROVE  LockInv'
  BY <1>5, TypeInv, LockInv, UsersAssumption
     DEF ModifyRead, Serve, MdPresent, Permitted, filevars, ghosts, Goto, Idle,
         LockInv, Quiet, OneUpload, Opening, OpenedLocked, CopiesKnow,
         Released, Acking, ZipPositions, NoEarlyRelease, CronPositions,
         TypeInv, TypeOK
<1>6. ASSUME NEW p \in Procs, NEW u \in Users, NEW o \in {"get", "getdlt"}, GetRead(p, u, o)
      PROVE  LockInv'
  BY <1>6, TypeInv, LockInv, UsersAssumption
     DEF GetRead, Serve, MdPresent, Retrievable, filevars, ghosts, Goto, Idle,
         LockInv, Quiet, OneUpload, Opening, OpenedLocked, CopiesKnow,
         Released, Acking, ZipPositions, NoEarlyRelease, CronPositions,
         TypeInv, TypeOK
<1>7. ASSUME NEW p \in Procs, NEW u \in Users, DeleteRead(p, u)
      PROVE  LockInv'
  BY <1>7, TypeInv, LockInv, UsersAssumption
     DEF DeleteRead, Serve, MdPresent, filevars, ghosts, Goto, Idle, LockInv,
         Quiet, OneUpload, Opening, OpenedLocked, CopiesKnow, Released, Acking,
         ZipPositions, NoEarlyRelease, CronPositions, TypeInv, TypeOK
<1>8. ASSUME NEW p \in Procs, NEW u \in Users, ZipRead(p, u)
      PROVE  LockInv'
  BY <1>8, TypeInv, LockInv, UsersAssumption
     DEF ZipRead, Serve, MdPresent, Retrievable, filevars, ghosts, Goto, Idle,
         LockInv, Quiet, OneUpload, Opening, OpenedLocked, CopiesKnow,
         Released, Acking, ZipPositions, NoEarlyRelease, CronPositions,
         TypeInv, TypeOK
<1>9. ASSUME NEW p \in Procs, CronStart(p)
      PROVE  LockInv'
  BY <1>9, TypeInv, LockInv, UsersAssumption
     DEF CronStart, Serve, Blank, filevars, ghosts, Goto, Idle, LockInv, Quiet,
         OneUpload, Opening, OpenedLocked, CopiesKnow, Released, Acking,
         ZipPositions, NoEarlyRelease, MdPresent, CronPositions, TypeInv,
         TypeOK
<1>10. ASSUME NEW p \in Procs, PutWriteMd(p)
      PROVE  LockInv'
  BY <1>10, TypeInv, LockInv, UsersAssumption
     DEF PutWriteMd, WriteMd, Goto, ghosts, MdPresent, LockInv, Quiet,
         OneUpload, Opening, OpenedLocked, CopiesKnow, Released, Acking,
         ZipPositions, NoEarlyRelease, CronPositions, TypeInv, TypeOK
<1>11. ASSUME NEW p \in Procs, PutParse(p)
      PROVE  LockInv'
  <2>1. TypeOK  BY TypeInv DEF TypeInv
  <2>2. MdPresent' /\ md'.body.lock # "l" => remade' /\ md'.body.lock = "0"
    <3>1. pc[p] = "put_parse"  BY <1>11, <2>1, ParseEffect
    <3>2. md' = md \/ (remade' = TRUE /\ md'.body = Blank)  BY <1>11, <2>1, ParseEffect
    <3>3. MdPresent => md.body.lock = "l"  BY <3>1, LockInv DEF LockInv,
                                                                OpenedLocked
    <3>4. Blank.lock = "0"  BY DEF Blank
    <3>5. CASE md' = md  BY <3>3, <3>5 DEF MdPresent
    <3>6. CASE remade' = TRUE /\ md'.body = Blank  BY <3>4, <3>6
    <3> QED BY <3>2, <3>5, <3>6
  <2>3. form' # "none" /\ announced' = TRUE
    BY <1>11, <2>1, ParseEffect, LockInv DEF LockInv, OneUpload, Opening
  <2>4. \A q \in Procs : pc'[q] \in {"idle", "put_open"} \cup CronPositions
    <3>1. pc[p] = "put_parse" /\ pc' = [pc EXCEPT ![p] = "put_open"]
      BY <1>11, <2>1, ParseEffect
    <3>2. \A q \in Procs \ {p} : pc[q] \in {"idle"} \cup CronPositions
      BY <3>1, LockInv DEF LockInv, Quiet, OneUpload, Opening
    <3> QED BY <2>1, <3>1, <3>2 DEF TypeOK
  <2> QED BY <2>2, <2>3, <2>4
          DEF LockInv, Quiet, OneUpload, Opening, OpenedLocked, CopiesKnow,
              Released, Acking, ZipPositions, NoEarlyRelease, CronPositions
<1>12. ASSUME NEW p \in Procs, PutOpenSerial(p)
      PROVE  LockInv'
  BY <1>12, TypeInv, LockInv, UsersAssumption
     DEF PutOpenSerial, Goto, ghosts, LockInv, Quiet, OneUpload, Opening,
         OpenedLocked, CopiesKnow, Released, Acking, ZipPositions,
         NoEarlyRelease, MdPresent, CronPositions, TypeInv, TypeOK
<1>13. ASSUME NEW p \in Procs, PutOpenParallel(p)
      PROVE  LockInv'
  BY <1>13, TypeInv, LockInv, UsersAssumption
     DEF PutOpenParallel, Exit, ghosts, Goto, NoMd, Blank, LockInv, Quiet,
         OneUpload, Opening, OpenedLocked, CopiesKnow, Released, Acking,
         ZipPositions, NoEarlyRelease, MdPresent, CronPositions, TypeInv,
         TypeOK
<1>14. ASSUME NEW p \in Procs, PutReceive(p)
      PROVE  LockInv'
  BY <1>14, TypeInv, LockInv, UsersAssumption
     DEF PutReceive, Goto, ghosts, LockInv, Quiet, OneUpload, Opening,
         OpenedLocked, CopiesKnow, Released, Acking, ZipPositions,
         NoEarlyRelease, MdPresent, CronPositions, TypeInv, TypeOK
<1>15. ASSUME NEW p \in Procs, PutCheckPass(p)
      PROVE  LockInv'
  BY <1>15, TypeInv, LockInv, UsersAssumption
     DEF PutCheckPass, Goto, filevars, LockInv, Quiet, OneUpload, Opening,
         OpenedLocked, CopiesKnow, Released, Acking, ZipPositions,
         NoEarlyRelease, MdPresent, CronPositions, TypeInv, TypeOK
<1>16. ASSUME NEW p \in Procs, PutCheckFail(p)
      PROVE  LockInv'
  BY <1>16, TypeInv, LockInv, UsersAssumption
     DEF PutCheckFail, Goto, ghosts, LockInv, Quiet, OneUpload, Opening,
         OpenedLocked, CopiesKnow, Released, Acking, ZipPositions,
         NoEarlyRelease, MdPresent, CronPositions, TypeInv, TypeOK
<1>17. ASSUME NEW p \in Procs, PutDrop(p)
      PROVE  LockInv'
  BY <1>17, TypeInv, LockInv, UsersAssumption
     DEF PutDrop, Exit, NoMd, ghosts, Goto, Blank, LockInv, Quiet, OneUpload,
         Opening, OpenedLocked, CopiesKnow, Released, Acking, ZipPositions,
         NoEarlyRelease, MdPresent, CronPositions, TypeInv, TypeOK
<1>18. ASSUME NEW p \in Procs, PutTruncate(p)
      PROVE  LockInv'
  BY <1>18, TypeInv, LockInv, UsersAssumption
     DEF PutTruncate, TruncateMd, Goto, ghosts, MdPresent, Blank, LockInv,
         Quiet, OneUpload, Opening, OpenedLocked, CopiesKnow, Released, Acking,
         ZipPositions, NoEarlyRelease, CronPositions, TypeInv, TypeOK
<1>19. ASSUME NEW p \in Procs, PutFinal(p)
      PROVE  LockInv'
  BY <1>19, TypeInv, LockInv, UsersAssumption
     DEF PutFinal, WriteMd, Goto, ghosts, MdPresent, LockInv, Quiet, OneUpload,
         Opening, OpenedLocked, CopiesKnow, Released, Acking, ZipPositions,
         NoEarlyRelease, CronPositions, TypeInv, TypeOK
<1>20. ASSUME NEW p \in Procs, PutHistory(p)
      PROVE  LockInv'
  BY <1>20, TypeInv, LockInv, UsersAssumption
     DEF PutHistory, Goto, ghosts, LockInv, Quiet, OneUpload, Opening,
         OpenedLocked, CopiesKnow, Released, Acking, ZipPositions,
         NoEarlyRelease, MdPresent, CronPositions, TypeInv, TypeOK
<1>21. ASSUME NEW p \in Procs, PutMsg(p)
      PROVE  LockInv'
  BY <1>21, TypeInv, LockInv, UsersAssumption
     DEF PutMsg, Exit, filevars, Goto, NoMd, Blank, LockInv, Quiet, OneUpload,
         Opening, OpenedLocked, CopiesKnow, Released, Acking, ZipPositions,
         NoEarlyRelease, MdPresent, CronPositions, TypeInv, TypeOK
<1>22. ASSUME NEW p \in Procs, BlockOpen(p)
      PROVE  LockInv'
  BY <1>22, TypeInv, LockInv, UsersAssumption
     DEF BlockOpen, Goto, ghosts, LockInv, Quiet, OneUpload, Opening,
         OpenedLocked, CopiesKnow, Released, Acking, ZipPositions,
         NoEarlyRelease, MdPresent, CronPositions, TypeInv, TypeOK
<1>23. ASSUME NEW p \in Procs, BlockWrite(p)
      PROVE  LockInv'
  BY <1>23, TypeInv, LockInv, UsersAssumption
     DEF BlockWrite, Exit, ghosts, Goto, NoMd, Blank, LockInv, Quiet,
         OneUpload, Opening, OpenedLocked, CopiesKnow, Released, Acking,
         ZipPositions, NoEarlyRelease, MdPresent, CronPositions, TypeInv,
         TypeOK
<1>24. ASSUME NEW p \in Procs, AckPass(p)
      PROVE  LockInv'
  BY <1>24, TypeInv, LockInv, UsersAssumption
     DEF AckPass, Goto, filevars, LockInv, Quiet, OneUpload, Opening,
         OpenedLocked, CopiesKnow, Released, Acking, ZipPositions,
         NoEarlyRelease, MdPresent, CronPositions, TypeInv, TypeOK
<1>25. ASSUME NEW p \in Procs, AckFail(p)
      PROVE  LockInv'
  BY <1>25, TypeInv, LockInv, UsersAssumption
     DEF AckFail, Goto, ghosts, LockInv, Quiet, OneUpload, Opening,
         OpenedLocked, CopiesKnow, Released, Acking, ZipPositions,
         NoEarlyRelease, MdPresent, CronPositions, TypeInv, TypeOK
<1>26. ASSUME NEW p \in Procs, OneStepMove(p)
      PROVE  LockInv'
  BY <1>26, TypeInv, LockInv, UsersAssumption
     DEF OneStepMove, Goto, LockInv, Quiet, OneUpload, Opening, OpenedLocked,
         CopiesKnow, Released, Acking, ZipPositions, NoEarlyRelease, MdPresent,
         CronPositions, TypeInv, TypeOK
<1>27. ASSUME NEW p \in Procs, ModifyWrite(p)
      PROVE  LockInv'
  <2>1. PICK b \in Modified(op[p], user[p], fs[p].body) : WriteMd(p, b)
    BY <1>27 DEF ModifyWrite
  <2>2. op[p] \in Modifies /\ fs[p].body \in Body
    BY <1>27, TypeInv DEF ModifyWrite, TypeInv, TypeOK, ModifyOps, MdFile
  <2>3. b.lock # "l" => Released(b.lock)
    <3>1. CASE op[p] \in {"lock", "unlock"}
      BY <1>27, <3>1, LockInv DEF ModifyWrite, LockInv, CopiesKnow, Released
    <3>2. CASE op[p] \notin {"lock", "unlock"}
      <4>1. b.lock = fs[p].body.lock  BY <2>1, <2>2, <3>2, ModifiedLock
      <4> QED BY <1>27, <4>1, LockInv DEF ModifyWrite, LockInv, CopiesKnow
    <3> QED BY <3>1, <3>2
  <2>4. announced
    BY <1>27, LockInv DEF ModifyWrite, LockInv, Quiet, CronPositions
  <2>5. /\ md'.ino = md.ino
        /\ md'.body = IF MdPresent /\ md.ino = fs[p].ino THEN b ELSE md.body
    BY <2>1, TypeInv DEF WriteMd, TypeInv, TypeOK, MdFile
  <2> QED BY <1>27, <2>3, <2>4, <2>5, TypeInv, LockInv
          DEF ModifyWrite, Exit, Goto, NoMd, Blank, ghosts, TypeInv, TypeOK,
              LockInv, Quiet, OneUpload, Opening, OpenedLocked, CopiesKnow,
              Released, Acking, ZipPositions, NoEarlyRelease, MdPresent,
              CronPositions
<1>28. ASSUME NEW p \in Procs, GetOpen(p)
      PROVE  LockInv'
  BY <1>28, TypeInv, LockInv, UsersAssumption
     DEF GetOpen, Goto, filevars, ghosts, LockInv, Quiet, OneUpload, Opening,
         OpenedLocked, CopiesKnow, Released, Acking, ZipPositions,
         NoEarlyRelease, MdPresent, CronPositions, TypeInv, TypeOK
<1>29. ASSUME NEW p \in Procs, GetDone(p)
      PROVE  LockInv'
  BY <1>29, TypeInv, LockInv, UsersAssumption
     DEF GetDone, Exit, Goto, filevars, ghosts, NoMd, Blank, LockInv, Quiet,
         OneUpload, Opening, OpenedLocked, CopiesKnow, Released, Acking,
         ZipPositions, NoEarlyRelease, MdPresent, CronPositions, TypeInv,
         TypeOK
<1>30. ASSUME NEW p \in Procs, UnlinkMd(p)
      PROVE  LockInv'
  BY <1>30, TypeInv, LockInv, UsersAssumption
     DEF UnlinkMd, Goto, MdPresent, NoMd, Blank, LockInv, Quiet, OneUpload,
         Opening, OpenedLocked, CopiesKnow, Released, Acking, ZipPositions,
         NoEarlyRelease, CronPositions, TypeInv, TypeOK
<1>31. ASSUME NEW p \in Procs, UnlinkData(p)
      PROVE  LockInv'
  BY <1>31, TypeInv, LockInv, UsersAssumption
     DEF UnlinkData, Exit, Goto, NoMd, Blank, LockInv, Quiet, OneUpload,
         Opening, OpenedLocked, CopiesKnow, Released, Acking, ZipPositions,
         NoEarlyRelease, MdPresent, CronPositions, TypeInv, TypeOK
<1>32. ASSUME NEW p \in Procs, ZipLock(p)
      PROVE  LockInv'
  BY <1>32, TypeInv, LockInv, UsersAssumption
     DEF ZipLock, WriteMd, Goto, ghosts, MdPresent, LockInv, Quiet, OneUpload,
         Opening, OpenedLocked, CopiesKnow, Released, Acking, ZipPositions,
         NoEarlyRelease, CronPositions, TypeInv, TypeOK
<1>33. ASSUME NEW p \in Procs, ZipMove(p)
      PROVE  LockInv'
  BY <1>33, TypeInv, LockInv, UsersAssumption
     DEF ZipMove, Goto, ghosts, LockInv, Quiet, OneUpload, Opening,
         OpenedLocked, CopiesKnow, Released, Acking, ZipPositions,
         NoEarlyRelease, MdPresent, CronPositions, TypeInv, TypeOK
<1>34. ASSUME NEW p \in Procs, ZipCompress(p)
      PROVE  LockInv'
  BY <1>34, TypeInv, LockInv, UsersAssumption
     DEF ZipCompress, Goto, ghosts, LockInv, Quiet, OneUpload, Opening,
         OpenedLocked, CopiesKnow, Released, Acking, ZipPositions,
         NoEarlyRelease, MdPresent, CronPositions, TypeInv, TypeOK
<1>35. ASSUME NEW p \in Procs, ZipFinish(p)
      PROVE  LockInv'
  BY <1>35, TypeInv, LockInv, UsersAssumption
     DEF ZipFinish, Goto, ghosts, LockInv, Quiet, OneUpload, Opening,
         OpenedLocked, CopiesKnow, Released, Acking, ZipPositions,
         NoEarlyRelease, MdPresent, CronPositions, TypeInv, TypeOK
<1>36. ASSUME NEW p \in Procs, ZipReread(p)
      PROVE  LockInv'
  BY <1>36, TypeInv, LockInv, UsersAssumption
     DEF ZipReread, Goto, MdPresent, filevars, ghosts, LockInv, Quiet,
         OneUpload, Opening, OpenedLocked, CopiesKnow, Released, Acking,
         ZipPositions, NoEarlyRelease, CronPositions, TypeInv, TypeOK
<1>37. ASSUME NEW p \in Procs, ZipUnlock(p)
      PROVE  LockInv'
  BY <1>37, TypeInv, LockInv, UsersAssumption
     DEF ZipUnlock, WriteMd, Exit, ghosts, MdPresent, Goto, NoMd, Blank,
         LockInv, Quiet, OneUpload, Opening, OpenedLocked, CopiesKnow,
         Released, Acking, ZipPositions, NoEarlyRelease, CronPositions,
         TypeInv, TypeOK
<1>38. ASSUME NEW p \in Procs, CronData(p)
      PROVE  LockInv'
  BY <1>38, TypeInv, LockInv, UsersAssumption
     DEF CronData, Goto, MdPresent, CronSeesExpired, filevars, ghosts, Blank,
         Expired, LockInv, Quiet, OneUpload, Opening, OpenedLocked, CopiesKnow,
         Released, Acking, ZipPositions, NoEarlyRelease, CronPositions,
         TypeInv, TypeOK
<1>39. ASSUME NEW p \in Procs, CronUnlinkExpired(p)
      PROVE  LockInv'
  BY <1>39, TypeInv, LockInv, UsersAssumption
     DEF CronUnlinkExpired, Goto, MdPresent, NoMd, Blank, LockInv, Quiet,
         OneUpload, Opening, OpenedLocked, CopiesKnow, Released, Acking,
         ZipPositions, NoEarlyRelease, CronPositions, TypeInv, TypeOK
<1>40. ASSUME NEW p \in Procs, CronUnlinkData(p)
      PROVE  LockInv'
  BY <1>40, TypeInv, LockInv, UsersAssumption
     DEF CronUnlinkData, Goto, ghosts, LockInv, Quiet, OneUpload, Opening,
         OpenedLocked, CopiesKnow, Released, Acking, ZipPositions,
         NoEarlyRelease, MdPresent, CronPositions, TypeInv, TypeOK
<1>41. ASSUME NEW p \in Procs, CronEmpty(p)
      PROVE  LockInv'
  BY <1>41, TypeInv, LockInv, UsersAssumption
     DEF CronEmpty, Goto, MdPresent, Blank, filevars, ghosts, LockInv, Quiet,
         OneUpload, Opening, OpenedLocked, CopiesKnow, Released, Acking,
         ZipPositions, NoEarlyRelease, CronPositions, TypeInv, TypeOK
<1>42. ASSUME NEW p \in Procs, CronUnlinkMd(p)
      PROVE  LockInv'
  BY <1>42, TypeInv, LockInv, UsersAssumption
     DEF CronUnlinkMd, Goto, MdPresent, NoMd, Blank, LockInv, Quiet, OneUpload,
         Opening, OpenedLocked, CopiesKnow, Released, Acking, ZipPositions,
         NoEarlyRelease, CronPositions, TypeInv, TypeOK
<1>43. ASSUME NEW p \in Procs, CronHistory(p)
      PROVE  LockInv'
  BY <1>43, TypeInv, LockInv, UsersAssumption
     DEF CronHistory, Exit, ghosts, Goto, NoMd, Blank, LockInv, Quiet,
         OneUpload, Opening, OpenedLocked, CopiesKnow, Released, Acking,
         ZipPositions, NoEarlyRelease, MdPresent, CronPositions, TypeInv,
         TypeOK
<1>44. ASSUME NEW p \in Procs, Die(p)
      PROVE  LockInv'
  BY <1>44, TypeInv, LockInv, UsersAssumption
     DEF Die, Exit, Idle, filevars, ghosts, Goto, NoMd, Blank, LockInv, Quiet,
         OneUpload, Opening, OpenedLocked, CopiesKnow, Released, Acking,
         ZipPositions, NoEarlyRelease, MdPresent, CronPositions, TypeInv,
         TypeOK
<1>45. ASSUME Tick
      PROVE  LockInv'
  BY <1>45, TypeInv, LockInv, UsersAssumption
     DEF Tick, filevars, procvars, ghosts, LockInv, Quiet, OneUpload, Opening,
         OpenedLocked, CopiesKnow, Released, Acking, ZipPositions,
         NoEarlyRelease, MdPresent, CronPositions, TypeInv, TypeOK
<1>46. ASSUME UNCHANGED vars
      PROVE  LockInv'
  BY <1>46, LockInv DEF vars, filevars, procvars, ghosts, LockInv, Quiet,
                        OneUpload, Opening, OpenedLocked, CopiesKnow, Released,
                        Acking, ZipPositions, NoEarlyRelease, MdPresent
<1> QED BY [Next]_vars, <1>1, <1>2, <1>3, <1>4, <1>5, <1>6, <1>7, <1>8, <1>9,
       <1>10, <1>11, <1>12, <1>13, <1>14, <1>15, <1>16, <1>17, <1>18, <1>19,
       <1>20, <1>21, <1>22, <1>23, <1>24, <1>25, <1>26, <1>27, <1>28, <1>29,
       <1>30, <1>31, <1>32, <1>33, <1>34, <1>35, <1>36, <1>37, <1>38, <1>39,
       <1>40, <1>41, <1>42, <1>43, <1>44, <1>45, <1>46
    DEF Next, Arrive, UploadStep, RequestStep, CronStep

-----------------------------------------------------------------------------
LEMMA InitInv == Init => IInv
<1> SUFFICES ASSUME Init PROVE IInv  OBVIOUS
<1>1. TypeInv
  BY BodyBlank DEF Init, TypeInv, TypeOK, ModifyOps, MdFile, NoMd, Contents,
                   Positions, Ops
<1>2. LockInv
  BY DEF Init, LockInv, Quiet, OneUpload, Opening, OpenedLocked, CopiesKnow,
         Released, Acking, ZipPositions, NoEarlyRelease, MdPresent, NoMd
<1> QED BY <1>1, <1>2 DEF IInv

(* The invariant from which both results follow.                           *)
LEMMA Inductive == Spec => []IInv
<1>1. IInv /\ [Next]_vars => IInv'
  BY TypeStep, LockStep DEF IInv
<1> QED BY InitInv, <1>1, PTL DEF Spec

(* Every handler leaves the metadata, the files and its own copies with    *)
(* values the code can read back.                                          *)
THEOREM TypeCorrect == Spec => []TypeOK
<1>1. IInv => TypeOK  BY DEF IInv, TypeInv
<1> QED BY Inductive, <1>1, PTL

(* The lock 'l' that put_big_file writes before the transfer is still there *)
(* until the data have been received and checked: no extension, lock, owner *)
(* change or e-mail request, however it is interleaved with the upload and *)
(* with the audits, makes an incomplete item look complete; nor does a zip *)
(* unless data_log had made the metadata anew, without any flag.           *)
THEOREM LockHeld == Spec => []NoEarlyRelease
<1>1. IInv => NoEarlyRelease  BY DEF IInv, LockInv
<1> QED BY Inductive, <1>1, PTL
=============================================================================
