-------------------------- MODULE RepositorySafety --------------------------
(***************************************************************************)
(* What Repository promises beyond its transfer lock, each from its own    *)
(* inductive invariant: a retrieval sends whole data, a deletion is final, *)
(* a retrieval lock and shared data are kept, extensions are bounded, and  *)
(* an acknowledged upload is safe.                                         *)
(***************************************************************************)
EXTENDS RepositoryProofs

-----------------------------------------------------------------------------
(***************************************************************************)
(* The course of an upload.                                                *)
(***************************************************************************)

(* The positions of the one process that makes the upload: those before    *)
(* the data were checked, and those of put_trans_file_ack.                 *)
Checking == {"put_md", "put_parse", "put_open", "put_rcv", "put_check", "put_drop",
             "u1_move", "ack_check"}
Uploading == Checking \cup Acking

(* What a position tells about the upload.                                 *)
PositionKnows(p) ==
    /\ pc[p] \in {"put_md", "put_parse", "put_open"}
           => form \in {"serial", "parallel"} /\ transfer = "no"
    /\ pc[p] \in {"put_rcv", "put_check"} => form = "serial"
    /\ pc[p] = "u1_move" => form = "onestep"
    /\ pc[p] = "ack_check" => transfer = "acked"
    /\ pc[p] \in {"blk_open", "blk_write"} => transfer # "no"
    /\ pc[p] \in Checking => ~received
    /\ pc[p] \in ZipPositions => zipped

UploadInv ==
    /\ \A p \in Procs : PositionKnows(p)
    /\ \A p, q \in Procs : pc[p] \in Uploading /\ pc[q] \in Uploading => p = q
    /\ transfer # "no" => form = "parallel" /\ announced
    /\ transfer = "parallel" => ~received /\ \A p \in Procs : pc[p] \notin Uploading
    /\ received => announced
    /\ received /\ form = "parallel" => transfer = "acked"
    /\ acked => received
    /\ counted => transfer # "no"
    /\ remade => announced

(* Before the keyword is sent nobody but the audits is at work beside the  *)
(* upload; then its copy is released, and metadata made anew are empty.    *)
LEMMA ParseCourse ==
    ASSUME TypeInv, LockInv, UploadInv, NEW p \in Procs, PutParse(p)
    PROVE  /\ pc[p] = "put_parse" /\ pc'[p] = "put_open"
           /\ \A q \in Procs : q # p => /\ pc[q] \in {"idle"} \cup CronPositions
                                       /\ pc'[q] = pc[q] /\ fs'[q] = fs[q]
           /\ ~announced /\ ~received /\ ~acked /\ transfer = "no" /\ ~counted
           /\ form \in {"serial", "parallel"}
           /\ MdPresent => md.body.lock = "l"
           /\ fs'[p].body.lock = "u"
           /\ fs'[p].body.time = fs[p].body.time /\ fs'[p].body.ext = fs[p].body.ext
           /\ several' => fs'[p].body.dlt = "no"
           /\ announced' = TRUE
           /\ \/ remade' = FALSE /\ md' = md /\ fs'[p].ino = fs[p].ino
              \/ remade' = TRUE /\ ~MdPresent /\ md'.body = Blank /\ md'.ino # 0
           /\ UNCHANGED <<data, aside, op, user, got, transfer, counted, form, owner,
                  due, cut, zipped, received, acked, removed>>
<1>1. TypeOK  BY DEF TypeInv
<1>2. /\ pc[p] = "put_parse" /\ pc' = [pc EXCEPT ![p] = "put_open"]
      /\ announced' = TRUE
      /\ \A q \in Procs \ {p} : fs'[q] = fs[q]
      /\ fs'[p].body = [fs[p].body EXCEPT !.lock = "u",
                            !.dlt = IF several' THEN "no" ELSE fs[p].body.dlt]
      /\ \/ remade' = FALSE /\ md' = md /\ fs'[p].ino = fs[p].ino
         \/ /\ remade' = TRUE /\ ~MdPresent /\ md'.body = Blank
            /\ md'.ino = fs[p].ino + 1
      /\ UNCHANGED <<data, aside, op, user, got, transfer, counted, form, owner,
             due, cut, zipped, received, acked, removed>>
  BY <1>1, ParseEffect
<1>3. fs[p].body \in Body /\ fs[p].ino \in Nat  BY <1>1 DEF TypeOK, MdFile
<1>4. ~announced  BY <1>2 DEF LockInv, OneUpload, Opening
<1>5. transfer = "no" /\ ~received /\ ~counted /\ ~acked
  BY <1>1, <1>4 DEF LockInv, Quiet, UploadInv, TypeOK
<1>6. form \in {"serial", "parallel"}  BY <1>2 DEF UploadInv, PositionKnows
<1>7. MdPresent => md.body.lock = "l"  BY <1>2 DEF LockInv, OpenedLocked
<1>8. ASSUME NEW q \in Procs, q # p PROVE pc[q] \in {"idle"} \cup CronPositions
  <2>1. ~Opening(q)  BY <1>2, <1>8 DEF LockInv, OneUpload, Opening
  <2> QED BY <1>4, <2>1 DEF LockInv, Quiet, Opening
<1>9. pc'[p] = "put_open" /\ \A q \in Procs : q # p => pc'[q] = pc[q]
  BY <1>1, <1>2 DEF TypeOK
<1>10. /\ fs'[p].body.lock = "u" /\ fs'[p].body.time = fs[p].body.time
       /\ fs'[p].body.ext = fs[p].body.ext /\ (several' => fs'[p].body.dlt = "no")
  BY <1>2, <1>3 DEF Body
<1>11. remade' = TRUE => md'.ino # 0  BY <1>2, <1>3
<1> QED BY <1>2, <1>4, <1>5, <1>6, <1>7, <1>8, <1>9, <1>10, <1>11

(* Every step keeps the course of the upload.                              *)
LEMMA UploadStepInv ==
    ASSUME TypeInv, LockInv, UploadInv, [Next]_vars PROVE UploadInv'
<1> USE TypeInv, LockInv, UploadInv
        DEF Serve, Exit, Goto, Idle, MdPresent, NoMd, filevars, ghosts,
            UploadInv, PositionKnows, Uploading, Checking, Acking,
            ZipPositions, LockInv, Quiet, OneUpload, Opening, CopiesKnow,
            Released, OtherDisk, CronPositions, TypeInv, TypeOK
<1>1. ASSUME NEW p \in Procs, NEW u \in Users, PutStart(p, u) PROVE UploadInv'
  BY <1>1 DEF PutStart, TruncateMd, Blank
<1>2. ASSUME NEW p \in Procs, NEW u \in Users, BlockStart(p, u) PROVE UploadInv'
  BY <1>2 DEF BlockStart
<1>3. ASSUME NEW p \in Procs, NEW u \in Users, AckStart(p, u) PROVE UploadInv'
  BY <1>3 DEF AckStart
<1>4. ASSUME NEW p \in Procs, NEW u \in Users, OneStepStart(p, u)
      PROVE  UploadInv'
  BY <1>4 DEF OneStepStart, Blank
<1>5. ASSUME NEW p \in Procs, NEW u \in Users, NEW o \in Modifies,
             ModifyRead(p, u, o)
      PROVE  UploadInv'
  BY <1>5 DEF ModifyRead, Permitted
<1>6. ASSUME NEW p \in Procs, NEW u \in Users, NEW o \in {"get", "getdlt"},
             GetRead(p, u, o)
      PROVE  UploadInv'
  BY <1>6 DEF GetRead, Retrievable
<1>7. ASSUME NEW p \in Procs, NEW u \in Users, DeleteRead(p, u) PROVE UploadInv'
  BY <1>7 DEF DeleteRead
<1>8. ASSUME NEW p \in Procs, NEW u \in Users, ZipRead(p, u) PROVE UploadInv'
  BY <1>8 DEF ZipRead, Retrievable
<1>9. ASSUME NEW p \in Procs, CronStart(p) PROVE UploadInv'
  BY <1>9 DEF CronStart, Blank
<1>10. ASSUME NEW p \in Procs, PutWriteMd(p) PROVE UploadInv'
  BY <1>10 DEF PutWriteMd, WriteMd
<1>11. ASSUME NEW p \in Procs, PutParse(p) PROVE UploadInv'
  <2>1. /\ pc'[p] = "put_open"
        /\ \A q \in Procs : q # p => /\ pc[q] \in {"idle"} \cup CronPositions
                                    /\ pc'[q] = pc[q] /\ fs'[q] = fs[q]
        /\ transfer' = "no" /\ ~received' /\ ~acked' /\ ~counted' /\ announced'
        /\ form' \in {"serial", "parallel"}
    BY <1>11, ParseCourse
  <2>2. \A q \in Procs : q # p => pc'[q] \in {"idle"} \cup CronPositions
    BY <2>1
  <2> HIDE DEF LockInv, TypeInv
  <2> QED BY <2>1, <2>2
<1>12. ASSUME NEW p \in Procs, PutOpenSerial(p) PROVE UploadInv'
  BY <1>12 DEF PutOpenSerial
<1>13. ASSUME NEW p \in Procs, PutOpenParallel(p) PROVE UploadInv'
  BY <1>13 DEF PutOpenParallel, Blank
<1>14. ASSUME NEW p \in Procs, PutReceive(p) PROVE UploadInv'
  BY <1>14 DEF PutReceive
<1>15. ASSUME NEW p \in Procs, PutCheckPass(p) PROVE UploadInv'
  BY <1>15 DEF PutCheckPass
<1>16. ASSUME NEW p \in Procs, PutCheckFail(p) PROVE UploadInv'
  BY <1>16 DEF PutCheckFail
<1>17. ASSUME NEW p \in Procs, PutDrop(p) PROVE UploadInv'
  BY <1>17 DEF PutDrop, Blank
<1>18. ASSUME NEW p \in Procs, PutTruncate(p) PROVE UploadInv'
  BY <1>18 DEF PutTruncate, TruncateMd, Blank
<1>19. ASSUME NEW p \in Procs, PutFinal(p) PROVE UploadInv'
  BY <1>19 DEF PutFinal, WriteMd
<1>20. ASSUME NEW p \in Procs, PutHistory(p) PROVE UploadInv'
  BY <1>20 DEF PutHistory
<1>21. ASSUME NEW p \in Procs, PutMsg(p) PROVE UploadInv'
  BY <1>21 DEF PutMsg, Blank
<1>22. ASSUME NEW p \in Procs, BlockOpen(p) PROVE UploadInv'
  BY <1>22 DEF BlockOpen
<1>23. ASSUME NEW p \in Procs, BlockWrite(p) PROVE UploadInv'
  BY <1>23 DEF BlockWrite, Blank
<1>24. ASSUME NEW p \in Procs, AckPass(p) PROVE UploadInv'
  BY <1>24, PassEffect DEF AckPass
<1>25. ASSUME NEW p \in Procs, AckFail(p) PROVE UploadInv'
  BY <1>25 DEF AckFail
<1>26. ASSUME NEW p \in Procs, OneStepMove(p) PROVE UploadInv'
  BY <1>26 DEF OneStepMove
<1>27. ASSUME NEW p \in Procs, ModifyWrite(p) PROVE UploadInv'
  BY <1>27 DEF ModifyWrite, WriteMd, Modified, Blank
<1>28. ASSUME NEW p \in Procs, GetOpen(p) PROVE UploadInv'
  BY <1>28 DEF GetOpen
<1>29. ASSUME NEW p \in Procs, GetDone(p) PROVE UploadInv'
  BY <1>29 DEF GetDone, Blank
<1>30. ASSUME NEW p \in Procs, UnlinkMd(p) PROVE UploadInv'
  BY <1>30 DEF UnlinkMd, Blank
<1>31. ASSUME NEW p \in Procs, UnlinkData(p) PROVE UploadInv'
  BY <1>31 DEF UnlinkData, Blank
<1>32. ASSUME NEW p \in Procs, ZipLock(p) PROVE UploadInv'
  BY <1>32 DEF ZipLock, WriteMd
<1>33. ASSUME NEW p \in Procs, ZipMove(p) PROVE UploadInv'
  BY <1>33 DEF ZipMove
<1>34. ASSUME NEW p \in Procs, ZipCompress(p) PROVE UploadInv'
  BY <1>34 DEF ZipCompress
<1>35. ASSUME NEW p \in Procs, ZipFinish(p) PROVE UploadInv'
  BY <1>35 DEF ZipFinish
<1>36. ASSUME NEW p \in Procs, ZipReread(p) PROVE UploadInv'
  BY <1>36 DEF ZipReread
<1>37. ASSUME NEW p \in Procs, ZipUnlock(p) PROVE UploadInv'
  BY <1>37 DEF ZipUnlock, WriteMd, Blank
<1>38. ASSUME NEW p \in Procs, CronData(p) PROVE UploadInv'
  BY <1>38 DEF CronData, CronSeesExpired, Blank, Expired
<1>39. ASSUME NEW p \in Procs, CronUnlinkExpired(p) PROVE UploadInv'
  BY <1>39 DEF CronUnlinkExpired, Blank
<1>40. ASSUME NEW p \in Procs, CronUnlinkData(p) PROVE UploadInv'
  BY <1>40 DEF CronUnlinkData
<1>41. ASSUME NEW p \in Procs, CronEmpty(p) PROVE UploadInv'
  BY <1>41 DEF CronEmpty, Blank
<1>42. ASSUME NEW p \in Procs, CronUnlinkMd(p) PROVE UploadInv'
  BY <1>42 DEF CronUnlinkMd, Blank
<1>43. ASSUME NEW p \in Procs, CronHistory(p) PROVE UploadInv'
  BY <1>43 DEF CronHistory, Blank
<1>44. ASSUME NEW p \in Procs, Die(p) PROVE UploadInv'
  BY <1>44 DEF Die, Blank
<1>45. ASSUME Tick PROVE UploadInv'
  BY <1>45 DEF Tick, procvars
<1>46. ASSUME UNCHANGED vars PROVE UploadInv'
  BY <1>46 DEF vars, procvars
<1> HIDE DEF MdPresent, UploadInv, PositionKnows, Uploading, Checking,
             Acking, ZipPositions, LockInv, Quiet, OneUpload, Opening,
             CopiesKnow, Released, OtherDisk, CronPositions, TypeInv, TypeOK
<1> QED BY [Next]_vars, <1>1, <1>2, <1>3, <1>4, <1>5, <1>6, <1>7, <1>8, <1>9,
       <1>10, <1>11, <1>12, <1>13, <1>14, <1>15, <1>16, <1>17, <1>18, <1>19,
       <1>20, <1>21, <1>22, <1>23, <1>24, <1>25, <1>26, <1>27, <1>28, <1>29,
       <1>30, <1>31, <1>32, <1>33, <1>34, <1>35, <1>36, <1>37, <1>38, <1>39,
       <1>40, <1>41, <1>42, <1>43, <1>44, <1>45, <1>46
    DEF Next, Arrive, UploadStep, RequestStep, CronStep

-----------------------------------------------------------------------------
(***************************************************************************)
(* Retrieval.                                                              *)
(***************************************************************************)

(* The data file of a serial or 1-step upload, once checked, is whole or   *)
(* gone; nobody opens it for a get before, but who has read metadata that  *)
(* data_log made anew.                                                     *)
CheckedInv ==
    /\ ~zipped => aside = "absent"
    /\ received /\ ~zipped /\ transfer = "no" => data # "partial"
    /\ \A p \in Procs :
           /\ pc[p] = "put_check" /\ ~zipped => data # "partial"
           /\ pc[p] \in {"get_open", "get_send"} => Released(fs[p].body.lock)

(* Before a parallel transfer begins there is no data file for the audits  *)
(* to find.                                                                *)
EmptyInv ==
    form \in {"none", "parallel"} /\ transfer = "no"
        => /\ data = "absent" /\ aside = "absent"
           /\ \A p \in Procs : pc[p] \notin {"cron_expired", "cron_data_unlink"}

(* An upload in progress or received, whose metadata nobody has removed,   *)
(* has them, and nothing is about to remove its data.                      *)
Receiving == \/ form = "parallel" /\ transfer # "acked"
             \/ \E p \in Procs : pc[p] \in {"put_md", "put_parse", "put_open",
                                         "put_rcv", "put_check", "ack_check"}

Sound == form \in {"serial", "parallel"} /\ removed = "none" /\ (received \/ Receiving)

Intact == data = "whole" \/ (cut /\ data = "partial")

SoundInv ==
    /\ form \in {"serial", "parallel"} /\ remade => removed # "none"
    /\ form = "parallel" /\ received => counted
    /\ \A p \in Procs : pc[p] \in {"blk_open", "blk_write"} /\ OtherDisk(p) /\ ~zipped
                          => counted \/ remade
    /\ Sound =>
         /\ MdPresent
         /\ \A p \in Procs : pc[p] \notin {"unlink_data", "cron_data_unlink", "put_drop"}
         /\ ~zipped =>
              /\ transfer # "no" \/ (\E p \in Procs : pc[p] = "put_rcv") => data # "absent"
              /\ (\E p \in Procs : pc[p] = "put_check") => data = "whole"
              /\ counted \/ received => Intact

(* No step makes the data of a checked upload partial again.               *)
LEMMA CheckedStep ==
    ASSUME TypeInv, LockInv, UploadInv, CheckedInv, [Next]_vars
    PROVE  CheckedInv'
<1> USE TypeInv, LockInv, UploadInv, CheckedInv
        DEF Serve, Exit, Goto, Idle, MdPresent, NoMd, filevars, ghosts,
            CheckedInv, UploadInv, PositionKnows, Uploading, Checking, Acking,
            ZipPositions, LockInv, Quiet, OneUpload, OpenedLocked,
            NoEarlyRelease, Opening, CopiesKnow, Released, OtherDisk,
            CronPositions, TypeInv, TypeOK, Contents, MdFile
<1>1. ASSUME NEW p \in Procs, NEW u \in Users, PutStart(p, u) PROVE CheckedInv'
  BY <1>1 DEF PutStart, TruncateMd, Blank
<1>2. ASSUME NEW p \in Procs, NEW u \in Users, BlockStart(p, u)
      PROVE  CheckedInv'
  BY <1>2 DEF BlockStart
<1>3. ASSUME NEW p \in Procs, NEW u \in Users, AckStart(p, u) PROVE CheckedInv'
  BY <1>3 DEF AckStart
<1>4. ASSUME NEW p \in Procs, NEW u \in Users, OneStepStart(p, u)
      PROVE  CheckedInv'
  BY <1>4 DEF OneStepStart, Blank
<1>5. ASSUME NEW p \in Procs, NEW u \in Users, NEW o \in Modifies,
             ModifyRead(p, u, o)
      PROVE  CheckedInv'
  BY <1>5 DEF ModifyRead, Permitted
<1>6. ASSUME NEW p \in Procs, NEW u \in Users, NEW o \in {"get", "getdlt"},
             GetRead(p, u, o)
      PROVE  CheckedInv'
  BY <1>6 DEF GetRead, Retrievable
<1>7. ASSUME NEW p \in Procs, NEW u \in Users, DeleteRead(p, u)
      PROVE  CheckedInv'
  BY <1>7 DEF DeleteRead
<1>8. ASSUME NEW p \in Procs, NEW u \in Users, ZipRead(p, u) PROVE CheckedInv'
  BY <1>8 DEF ZipRead, Retrievable
<1>9. ASSUME NEW p \in Procs, CronStart(p) PROVE CheckedInv'
  BY <1>9 DEF CronStart, Blank
<1>10. ASSUME NEW p \in Procs, PutWriteMd(p) PROVE CheckedInv'
  BY <1>10 DEF PutWriteMd, WriteMd
<1>11. ASSUME NEW p \in Procs, PutParse(p) PROVE CheckedInv'
  BY <1>11, ParseCourse DEF Blank
<1>12. ASSUME NEW p \in Procs, PutOpenSerial(p) PROVE CheckedInv'
  BY <1>12 DEF PutOpenSerial
<1>13. ASSUME NEW p \in Procs, PutOpenParallel(p) PROVE CheckedInv'
  BY <1>13 DEF PutOpenParallel, Blank
<1>14. ASSUME NEW p \in Procs, PutReceive(p) PROVE CheckedInv'
  BY <1>14 DEF PutReceive
<1>15. ASSUME NEW p \in Procs, PutCheckPass(p) PROVE CheckedInv'
  BY <1>15 DEF PutCheckPass
<1>16. ASSUME NEW p \in Procs, PutCheckFail(p) PROVE CheckedInv'
  BY <1>16 DEF PutCheckFail
<1>17. ASSUME NEW p \in Procs, PutDrop(p) PROVE CheckedInv'
  BY <1>17 DEF PutDrop, Blank
<1>18. ASSUME NEW p \in Procs, PutTruncate(p) PROVE CheckedInv'
  BY <1>18 DEF PutTruncate, TruncateMd, Blank
<1>19. ASSUME NEW p \in Procs, PutFinal(p) PROVE CheckedInv'
  BY <1>19 DEF PutFinal, WriteMd
<1>20. ASSUME NEW p \in Procs, PutHistory(p) PROVE CheckedInv'
  BY <1>20 DEF PutHistory
<1>21. ASSUME NEW p \in Procs, PutMsg(p) PROVE CheckedInv'
  BY <1>21 DEF PutMsg, Blank
<1>22. ASSUME NEW p \in Procs, BlockOpen(p) PROVE CheckedInv'
  BY <1>22 DEF BlockOpen
<1>23. ASSUME NEW p \in Procs, BlockWrite(p) PROVE CheckedInv'
  BY <1>23 DEF BlockWrite, Blank
<1>24. ASSUME NEW p \in Procs, AckPass(p) PROVE CheckedInv'
  BY <1>24, PassEffect DEF AckPass
<1>25. ASSUME NEW p \in Procs, AckFail(p) PROVE CheckedInv'
  BY <1>25 DEF AckFail
<1>26. ASSUME NEW p \in Procs, OneStepMove(p) PROVE CheckedInv'
  BY <1>26 DEF OneStepMove
<1>27. ASSUME NEW p \in Procs, ModifyWrite(p) PROVE CheckedInv'
  BY <1>27 DEF ModifyWrite, WriteMd, Modified, Blank
<1>28. ASSUME NEW p \in Procs, GetOpen(p) PROVE CheckedInv'
  BY <1>28 DEF GetOpen
<1>29. ASSUME NEW p \in Procs, GetDone(p) PROVE CheckedInv'
  BY <1>29 DEF GetDone, Blank
<1>30. ASSUME NEW p \in Procs, UnlinkMd(p) PROVE CheckedInv'
  BY <1>30 DEF UnlinkMd, Blank
<1>31. ASSUME NEW p \in Procs, UnlinkData(p) PROVE CheckedInv'
  BY <1>31 DEF UnlinkData, Blank
<1>32. ASSUME NEW p \in Procs, ZipLock(p) PROVE CheckedInv'
  BY <1>32 DEF ZipLock, WriteMd
<1>33. ASSUME NEW p \in Procs, ZipMove(p) PROVE CheckedInv'
  BY <1>33 DEF ZipMove
<1>34. ASSUME NEW p \in Procs, ZipCompress(p) PROVE CheckedInv'
  BY <1>34 DEF ZipCompress
<1>35. ASSUME NEW p \in Procs, ZipFinish(p) PROVE CheckedInv'
  BY <1>35 DEF ZipFinish
<1>36. ASSUME NEW p \in Procs, ZipReread(p) PROVE CheckedInv'
  BY <1>36 DEF ZipReread
<1>37. ASSUME NEW p \in Procs, ZipUnlock(p) PROVE CheckedInv'
  BY <1>37 DEF ZipUnlock, WriteMd, Blank
<1>38. ASSUME NEW p \in Procs, CronData(p) PROVE CheckedInv'
  BY <1>38 DEF CronData, CronSeesExpired, Blank, Expired
<1>39. ASSUME NEW p \in Procs, CronUnlinkExpired(p) PROVE CheckedInv'
  BY <1>39 DEF CronUnlinkExpired, Blank
<1>40. ASSUME NEW p \in Procs, CronUnlinkData(p) PROVE CheckedInv'
  BY <1>40 DEF CronUnlinkData
<1>41. ASSUME NEW p \in Procs, CronEmpty(p) PROVE CheckedInv'
  BY <1>41 DEF CronEmpty, Blank
<1>42. ASSUME NEW p \in Procs, CronUnlinkMd(p) PROVE CheckedInv'
  BY <1>42 DEF CronUnlinkMd, Blank
<1>43. ASSUME NEW p \in Procs, CronHistory(p) PROVE CheckedInv'
  BY <1>43 DEF CronHistory, Blank
<1>44. ASSUME NEW p \in Procs, Die(p) PROVE CheckedInv'
  BY <1>44 DEF Die, Blank
<1>45. ASSUME Tick PROVE CheckedInv'
  BY <1>45 DEF Tick, procvars
<1>46. ASSUME UNCHANGED vars PROVE CheckedInv'
  BY <1>46 DEF vars, procvars
<1> HIDE DEF MdPresent, CheckedInv, UploadInv, PositionKnows, Uploading,
             Checking, Acking, ZipPositions, LockInv, Quiet, OneUpload,
             OpenedLocked, NoEarlyRelease, Opening, CopiesKnow, Released,
             OtherDisk, CronPositions, TypeInv, TypeOK, Contents, MdFile
<1> QED BY [Next]_vars, <1>1, <1>2, <1>3, <1>4, <1>5, <1>6, <1>7, <1>8, <1>9,
       <1>10, <1>11, <1>12, <1>13, <1>14, <1>15, <1>16, <1>17, <1>18, <1>19,
       <1>20, <1>21, <1>22, <1>23, <1>24, <1>25, <1>26, <1>27, <1>28, <1>29,
       <1>30, <1>31, <1>32, <1>33, <1>34, <1>35, <1>36, <1>37, <1>38, <1>39,
       <1>40, <1>41, <1>42, <1>43, <1>44, <1>45, <1>46
    DEF Next, Arrive, UploadStep, RequestStep, CronStep

(* No step gives the audits a data file before a parallel transfer begins. *)
LEMMA EmptyStep ==
    ASSUME TypeInv, LockInv, UploadInv, EmptyInv, [Next]_vars PROVE EmptyInv'
<1> USE TypeInv, LockInv, UploadInv, EmptyInv
        DEF Serve, Exit, Goto, Idle, MdPresent, NoMd, filevars, ghosts,
            EmptyInv, UploadInv, PositionKnows, Uploading, Checking, Acking,
            ZipPositions, LockInv, Quiet, OneUpload, OpenedLocked,
            NoEarlyRelease, Opening, CopiesKnow, Released, OtherDisk,
            CronPositions, TypeInv, TypeOK, Contents, MdFile
<1>1. ASSUME NEW p \in Procs, NEW u \in Users, PutStart(p, u) PROVE EmptyInv'
  BY <1>1 DEF PutStart, TruncateMd, Blank
<1>2. ASSUME NEW p \in Procs, NEW u \in Users, BlockStart(p, u) PROVE EmptyInv'
  BY <1>2 DEF BlockStart
<1>3. ASSUME NEW p \in Procs, NEW u \in Users, AckStart(p, u) PROVE EmptyInv'
  BY <1>3 DEF AckStart
<1>4. ASSUME NEW p \in Procs, NEW u \in Users, OneStepStart(p, u)
      PROVE  EmptyInv'
  BY <1>4 DEF OneStepStart, Blank
<1>5. ASSUME NEW p \in Procs, NEW u \in Users, NEW o \in Modifies,
             ModifyRead(p, u, o)
      PROVE  EmptyInv'
  BY <1>5 DEF ModifyRead, Permitted
<1>6. ASSUME NEW p \in Procs, NEW u \in Users, NEW o \in {"get", "getdlt"},
             GetRead(p, u, o)
      PROVE  EmptyInv'
  BY <1>6 DEF GetRead, Retrievable
<1>7. ASSUME NEW p \in Procs, NEW u \in Users, DeleteRead(p, u) PROVE EmptyInv'
  BY <1>7 DEF DeleteRead
<1>8. ASSUME NEW p \in Procs, NEW u \in Users, ZipRead(p, u) PROVE EmptyInv'
  BY <1>8 DEF ZipRead, Retrievable
<1>9. ASSUME NEW p \in Procs, CronStart(p) PROVE EmptyInv'
  BY <1>9 DEF CronStart, Blank
<1>10. ASSUME NEW p \in Procs, PutWriteMd(p) PROVE EmptyInv'
  BY <1>10 DEF PutWriteMd, WriteMd
<1>11. ASSUME NEW p \in Procs, PutParse(p) PROVE EmptyInv'
  BY <1>11, ParseCourse DEF Blank
<1>12. ASSUME NEW p \in Procs, PutOpenSerial(p) PROVE EmptyInv'
  BY <1>12 DEF PutOpenSerial
<1>13. ASSUME NEW p \in Procs, PutOpenParallel(p) PROVE EmptyInv'
  BY <1>13 DEF PutOpenParallel, Blank
<1>14. ASSUME NEW p \in Procs, PutReceive(p) PROVE EmptyInv'
  BY <1>14 DEF PutReceive
<1>15. ASSUME NEW p \in Procs, PutCheckPass(p) PROVE EmptyInv'
  BY <1>15 DEF PutCheckPass
<1>16. ASSUME NEW p \in Procs, PutCheckFail(p) PROVE EmptyInv'
  BY <1>16 DEF PutCheckFail
<1>17. ASSUME NEW p \in Procs, PutDrop(p) PROVE EmptyInv'
  BY <1>17 DEF PutDrop, Blank
<1>18. ASSUME NEW p \in Procs, PutTruncate(p) PROVE EmptyInv'
  BY <1>18 DEF PutTruncate, TruncateMd, Blank
<1>19. ASSUME NEW p \in Procs, PutFinal(p) PROVE EmptyInv'
  BY <1>19 DEF PutFinal, WriteMd
<1>20. ASSUME NEW p \in Procs, PutHistory(p) PROVE EmptyInv'
  BY <1>20 DEF PutHistory
<1>21. ASSUME NEW p \in Procs, PutMsg(p) PROVE EmptyInv'
  BY <1>21 DEF PutMsg, Blank
<1>22. ASSUME NEW p \in Procs, BlockOpen(p) PROVE EmptyInv'
  BY <1>22 DEF BlockOpen
<1>23. ASSUME NEW p \in Procs, BlockWrite(p) PROVE EmptyInv'
  BY <1>23 DEF BlockWrite, Blank
<1>24. ASSUME NEW p \in Procs, AckPass(p) PROVE EmptyInv'
  BY <1>24, PassEffect DEF AckPass
<1>25. ASSUME NEW p \in Procs, AckFail(p) PROVE EmptyInv'
  BY <1>25 DEF AckFail
<1>26. ASSUME NEW p \in Procs, OneStepMove(p) PROVE EmptyInv'
  BY <1>26 DEF OneStepMove
<1>27. ASSUME NEW p \in Procs, ModifyWrite(p) PROVE EmptyInv'
  BY <1>27 DEF ModifyWrite, WriteMd, Modified, Blank
<1>28. ASSUME NEW p \in Procs, GetOpen(p) PROVE EmptyInv'
  BY <1>28 DEF GetOpen
<1>29. ASSUME NEW p \in Procs, GetDone(p) PROVE EmptyInv'
  BY <1>29 DEF GetDone, Blank
<1>30. ASSUME NEW p \in Procs, UnlinkMd(p) PROVE EmptyInv'
  BY <1>30 DEF UnlinkMd, Blank
<1>31. ASSUME NEW p \in Procs, UnlinkData(p) PROVE EmptyInv'
  BY <1>31 DEF UnlinkData, Blank
<1>32. ASSUME NEW p \in Procs, ZipLock(p) PROVE EmptyInv'
  BY <1>32 DEF ZipLock, WriteMd
<1>33. ASSUME NEW p \in Procs, ZipMove(p) PROVE EmptyInv'
  BY <1>33 DEF ZipMove
<1>34. ASSUME NEW p \in Procs, ZipCompress(p) PROVE EmptyInv'
  BY <1>34 DEF ZipCompress
<1>35. ASSUME NEW p \in Procs, ZipFinish(p) PROVE EmptyInv'
  BY <1>35 DEF ZipFinish
<1>36. ASSUME NEW p \in Procs, ZipReread(p) PROVE EmptyInv'
  BY <1>36 DEF ZipReread
<1>37. ASSUME NEW p \in Procs, ZipUnlock(p) PROVE EmptyInv'
  BY <1>37 DEF ZipUnlock, WriteMd, Blank
<1>38. ASSUME NEW p \in Procs, CronData(p) PROVE EmptyInv'
  BY <1>38 DEF CronData, CronSeesExpired, Blank, Expired
<1>39. ASSUME NEW p \in Procs, CronUnlinkExpired(p) PROVE EmptyInv'
  BY <1>39 DEF CronUnlinkExpired, Blank
<1>40. ASSUME NEW p \in Procs, CronUnlinkData(p) PROVE EmptyInv'
  BY <1>40 DEF CronUnlinkData
<1>41. ASSUME NEW p \in Procs, CronEmpty(p) PROVE EmptyInv'
  BY <1>41 DEF CronEmpty, Blank
<1>42. ASSUME NEW p \in Procs, CronUnlinkMd(p) PROVE EmptyInv'
  BY <1>42 DEF CronUnlinkMd, Blank
<1>43. ASSUME NEW p \in Procs, CronHistory(p) PROVE EmptyInv'
  BY <1>43 DEF CronHistory, Blank
<1>44. ASSUME NEW p \in Procs, Die(p) PROVE EmptyInv'
  BY <1>44 DEF Die, Blank
<1>45. ASSUME Tick PROVE EmptyInv'
  BY <1>45 DEF Tick, procvars
<1>46. ASSUME UNCHANGED vars PROVE EmptyInv'
  BY <1>46 DEF vars, procvars
<1> HIDE DEF MdPresent, EmptyInv, UploadInv, PositionKnows, Uploading,
             Checking, Acking, ZipPositions, LockInv, Quiet, OneUpload,
             OpenedLocked, NoEarlyRelease, Opening, CopiesKnow, Released,
             OtherDisk, CronPositions, TypeInv, TypeOK, Contents, MdFile
<1> QED BY [Next]_vars, <1>1, <1>2, <1>3, <1>4, <1>5, <1>6, <1>7, <1>8, <1>9,
       <1>10, <1>11, <1>12, <1>13, <1>14, <1>15, <1>16, <1>17, <1>18, <1>19,
       <1>20, <1>21, <1>22, <1>23, <1>24, <1>25, <1>26, <1>27, <1>28, <1>29,
       <1>30, <1>31, <1>32, <1>33, <1>34, <1>35, <1>36, <1>37, <1>38, <1>39,
       <1>40, <1>41, <1>42, <1>43, <1>44, <1>45, <1>46
    DEF Next, Arrive, UploadStep, RequestStep, CronStep

(* No step takes the data from a sound parallel upload.                    *)
LEMMA SoundStep ==
    ASSUME TypeInv, LockInv, UploadInv, EmptyInv, SoundInv, [Next]_vars,
           md.body.time = 0 /\ ~zipped => md.body.lock = "0"
    PROVE  SoundInv'
<1> USE TypeInv, LockInv, UploadInv, EmptyInv, SoundInv
        DEF Serve, Exit, Goto, Idle, MdPresent, NoMd, filevars, ghosts,
            EmptyInv, SoundInv, Sound, Receiving, Intact, UploadInv,
            PositionKnows, Uploading, Checking, Acking, ZipPositions,
            LockInv, Quiet, OneUpload, OpenedLocked, NoEarlyRelease, Opening,
            CopiesKnow, Released, OtherDisk, CronPositions, TypeInv, TypeOK,
            Contents, MdFile
<1>1. ASSUME NEW p \in Procs, NEW u \in Users, PutStart(p, u) PROVE SoundInv'
  <2>1. ~announced /\ form = "none" /\ transfer = "no" /\ ~counted /\ ~received
    BY <1>1 DEF PutStart
  <2>2. /\ \A q \in Procs : pc[q] \in {"idle"} \cup CronPositions
      /\ \A q \in Procs : pc[q] # "cron_data_unlink"
    BY <2>1
  <2>3. \A q \in Procs : pc'[q] \in {pc[q], "put_md"}
    BY <1>1 DEF PutStart
  <2>4. MdPresent' /\ UNCHANGED <<data, received, counted, transfer, cut, remade, zipped>>
    BY <1>1, <2>1 DEF PutStart, TruncateMd
  <2>5. ~remade  BY <2>1
  <2> QED BY <2>1, <2>2, <2>3, <2>4, <2>5
<1>2. ASSUME NEW p \in Procs, NEW u \in Users, BlockStart(p, u) PROVE SoundInv'
  <2>1. transfer # "no" /\ form = "parallel" /\ announced /\ MdPresent
    BY <1>2 DEF BlockStart
  <2>2. md.body.time = 0 /\ ~zipped => counted \/ remade
    BY <2>1
  <2>3. /\ pc' = [pc EXCEPT ![p] = "blk_open"]
      /\ fs' = [fs EXCEPT ![p] = [ino |-> md.ino, body |-> md.body]]
      /\ UNCHANGED <<md, data, received, counted, transfer, cut, remade, zipped,
             form, removed>>
      /\ pc[p] = "idle"
    BY <1>2 DEF BlockStart
  <2> HIDE DEF LockInv, EmptyInv
  <2> QED BY <2>1, <2>2, <2>3
<1>3. ASSUME NEW p \in Procs, NEW u \in Users, AckStart(p, u) PROVE SoundInv'
  BY <1>3 DEF AckStart
<1>4. ASSUME NEW p \in Procs, NEW u \in Users, OneStepStart(p, u)
      PROVE  SoundInv'
  BY <1>4 DEF OneStepStart, Blank
<1>5. ASSUME NEW p \in Procs, NEW u \in Users, NEW o \in Modifies,
             ModifyRead(p, u, o)
      PROVE  SoundInv'
  BY <1>5 DEF ModifyRead, Permitted
<1>6. ASSUME NEW p \in Procs, NEW u \in Users, NEW o \in {"get", "getdlt"},
             GetRead(p, u, o)
      PROVE  SoundInv'
  BY <1>6 DEF GetRead, Retrievable
<1>7. ASSUME NEW p \in Procs, NEW u \in Users, DeleteRead(p, u) PROVE SoundInv'
  BY <1>7 DEF DeleteRead
<1>8. ASSUME NEW p \in Procs, NEW u \in Users, ZipRead(p, u) PROVE SoundInv'
  BY <1>8 DEF ZipRead, Retrievable
<1>9. ASSUME NEW p \in Procs, CronStart(p) PROVE SoundInv'
  BY <1>9 DEF CronStart, Blank
<1>10. ASSUME NEW p \in Procs, PutWriteMd(p) PROVE SoundInv'
  BY <1>10 DEF PutWriteMd, WriteMd
<1>11. ASSUME NEW p \in Procs, PutParse(p) PROVE SoundInv'
  <2>1. /\ pc'[p] = "put_open"
        /\ \A q \in Procs : q # p => /\ pc[q] \in {"idle"} \cup CronPositions
                                    /\ pc'[q] = pc[q] /\ fs'[q] = fs[q]
        /\ pc[p] = "put_parse" /\ form \in {"serial", "parallel"}
        /\ transfer = "no" /\ ~received /\ ~counted
        /\ \/ remade' = FALSE /\ md' = md
           \/ remade' = TRUE /\ ~MdPresent /\ md'.ino # 0
        /\ UNCHANGED <<data, transfer, counted, form, cut, zipped, received, removed>>
    BY <1>11, ParseCourse
  <2>2. \A q \in Procs : pc'[q] # pc[q] => pc'[q] = "put_open"
    BY <2>1
  <2>3. removed = "none" => MdPresent /\ \A q \in Procs :
            pc[q] \notin {"unlink_data", "cron_data_unlink", "put_drop"}
    BY <2>1
  <2>4. \A q \in Procs : pc'[q] \notin {"blk_open", "blk_write", "put_rcv", "put_check"}
    BY <2>1
  <2> HIDE DEF LockInv, TypeInv, UploadInv, EmptyInv
  <2> QED BY <2>1, <2>2, <2>3, <2>4
<1>12. ASSUME NEW p \in Procs, PutOpenSerial(p) PROVE SoundInv'
  BY <1>12 DEF PutOpenSerial
<1>13. ASSUME NEW p \in Procs, PutOpenParallel(p) PROVE SoundInv'
  BY <1>13 DEF PutOpenParallel, Blank
<1>14. ASSUME NEW p \in Procs, PutReceive(p) PROVE SoundInv'
  BY <1>14 DEF PutReceive
<1>15. ASSUME NEW p \in Procs, PutCheckPass(p) PROVE SoundInv'
  BY <1>15 DEF PutCheckPass
<1>16. ASSUME NEW p \in Procs, PutCheckFail(p) PROVE SoundInv'
  BY <1>16 DEF PutCheckFail
<1>17. ASSUME NEW p \in Procs, PutDrop(p) PROVE SoundInv'
  BY <1>17 DEF PutDrop, Blank
<1>18. ASSUME NEW p \in Procs, PutTruncate(p) PROVE SoundInv'
  BY <1>18 DEF PutTruncate, TruncateMd, Blank
<1>19. ASSUME NEW p \in Procs, PutFinal(p) PROVE SoundInv'
  BY <1>19 DEF PutFinal, WriteMd
<1>20. ASSUME NEW p \in Procs, PutHistory(p) PROVE SoundInv'
  BY <1>20 DEF PutHistory
<1>21. ASSUME NEW p \in Procs, PutMsg(p) PROVE SoundInv'
  BY <1>21 DEF PutMsg, Blank
<1>22. ASSUME NEW p \in Procs, BlockOpen(p) PROVE SoundInv'
  BY <1>22 DEF BlockOpen
<1>23. ASSUME NEW p \in Procs, BlockWrite(p) PROVE SoundInv'
  BY <1>23 DEF BlockWrite, Blank
<1>24. ASSUME NEW p \in Procs, AckPass(p) PROVE SoundInv'
  BY <1>24, PassEffect DEF AckPass
<1>25. ASSUME NEW p \in Procs, AckFail(p) PROVE SoundInv'
  BY <1>25 DEF AckFail
<1>26. ASSUME NEW p \in Procs, OneStepMove(p) PROVE SoundInv'
  BY <1>26 DEF OneStepMove
<1>27. ASSUME NEW p \in Procs, ModifyWrite(p) PROVE SoundInv'
  BY <1>27 DEF ModifyWrite, WriteMd, Modified, Blank
<1>28. ASSUME NEW p \in Procs, GetOpen(p) PROVE SoundInv'
  BY <1>28 DEF GetOpen
<1>29. ASSUME NEW p \in Procs, GetDone(p) PROVE SoundInv'
  <2>1. UNCHANGED <<md, data, transfer, counted, form, remade, cut, zipped, received,
                    removed>>
    BY <1>29 DEF GetDone
  <2>2. \A q \in Procs : \/ pc'[q] \in {"idle", "unlink_md"}
                         \/ pc'[q] = pc[q] /\ fs'[q] = fs[q]
    BY <1>29 DEF GetDone
  <2> HIDE DEF LockInv, TypeInv, UploadInv, EmptyInv
  <2> QED BY <2>1, <2>2
<1>30. ASSUME NEW p \in Procs, UnlinkMd(p) PROVE SoundInv'
  BY <1>30 DEF UnlinkMd, Blank
<1>31. ASSUME NEW p \in Procs, UnlinkData(p) PROVE SoundInv'
  BY <1>31 DEF UnlinkData, Blank
<1>32. ASSUME NEW p \in Procs, ZipLock(p) PROVE SoundInv'
  BY <1>32 DEF ZipLock, WriteMd
<1>33. ASSUME NEW p \in Procs, ZipMove(p) PROVE SoundInv'
  BY <1>33 DEF ZipMove
<1>34. ASSUME NEW p \in Procs, ZipCompress(p) PROVE SoundInv'
  BY <1>34 DEF ZipCompress
<1>35. ASSUME NEW p \in Procs, ZipFinish(p) PROVE SoundInv'
  BY <1>35 DEF ZipFinish
<1>36. ASSUME NEW p \in Procs, ZipReread(p) PROVE SoundInv'
  BY <1>36 DEF ZipReread
<1>37. ASSUME NEW p \in Procs, ZipUnlock(p) PROVE SoundInv'
  BY <1>37 DEF ZipUnlock, WriteMd, Blank
<1>38. ASSUME NEW p \in Procs, CronData(p) PROVE SoundInv'
  BY <1>38 DEF CronData, CronSeesExpired, Blank, Expired
<1>39. ASSUME NEW p \in Procs, CronUnlinkExpired(p) PROVE SoundInv'
  BY <1>39 DEF CronUnlinkExpired, Blank
<1>40. ASSUME NEW p \in Procs, CronUnlinkData(p) PROVE SoundInv'
  BY <1>40 DEF CronUnlinkData
<1>41. ASSUME NEW p \in Procs, CronEmpty(p) PROVE SoundInv'
  BY <1>41 DEF CronEmpty, Blank
<1>42. ASSUME NEW p \in Procs, CronUnlinkMd(p) PROVE SoundInv'
  BY <1>42 DEF CronUnlinkMd, Blank
<1>43. ASSUME NEW p \in Procs, CronHistory(p) PROVE SoundInv'
  BY <1>43 DEF CronHistory, Blank
<1>44. ASSUME NEW p \in Procs, Die(p) PROVE SoundInv'
  BY <1>44 DEF Die, Blank
<1>45. ASSUME Tick PROVE SoundInv'
  BY <1>45 DEF Tick, procvars
<1>46. ASSUME UNCHANGED vars PROVE SoundInv'
  BY <1>46 DEF vars, procvars
<1> HIDE DEF MdPresent, EmptyInv, SoundInv, Sound, UploadInv, PositionKnows,
             Uploading, Checking, Acking, ZipPositions, LockInv, Quiet,
             OneUpload, OpenedLocked, NoEarlyRelease, Opening, CopiesKnow,
             Released, OtherDisk, CronPositions, TypeInv, TypeOK, Contents,
             MdFile
<1> QED BY [Next]_vars, <1>1, <1>2, <1>3, <1>4, <1>5, <1>6, <1>7, <1>8, <1>9,
       <1>10, <1>11, <1>12, <1>13, <1>14, <1>15, <1>16, <1>17, <1>18, <1>19,
       <1>20, <1>21, <1>22, <1>23, <1>24, <1>25, <1>26, <1>27, <1>28, <1>29,
       <1>30, <1>31, <1>32, <1>33, <1>34, <1>35, <1>36, <1>37, <1>38, <1>39,
       <1>40, <1>41, <1>42, <1>43, <1>44, <1>45, <1>46
    DEF Next, Arrive, UploadStep, RequestStep, CronStep

(* A get that opens the data finds them whole.                             *)
LEMMA GetsStep ==
    ASSUME TypeInv, LockInv, UploadInv, CheckedInv, SoundInv, GetsWholeData,
           [Next]_vars
    PROVE  GetsWholeData'
<1> USE TypeInv, LockInv, UploadInv, CheckedInv, SoundInv, GetsWholeData
        DEF Serve, Exit, Goto, Idle, MdPresent, NoMd, filevars, ghosts,
            GetsWholeData, CheckedInv, SoundInv, Sound, Receiving, Intact,
            UploadInv, PositionKnows, Uploading, Checking, Acking,
            ZipPositions, LockInv, Quiet, OneUpload, OpenedLocked,
            NoEarlyRelease, Opening, CopiesKnow, Released, OtherDisk,
            CronPositions, TypeInv, TypeOK, Contents, MdFile
<1>1. ASSUME NEW p \in Procs, NEW u \in Users, PutStart(p, u)
      PROVE  GetsWholeData'
  BY <1>1 DEF PutStart, TruncateMd, Blank
<1>2. ASSUME NEW p \in Procs, NEW u \in Users, BlockStart(p, u)
      PROVE  GetsWholeData'
  BY <1>2 DEF BlockStart
<1>3. ASSUME NEW p \in Procs, NEW u \in Users, AckStart(p, u)
      PROVE  GetsWholeData'
  BY <1>3 DEF AckStart
<1>4. ASSUME NEW p \in Procs, NEW u \in Users, OneStepStart(p, u)
      PROVE  GetsWholeData'
  BY <1>4 DEF OneStepStart, Blank
<1>5. ASSUME NEW p \in Procs, NEW u \in Users, NEW o \in Modifies,
             ModifyRead(p, u, o)
      PROVE  GetsWholeData'
  BY <1>5 DEF ModifyRead, Permitted
<1>6. ASSUME NEW p \in Procs, NEW u \in Users, NEW o \in {"get", "getdlt"},
             GetRead(p, u, o)
      PROVE  GetsWholeData'
  BY <1>6 DEF GetRead, Retrievable
<1>7. ASSUME NEW p \in Procs, NEW u \in Users, DeleteRead(p, u)
      PROVE  GetsWholeData'
  BY <1>7 DEF DeleteRead
<1>8. ASSUME NEW p \in Procs, NEW u \in Users, ZipRead(p, u)
      PROVE  GetsWholeData'
  BY <1>8 DEF ZipRead, Retrievable
<1>9. ASSUME NEW p \in Procs, CronStart(p) PROVE GetsWholeData'
  BY <1>9 DEF CronStart, Blank
<1>10. ASSUME NEW p \in Procs, PutWriteMd(p) PROVE GetsWholeData'
  BY <1>10 DEF PutWriteMd, WriteMd
<1>11. ASSUME NEW p \in Procs, PutParse(p) PROVE GetsWholeData'
  BY <1>11, ParseCourse DEF Blank
<1>12. ASSUME NEW p \in Procs, PutOpenSerial(p) PROVE GetsWholeData'
  BY <1>12 DEF PutOpenSerial
<1>13. ASSUME NEW p \in Procs, PutOpenParallel(p) PROVE GetsWholeData'
  BY <1>13 DEF PutOpenParallel, Blank
<1>14. ASSUME NEW p \in Procs, PutReceive(p) PROVE GetsWholeData'
  BY <1>14 DEF PutReceive
<1>15. ASSUME NEW p \in Procs, PutCheckPass(p) PROVE GetsWholeData'
  BY <1>15 DEF PutCheckPass
<1>16. ASSUME NEW p \in Procs, PutCheckFail(p) PROVE GetsWholeData'
  BY <1>16 DEF PutCheckFail
<1>17. ASSUME NEW p \in Procs, PutDrop(p) PROVE GetsWholeData'
  BY <1>17 DEF PutDrop, Blank
<1>18. ASSUME NEW p \in Procs, PutTruncate(p) PROVE GetsWholeData'
  BY <1>18 DEF PutTruncate, TruncateMd, Blank
<1>19. ASSUME NEW p \in Procs, PutFinal(p) PROVE GetsWholeData'
  BY <1>19 DEF PutFinal, WriteMd
<1>20. ASSUME NEW p \in Procs, PutHistory(p) PROVE GetsWholeData'
  BY <1>20 DEF PutHistory
<1>21. ASSUME NEW p \in Procs, PutMsg(p) PROVE GetsWholeData'
  BY <1>21 DEF PutMsg, Blank
<1>22. ASSUME NEW p \in Procs, BlockOpen(p) PROVE GetsWholeData'
  BY <1>22 DEF BlockOpen
<1>23. ASSUME NEW p \in Procs, BlockWrite(p) PROVE GetsWholeData'
  BY <1>23 DEF BlockWrite, Blank
<1>24. ASSUME NEW p \in Procs, AckPass(p) PROVE GetsWholeData'
  BY <1>24, PassEffect DEF AckPass
<1>25. ASSUME NEW p \in Procs, AckFail(p) PROVE GetsWholeData'
  BY <1>25 DEF AckFail
<1>26. ASSUME NEW p \in Procs, OneStepMove(p) PROVE GetsWholeData'
  BY <1>26 DEF OneStepMove
<1>27. ASSUME NEW p \in Procs, ModifyWrite(p) PROVE GetsWholeData'
  BY <1>27 DEF ModifyWrite, WriteMd, Modified, Blank
<1>28. ASSUME NEW p \in Procs, GetOpen(p) PROVE GetsWholeData'
  BY <1>28 DEF GetOpen
<1>29. ASSUME NEW p \in Procs, GetDone(p) PROVE GetsWholeData'
  BY <1>29 DEF GetDone, Blank
<1>30. ASSUME NEW p \in Procs, UnlinkMd(p) PROVE GetsWholeData'
  BY <1>30 DEF UnlinkMd, Blank
<1>31. ASSUME NEW p \in Procs, UnlinkData(p) PROVE GetsWholeData'
  BY <1>31 DEF UnlinkData, Blank
<1>32. ASSUME NEW p \in Procs, ZipLock(p) PROVE GetsWholeData'
  BY <1>32 DEF ZipLock, WriteMd
<1>33. ASSUME NEW p \in Procs, ZipMove(p) PROVE GetsWholeData'
  BY <1>33 DEF ZipMove
<1>34. ASSUME NEW p \in Procs, ZipCompress(p) PROVE GetsWholeData'
  BY <1>34 DEF ZipCompress
<1>35. ASSUME NEW p \in Procs, ZipFinish(p) PROVE GetsWholeData'
  BY <1>35 DEF ZipFinish
<1>36. ASSUME NEW p \in Procs, ZipReread(p) PROVE GetsWholeData'
  BY <1>36 DEF ZipReread
<1>37. ASSUME NEW p \in Procs, ZipUnlock(p) PROVE GetsWholeData'
  BY <1>37 DEF ZipUnlock, WriteMd, Blank
<1>38. ASSUME NEW p \in Procs, CronData(p) PROVE GetsWholeData'
  BY <1>38 DEF CronData, CronSeesExpired, Blank, Expired
<1>39. ASSUME NEW p \in Procs, CronUnlinkExpired(p) PROVE GetsWholeData'
  BY <1>39 DEF CronUnlinkExpired, Blank
<1>40. ASSUME NEW p \in Procs, CronUnlinkData(p) PROVE GetsWholeData'
  BY <1>40 DEF CronUnlinkData
<1>41. ASSUME NEW p \in Procs, CronEmpty(p) PROVE GetsWholeData'
  BY <1>41 DEF CronEmpty, Blank
<1>42. ASSUME NEW p \in Procs, CronUnlinkMd(p) PROVE GetsWholeData'
  BY <1>42 DEF CronUnlinkMd, Blank
<1>43. ASSUME NEW p \in Procs, CronHistory(p) PROVE GetsWholeData'
  BY <1>43 DEF CronHistory, Blank
<1>44. ASSUME NEW p \in Procs, Die(p) PROVE GetsWholeData'
  BY <1>44 DEF Die, Blank
<1>45. ASSUME Tick PROVE GetsWholeData'
  BY <1>45 DEF Tick, procvars
<1>46. ASSUME UNCHANGED vars PROVE GetsWholeData'
  BY <1>46 DEF vars, procvars
<1> HIDE DEF MdPresent, GetsWholeData, CheckedInv, SoundInv, Sound, Receiving,
             Intact, UploadInv, PositionKnows, Uploading, Checking, Acking,
             ZipPositions, LockInv, Quiet, OneUpload, OpenedLocked,
             NoEarlyRelease, Opening, CopiesKnow, Released, OtherDisk,
             CronPositions, TypeInv, TypeOK, Contents, MdFile
<1> QED BY [Next]_vars, <1>1, <1>2, <1>3, <1>4, <1>5, <1>6, <1>7, <1>8, <1>9,
       <1>10, <1>11, <1>12, <1>13, <1>14, <1>15, <1>16, <1>17, <1>18, <1>19,
       <1>20, <1>21, <1>22, <1>23, <1>24, <1>25, <1>26, <1>27, <1>28, <1>29,
       <1>30, <1>31, <1>32, <1>33, <1>34, <1>35, <1>36, <1>37, <1>38, <1>39,
       <1>40, <1>41, <1>42, <1>43, <1>44, <1>45, <1>46
    DEF Next, Arrive, UploadStep, RequestStep, CronStep

-----------------------------------------------------------------------------
(***************************************************************************)
(* The retrieval lock.                                                     *)
(***************************************************************************)

(* The upload has not yet come to the fopen "w" of put_trans_file_ack.     *)
BeforeAck == {"put_open", "put_rcv", "put_check", "put_trunc", "u1_move", "ack_check"}
Pending == transfer = "parallel" \/ \E p \in Procs : pc[p] \in BeforeAck

(* Metadata with the flag '0' are those of an empty file, and so are those *)
(* without an expiration time that no zip wrote back; no request that may  *)
(* write the metadata goes on after reading them.  The upload is going to  *)
(* write 'u' and a time.                                                   *)
CopyInv ==
    /\ md.body.lock = "0" => md.body = Blank
    /\ md.body.time = 0 /\ ~zipped => md.body.lock = "0"
    /\ \A p \in Procs :
        /\ pc[p] = "modify" => fs[p].body.lock # "0"
        /\ pc[p] = "modify" /\ ~zipped => fs[p].body.time # 0
        /\ pc[p] \in BeforeAck \cup {"put_final"} => fs[p].body.lock = "u"
        /\ pc[p] \in Uploading \ {"ack_check", "put_drop"} => fs[p].body.time # 0

(* Until then the metadata are those that put_big_file wrote, with 'l', and*)
(* until its fclose nobody who may write the metadata has read another     *)
(* lock flag; or data_log has made them anew, and only a zip writes them.  *)
UnreleasedInv ==
    /\ announced /\ MdPresent /\ Pending
           => md.body.lock = "l" \/ (remade /\ (md.body.lock = "0" \/ zipped))
    /\ ~announced => md.body.lock \in {"0", "l"}
    /\ ~zipped /\ (Pending \/ \E p \in Procs : pc[p] = "put_final")
           => /\ md.body.lock \in {"0", "l"}
              /\ \A p \in Procs : pc[p] = "modify" => fs[p].body.lock = "l"
    /\ zipped => announced /\ (Pending => remade)

(* No request changes metadata without content: there is no owner to be,   *)
(* no lock to change and no expiration to extend.                          *)
LEMMA NothingForBlank ==
    ASSUME NEW o \in Modifies, NEW u \in Users PROVE ~Permitted(o, u, Blank)
<1>1. Blank.own # u /\ Blank.lock = "0" /\ Blank.time = 0
  BY UsersAssumption DEF Blank
<1>2. CASE o = "extend"  BY <1>1, <1>2 DEF Permitted
<1>3. CASE o = "lock"  BY <1>1, <1>3 DEF Permitted
<1>4. CASE o = "unlock"  BY <1>1, <1>4 DEF Permitted
<1>5. CASE o = "owner_dlt"  BY <1>1, <1>5 DEF Permitted
<1>6. CASE o = "user_dlt"  BY <1>1, <1>6 DEF Permitted
<1>7. CASE o = "set_email"  BY <1>1, <1>7 DEF Permitted
<1>8. CASE o = "clear_email"  BY <1>1, <1>8 DEF Permitted
<1> QED BY <1>2, <1>3, <1>4, <1>5, <1>6, <1>7, <1>8 DEF Modifies

(* What the body b that a request o writes owes to the copy c it read.     *)
Changes(o, c, b) ==
    /\ b \in Body
    /\ o \notin {"lock", "unlock"} => b.lock = c.lock
    /\ o = "lock" => b.lock = "L"
    /\ o = "unlock" => b.lock = "u"
    /\ b.dlt = c.dlt \/ b.dlt \in {"owner", "no"}
    /\ o # "extend" => b.time = c.time /\ b.ext = c.ext
    /\ o = "extend" => \E n \in 1 .. (ExtendMax - c.ext), w \in Weekend :
                           b.time = c.time + n + w /\ b.ext = c.ext + n

LEMMA ModifiedFields ==
    ASSUME NEW o \in Modifies, NEW u \in Users \cup {NoUser}, NEW c \in Body,
           NEW b \in Modified(o, u, c)
    PROVE  Changes(o, c, b)
<1> DEFINE d == [c EXCEPT !.own = u]
<1>1. /\ d.lock = c.lock /\ d.dlt = c.dlt /\ d.time = c.time /\ d.ext = c.ext
      /\ d \in Body
  BY DEF Body
<1>2. b \in Body  BY ModifiedType
<1>3. CASE o = "extend"
  <2>1. PICK n \in 1 .. (ExtendMax - c.ext), w \in Weekend : b = Extended(d, n, w)
    BY <1>3 DEF Modified
  <2> HIDE DEF d
  <2>2. /\ b.lock = d.lock /\ b.dlt = d.dlt
        /\ b.time = d.time + n + w /\ b.ext = d.ext + n
    BY <1>1, <2>1 DEF Extended, Body
  <2> QED BY <1>1, <1>2, <1>3, <2>2 DEF Changes
<1>4. CASE o = "lock"
  <2>1. b = [d EXCEPT !.lock = "L"]  BY <1>4 DEF Modified
  <2> HIDE DEF d
  <2> QED BY <1>1, <1>2, <1>4, <2>1 DEF Changes, Body
<1>7. CASE o = "unlock"
  <2>1. b = [d EXCEPT !.lock = "u"]  BY <1>7 DEF Modified
  <2> HIDE DEF d
  <2> QED BY <1>1, <1>2, <1>7, <2>1 DEF Changes, Body
<1>5. CASE o \in {"owner_dlt", "user_dlt"}
  <2>1. b = [d EXCEPT !.dlt = "owner"] \/ b = [d EXCEPT !.dlt = "no"]
    BY <1>5 DEF Modified
  <2> HIDE DEF d
  <2> QED BY <1>1, <1>2, <1>5, <2>1 DEF Changes, Body
<1>6. CASE o \in {"set_email", "clear_email"}
  <2>1. b = [d EXCEPT !.email = TRUE] \/ b = [d EXCEPT !.email = FALSE]
    BY <1>6 DEF Modified
  <2> HIDE DEF d
  <2> QED BY <1>1, <1>2, <1>6, <2>1 DEF Changes, Body
<1> QED BY <1>3, <1>4, <1>5, <1>6, <1>7 DEF Modifies

(* The write of a request has no effect, because the file it read has lost *)
(* its name, or the metadata become what the request makes of its copy.    *)
LEMMA ModifyWrites ==
    ASSUME TypeInv, NEW p \in Procs, ModifyWrite(p)
    PROVE  \E b \in Body :
             /\ Changes(op[p], fs[p].body, b)
             /\ fs[p].body \in Body /\ op[p] \in Modifies
             /\ md'.ino = md.ino
             /\ md'.body = IF MdPresent /\ md.ino = fs[p].ino THEN b ELSE md.body
<1>1. PICK b \in Modified(op[p], user[p], fs[p].body) : WriteMd(p, b)
  BY DEF ModifyWrite
<1>2. op[p] \in Modifies /\ fs[p].body \in Body /\ user[p] \in Users \cup {NoUser}
  BY TypeInv DEF ModifyWrite, TypeInv, TypeOK, ModifyOps, MdFile
<1>3. Changes(op[p], fs[p].body, b)  BY <1>2, ModifiedFields
<1>4. /\ md'.ino = md.ino
      /\ md'.body = IF MdPresent /\ md.ino = fs[p].ino THEN b ELSE md.body
  BY <1>1, TypeInv DEF WriteMd, TypeInv, TypeOK, MdFile
<1> QED BY <1>2, <1>3, <1>4 DEF Changes

(* No request carries on with metadata without content.                    *)
LEMMA CopyStep ==
    ASSUME TypeInv, LockInv, UploadInv, CopyInv, [Next]_vars PROVE CopyInv'
<1> USE TypeInv, LockInv, UploadInv, CopyInv
        DEF Serve, Exit, Goto, Idle, MdPresent, NoMd, filevars, ghosts,
            CopyInv, BeforeAck, UploadInv, PositionKnows, Uploading,
            Checking, Acking, ZipPositions, LockInv, Quiet, OneUpload,
            OpenedLocked, NoEarlyRelease, Opening, CopiesKnow, Released,
            OtherDisk, CronPositions, TypeInv, TypeOK, Contents, MdFile
<1>0. now + Life # 0 /\ now \in Nat  BY TimeAssumption
<1>1. ASSUME NEW p \in Procs, NEW u \in Users, PutStart(p, u) PROVE CopyInv'
  BY <1>0, <1>1 DEF PutStart, TruncateMd, Blank
<1>2. ASSUME NEW p \in Procs, NEW u \in Users, BlockStart(p, u) PROVE CopyInv'
  BY <1>2 DEF BlockStart
<1>3. ASSUME NEW p \in Procs, NEW u \in Users, AckStart(p, u) PROVE CopyInv'
  BY <1>3 DEF AckStart
<1>4. ASSUME NEW p \in Procs, NEW u \in Users, OneStepStart(p, u) PROVE CopyInv'
  BY <1>0, <1>4 DEF OneStepStart, Blank
<1>5. ASSUME NEW p \in Procs, NEW u \in Users, NEW o \in Modifies,
             ModifyRead(p, u, o)
      PROVE  CopyInv'
  <2>1. md.body # Blank
    BY <1>5, NothingForBlank DEF ModifyRead
  <2> QED BY <1>5, <2>1 DEF ModifyRead
<1>6. ASSUME NEW p \in Procs, NEW u \in Users, NEW o \in {"get", "getdlt"},
             GetRead(p, u, o)
      PROVE  CopyInv'
  BY <1>6 DEF GetRead, Retrievable
<1>7. ASSUME NEW p \in Procs, NEW u \in Users, DeleteRead(p, u) PROVE CopyInv'
  BY <1>7 DEF DeleteRead
<1>8. ASSUME NEW p \in Procs, NEW u \in Users, ZipRead(p, u) PROVE CopyInv'
  BY <1>8 DEF ZipRead, Retrievable
<1>9. ASSUME NEW p \in Procs, CronStart(p) PROVE CopyInv'
  BY <1>9 DEF CronStart, Blank
<1>10. ASSUME NEW p \in Procs, PutWriteMd(p) PROVE CopyInv'
  BY <1>10 DEF PutWriteMd, WriteMd
<1>11. ASSUME NEW p \in Procs, PutParse(p) PROVE CopyInv'
  <2> HIDE DEF LockInv, TypeInv, UploadInv
  <2>1. /\ pc'[p] = "put_open"
        /\ \A q \in Procs : q # p => /\ pc[q] \in {"idle"} \cup CronPositions
                                    /\ pc'[q] = pc[q] /\ fs'[q] = fs[q]
        /\ fs'[p].body.lock = "u" /\ fs'[p].body.time = fs[p].body.time
        /\ pc[p] = "put_parse" /\ md'.body \in {md.body, Blank} /\ UNCHANGED zipped
    BY <1>11, ParseCourse
  <2>2. \A q \in Procs : q # p => pc'[q] \notin {"modify", "put_final"} \cup BeforeAck
                                  /\ pc'[q] \notin Uploading
    BY <2>1
  <2>3. Blank.lock = "0"  BY DEF Blank
  <2>4. fs'[p].body.time # 0  BY <2>1
  <2> QED BY <2>1, <2>2, <2>3, <2>4
<1>12. ASSUME NEW p \in Procs, PutOpenSerial(p) PROVE CopyInv'
  BY <1>12 DEF PutOpenSerial
<1>13. ASSUME NEW p \in Procs, PutOpenParallel(p) PROVE CopyInv'
  BY <1>13 DEF PutOpenParallel, Blank
<1>14. ASSUME NEW p \in Procs, PutReceive(p) PROVE CopyInv'
  BY <1>14 DEF PutReceive
<1>15. ASSUME NEW p \in Procs, PutCheckPass(p) PROVE CopyInv'
  BY <1>15 DEF PutCheckPass
<1>16. ASSUME NEW p \in Procs, PutCheckFail(p) PROVE CopyInv'
  BY <1>16 DEF PutCheckFail
<1>17. ASSUME NEW p \in Procs, PutDrop(p) PROVE CopyInv'
  BY <1>17 DEF PutDrop, Blank
<1>18. ASSUME NEW p \in Procs, PutTruncate(p) PROVE CopyInv'
  BY <1>18 DEF PutTruncate, TruncateMd, Blank
<1>19. ASSUME NEW p \in Procs, PutFinal(p) PROVE CopyInv'
  BY <1>19 DEF PutFinal, WriteMd
<1>20. ASSUME NEW p \in Procs, PutHistory(p) PROVE CopyInv'
  BY <1>20 DEF PutHistory
<1>21. ASSUME NEW p \in Procs, PutMsg(p) PROVE CopyInv'
  BY <1>21 DEF PutMsg, Blank
<1>22. ASSUME NEW p \in Procs, BlockOpen(p) PROVE CopyInv'
  BY <1>22 DEF BlockOpen
<1>23. ASSUME NEW p \in Procs, BlockWrite(p) PROVE CopyInv'
  BY <1>23 DEF BlockWrite, Blank
<1>24. ASSUME NEW p \in Procs, AckPass(p) PROVE CopyInv'
  <2>1. fs[p].body.lock = "u" /\ fs[p].body.time # 0
        /\ UNCHANGED <<md, zipped>> /\ pc' = [pc EXCEPT ![p] = "put_trunc"]
    BY <1>24 DEF AckPass
  <2>2. /\ \A q \in Procs \ {p} : fs'[q] = fs[q]
        /\ fs'[p].body.lock = fs[p].body.lock /\ fs'[p].body.time = fs[p].body.time
    BY <1>24, PassEffect
  <2> QED BY <2>1, <2>2
<1>25. ASSUME NEW p \in Procs, AckFail(p) PROVE CopyInv'
  BY <1>25 DEF AckFail
<1>26. ASSUME NEW p \in Procs, OneStepMove(p) PROVE CopyInv'
  BY <1>26 DEF OneStepMove
<1>27. ASSUME NEW p \in Procs, ModifyWrite(p) PROVE CopyInv'
  <2>1. PICK b \in Body :
           /\ Changes(op[p], fs[p].body, b)
           /\ fs[p].body \in Body /\ op[p] \in Modifies
           /\ md'.ino = md.ino
           /\ md'.body = IF MdPresent /\ md.ino = fs[p].ino THEN b ELSE md.body
    BY <1>27, ModifyWrites
  <2>2. ~zipped => b.time # 0
    <3>1. fs[p].body.time \in Nat /\ (~zipped => fs[p].body.time # 0)
      BY <1>27, <2>1 DEF ModifyWrite, Body
    <3>2. CASE op[p] # "extend"  BY <2>1, <3>1, <3>2 DEF Changes
    <3>3. CASE op[p] = "extend"
      <4>1. PICK n \in 1 .. (ExtendMax - fs[p].body.ext), w \in Weekend :
                b.time = fs[p].body.time + n + w
        BY <2>1, <3>3 DEF Changes
      <4>2. n \in Nat /\ w \in Nat
        BY <2>1, TimeAssumption DEF Body
      <4> QED BY <3>1, <4>1, <4>2
    <3> QED BY <3>2, <3>3
  <2>3. b.lock # "0"
    BY <1>27, <2>1 DEF ModifyWrite, Changes
  <2>4. md'.body.lock = "0" => md'.body = md.body
    BY <2>1, <2>3
  <2>5. md'.body.time = 0 /\ ~zipped => md'.body = md.body
    BY <2>1, <2>2
  <2>6. /\ \A q \in Procs : pc'[q] \in {pc[q], "idle"} /\ (pc'[q] # "idle" => fs'[q] = fs[q])
        /\ UNCHANGED zipped
    BY <1>27 DEF ModifyWrite
  <2> QED BY <2>4, <2>5, <2>6
<1>28. ASSUME NEW p \in Procs, GetOpen(p) PROVE CopyInv'
  BY <1>28 DEF GetOpen
<1>29. ASSUME NEW p \in Procs, GetDone(p) PROVE CopyInv'
  BY <1>29 DEF GetDone, Blank
<1>30. ASSUME NEW p \in Procs, UnlinkMd(p) PROVE CopyInv'
  BY <1>30 DEF UnlinkMd, Blank
<1>31. ASSUME NEW p \in Procs, UnlinkData(p) PROVE CopyInv'
  BY <1>31 DEF UnlinkData, Blank
<1>32. ASSUME NEW p \in Procs, ZipLock(p) PROVE CopyInv'
  BY <1>32 DEF ZipLock, WriteMd
<1>33. ASSUME NEW p \in Procs, ZipMove(p) PROVE CopyInv'
  BY <1>33 DEF ZipMove
<1>34. ASSUME NEW p \in Procs, ZipCompress(p) PROVE CopyInv'
  BY <1>34 DEF ZipCompress
<1>35. ASSUME NEW p \in Procs, ZipFinish(p) PROVE CopyInv'
  BY <1>35 DEF ZipFinish
<1>36. ASSUME NEW p \in Procs, ZipReread(p) PROVE CopyInv'
  BY <1>36 DEF ZipReread
<1>37. ASSUME NEW p \in Procs, ZipUnlock(p) PROVE CopyInv'
  <2>1. fs[p].body \in Body  OBVIOUS
  <2>2. md'.body \in {md.body, [fs[p].body EXCEPT !.own = user[p], !.lock = "u",
                                                 !.small = TRUE]}
    BY <1>37 DEF ZipUnlock, WriteMd
  <2>3. md'.body = md.body \/ md'.body.lock = "u"
    BY <2>1, <2>2 DEF Body
  <2>4. \A q \in Procs : pc'[q] \in {pc[q], "idle"} /\ (pc'[q] # "idle" => fs'[q] = fs[q])
    BY <1>37 DEF ZipUnlock
  <2>5. zipped'
    BY <1>37 DEF ZipUnlock
  <2> QED BY <2>3, <2>4, <2>5
<1>38. ASSUME NEW p \in Procs, CronData(p) PROVE CopyInv'
  BY <1>38 DEF CronData, CronSeesExpired, Blank, Expired
<1>39. ASSUME NEW p \in Procs, CronUnlinkExpired(p) PROVE CopyInv'
  BY <1>39 DEF CronUnlinkExpired, Blank
<1>40. ASSUME NEW p \in Procs, CronUnlinkData(p) PROVE CopyInv'
  BY <1>40 DEF CronUnlinkData
<1>41. ASSUME NEW p \in Procs, CronEmpty(p) PROVE CopyInv'
  BY <1>41 DEF CronEmpty, Blank
<1>42. ASSUME NEW p \in Procs, CronUnlinkMd(p) PROVE CopyInv'
  BY <1>42 DEF CronUnlinkMd, Blank
<1>43. ASSUME NEW p \in Procs, CronHistory(p) PROVE CopyInv'
  BY <1>43 DEF CronHistory, Blank
<1>44. ASSUME NEW p \in Procs, Die(p) PROVE CopyInv'
  BY <1>44 DEF Die, Blank
<1>45. ASSUME Tick PROVE CopyInv'
  BY <1>45 DEF Tick, procvars
<1>46. ASSUME UNCHANGED vars PROVE CopyInv'
  BY <1>46 DEF vars, procvars
<1> HIDE DEF MdPresent, CopyInv, BeforeAck, UploadInv, PositionKnows,
             Uploading, Checking, Acking, ZipPositions, LockInv, Quiet,
             OneUpload, OpenedLocked, NoEarlyRelease, Opening, CopiesKnow,
             Released, OtherDisk, CronPositions, TypeInv, TypeOK, Contents,
             MdFile
<1> QED BY [Next]_vars, <1>1, <1>2, <1>3, <1>4, <1>5, <1>6, <1>7, <1>8, <1>9,
       <1>10, <1>11, <1>12, <1>13, <1>14, <1>15, <1>16, <1>17, <1>18, <1>19,
       <1>20, <1>21, <1>22, <1>23, <1>24, <1>25, <1>26, <1>27, <1>28, <1>29,
       <1>30, <1>31, <1>32, <1>33, <1>34, <1>35, <1>36, <1>37, <1>38, <1>39,
       <1>40, <1>41, <1>42, <1>43, <1>44, <1>45, <1>46
    DEF Next, Arrive, UploadStep, RequestStep, CronStep

(* No step releases the metadata of an upload before put_trans_file_ack.   *)
LEMMA UnreleasedStep ==
    ASSUME TypeInv, LockInv, UploadInv, CopyInv, UnreleasedInv, [Next]_vars
    PROVE  UnreleasedInv'
<1> USE TypeInv, LockInv, UploadInv, CopyInv, UnreleasedInv
        DEF Serve, Exit, Goto, Idle, MdPresent, NoMd, filevars, ghosts,
            CopyInv, UnreleasedInv, Pending, BeforeAck, UploadInv,
            PositionKnows, Uploading, Checking, Acking, ZipPositions, LockInv,
            Quiet, OneUpload, OpenedLocked, NoEarlyRelease, Opening,
            CopiesKnow, Released, OtherDisk, CronPositions, TypeInv, TypeOK,
            Contents, MdFile
<1>1. ASSUME NEW p \in Procs, NEW u \in Users, PutStart(p, u)
      PROVE  UnreleasedInv'
  BY <1>1 DEF PutStart, TruncateMd, Blank
<1>2. ASSUME NEW p \in Procs, NEW u \in Users, BlockStart(p, u)
      PROVE  UnreleasedInv'
  BY <1>2 DEF BlockStart
<1>3. ASSUME NEW p \in Procs, NEW u \in Users, AckStart(p, u)
      PROVE  UnreleasedInv'
  BY <1>3 DEF AckStart
<1>4. ASSUME NEW p \in Procs, NEW u \in Users, OneStepStart(p, u)
      PROVE  UnreleasedInv'
  BY <1>4 DEF OneStepStart, Blank
<1>5. ASSUME NEW p \in Procs, NEW u \in Users, NEW o \in Modifies,
             ModifyRead(p, u, o)
      PROVE  UnreleasedInv'
  <2>1. md.body # Blank
    BY <1>5, NothingForBlank DEF ModifyRead
  <2> QED BY <1>5, <2>1 DEF ModifyRead
<1>6. ASSUME NEW p \in Procs, NEW u \in Users, NEW o \in {"get", "getdlt"},
             GetRead(p, u, o)
      PROVE  UnreleasedInv'
  BY <1>6 DEF GetRead, Retrievable
<1>7. ASSUME NEW p \in Procs, NEW u \in Users, DeleteRead(p, u)
      PROVE  UnreleasedInv'
  BY <1>7 DEF DeleteRead
<1>8. ASSUME NEW p \in Procs, NEW u \in Users, ZipRead(p, u)
      PROVE  UnreleasedInv'
  BY <1>8 DEF ZipRead, Retrievable
<1>9. ASSUME NEW p \in Procs, CronStart(p) PROVE UnreleasedInv'
  BY <1>9 DEF CronStart, Blank
<1>10. ASSUME NEW p \in Procs, PutWriteMd(p) PROVE UnreleasedInv'
  BY <1>10 DEF PutWriteMd, WriteMd
<1>11. ASSUME NEW p \in Procs, PutParse(p) PROVE UnreleasedInv'
  <2> HIDE DEF LockInv, TypeInv, UploadInv
  <2>1. /\ pc'[p] = "put_open"
        /\ \A q \in Procs : q # p => /\ pc[q] \in {"idle"} \cup CronPositions
                                    /\ pc'[q] = pc[q] /\ fs'[q] = fs[q]
        /\ ~announced /\ announced' /\ UNCHANGED <<transfer, zipped>>
        /\ \/ remade' = FALSE /\ md' = md
           \/ remade' = TRUE /\ md'.body = Blank
        /\ MdPresent => md.body.lock = "l"
    BY <1>11, ParseCourse
  <2>2. \A q \in Procs : pc'[q] # "modify"
    BY <2>1
  <2>3. Blank.lock = "0" /\ ~zipped /\ md.body.lock \in {"0", "l"}  BY <2>1 DEF Blank
  <2> QED BY <2>1, <2>2, <2>3
<1>12. ASSUME NEW p \in Procs, PutOpenSerial(p) PROVE UnreleasedInv'
  BY <1>12 DEF PutOpenSerial
<1>13. ASSUME NEW p \in Procs, PutOpenParallel(p) PROVE UnreleasedInv'
  BY <1>13 DEF PutOpenParallel, Blank
<1>14. ASSUME NEW p \in Procs, PutReceive(p) PROVE UnreleasedInv'
  BY <1>14 DEF PutReceive
<1>15. ASSUME NEW p \in Procs, PutCheckPass(p) PROVE UnreleasedInv'
  BY <1>15 DEF PutCheckPass
<1>16. ASSUME NEW p \in Procs, PutCheckFail(p) PROVE UnreleasedInv'
  BY <1>16 DEF PutCheckFail
<1>17. ASSUME NEW p \in Procs, PutDrop(p) PROVE UnreleasedInv'
  BY <1>17 DEF PutDrop, Blank
<1>18. ASSUME NEW p \in Procs, PutTruncate(p) PROVE UnreleasedInv'
  BY <1>18 DEF PutTruncate, TruncateMd, Blank
<1>19. ASSUME NEW p \in Procs, PutFinal(p) PROVE UnreleasedInv'
  BY <1>19 DEF PutFinal, WriteMd
<1>20. ASSUME NEW p \in Procs, PutHistory(p) PROVE UnreleasedInv'
  BY <1>20 DEF PutHistory
<1>21. ASSUME NEW p \in Procs, PutMsg(p) PROVE UnreleasedInv'
  BY <1>21 DEF PutMsg, Blank
<1>22. ASSUME NEW p \in Procs, BlockOpen(p) PROVE UnreleasedInv'
  BY <1>22 DEF BlockOpen
<1>23. ASSUME NEW p \in Procs, BlockWrite(p) PROVE UnreleasedInv'
  BY <1>23 DEF BlockWrite, Blank
<1>24. ASSUME NEW p \in Procs, AckPass(p) PROVE UnreleasedInv'
  BY <1>24, PassEffect DEF AckPass
<1>25. ASSUME NEW p \in Procs, AckFail(p) PROVE UnreleasedInv'
  BY <1>25 DEF AckFail
<1>26. ASSUME NEW p \in Procs, OneStepMove(p) PROVE UnreleasedInv'
  BY <1>26 DEF OneStepMove
<1>27. ASSUME NEW p \in Procs, ModifyWrite(p) PROVE UnreleasedInv'
  <2>1. PICK b \in Body :
           /\ Changes(op[p], fs[p].body, b)
           /\ fs[p].body \in Body /\ op[p] \in Modifies
           /\ md'.ino = md.ino
           /\ md'.body = IF MdPresent /\ md.ino = fs[p].ino THEN b ELSE md.body
    BY <1>27, ModifyWrites
  <2> QED BY <1>27, <2>1 DEF ModifyWrite, Changes
<1>28. ASSUME NEW p \in Procs, GetOpen(p) PROVE UnreleasedInv'
  BY <1>28 DEF GetOpen
<1>29. ASSUME NEW p \in Procs, GetDone(p) PROVE UnreleasedInv'
  <2>1. UNCHANGED <<md, announced, zipped, transfer, remade>>
    BY <1>29 DEF GetDone
  <2>2. CASE fs[p].body.dlt = "yes"
    <3>1. fs' = fs /\ pc' = [pc EXCEPT ![p] = "unlink_md"]
      BY <1>29, <2>2 DEF GetDone
    <3> QED BY <2>1, <3>1
  <2>3. CASE fs[p].body.dlt # "yes"
    <3>1. Exit(p)  BY <1>29, <2>3 DEF GetDone
    <3>2. \A q \in Procs : pc'[q] # "idle" => pc'[q] = pc[q] /\ fs'[q] = fs[q]
      BY <3>1
    <3> QED BY <2>1, <3>2
  <2> QED BY <2>2, <2>3
<1>30. ASSUME NEW p \in Procs, UnlinkMd(p) PROVE UnreleasedInv'
  BY <1>30 DEF UnlinkMd, Blank
<1>31. ASSUME NEW p \in Procs, UnlinkData(p) PROVE UnreleasedInv'
  BY <1>31 DEF UnlinkData, Blank
<1>32. ASSUME NEW p \in Procs, ZipLock(p) PROVE UnreleasedInv'
  BY <1>32 DEF ZipLock, WriteMd
<1>33. ASSUME NEW p \in Procs, ZipMove(p) PROVE UnreleasedInv'
  BY <1>33 DEF ZipMove
<1>34. ASSUME NEW p \in Procs, ZipCompress(p) PROVE UnreleasedInv'
  BY <1>34 DEF ZipCompress
<1>35. ASSUME NEW p \in Procs, ZipFinish(p) PROVE UnreleasedInv'
  BY <1>35 DEF ZipFinish
<1>36. ASSUME NEW p \in Procs, ZipReread(p) PROVE UnreleasedInv'
  BY <1>36 DEF ZipReread
<1>37. ASSUME NEW p \in Procs, ZipUnlock(p) PROVE UnreleasedInv'
  BY <1>37 DEF ZipUnlock, WriteMd, Blank
<1>38. ASSUME NEW p \in Procs, CronData(p) PROVE UnreleasedInv'
  BY <1>38 DEF CronData, CronSeesExpired, Blank, Expired
<1>39. ASSUME NEW p \in Procs, CronUnlinkExpired(p) PROVE UnreleasedInv'
  BY <1>39 DEF CronUnlinkExpired, Blank
<1>40. ASSUME NEW p \in Procs, CronUnlinkData(p) PROVE UnreleasedInv'
  BY <1>40 DEF CronUnlinkData
<1>41. ASSUME NEW p \in Procs, CronEmpty(p) PROVE UnreleasedInv'
  BY <1>41 DEF CronEmpty, Blank
<1>42. ASSUME NEW p \in Procs, CronUnlinkMd(p) PROVE UnreleasedInv'
  BY <1>42 DEF CronUnlinkMd, Blank
<1>43. ASSUME NEW p \in Procs, CronHistory(p) PROVE UnreleasedInv'
  BY <1>43 DEF CronHistory, Blank
<1>44. ASSUME NEW p \in Procs, Die(p) PROVE UnreleasedInv'
  BY <1>44 DEF Die, Blank
<1>45. ASSUME Tick PROVE UnreleasedInv'
  BY <1>45 DEF Tick, procvars
<1>46. ASSUME UNCHANGED vars PROVE UnreleasedInv'
  BY <1>46 DEF vars, procvars
<1> HIDE DEF MdPresent, CopyInv, UnreleasedInv, Pending, BeforeAck, UploadInv,
             PositionKnows, Uploading, Checking, Acking, ZipPositions, LockInv,
             Quiet, OneUpload, OpenedLocked, NoEarlyRelease, Opening,
             CopiesKnow, Released, OtherDisk, CronPositions, TypeInv, TypeOK,
             Contents, MdFile
<1> QED BY [Next]_vars, <1>1, <1>2, <1>3, <1>4, <1>5, <1>6, <1>7, <1>8, <1>9,
       <1>10, <1>11, <1>12, <1>13, <1>14, <1>15, <1>16, <1>17, <1>18, <1>19,
       <1>20, <1>21, <1>22, <1>23, <1>24, <1>25, <1>26, <1>27, <1>28, <1>29,
       <1>30, <1>31, <1>32, <1>33, <1>34, <1>35, <1>36, <1>37, <1>38, <1>39,
       <1>40, <1>41, <1>42, <1>43, <1>44, <1>45, <1>46
    DEF Next, Arrive, UploadStep, RequestStep, CronStep

-----------------------------------------------------------------------------
(***************************************************************************)
(* Data for several recipients.                                            *)
(***************************************************************************)

(* A deletion flag that put_big_file wrote before it knew the recipients   *)
(* is found under the lock 'l' only, in the metadata and in the copies.    *)
FlagInv ==
    several /\ transfer = "no" /\ ~zipped =>
        /\ md.body.dlt = "yes" => md.body.lock = "l"
        /\ \A p \in Procs :
            /\ pc[p] = "modify" /\ fs[p].body.dlt = "yes" => fs[p].body.lock = "l"
            /\ pc[p] \in BeforeAck \cup {"put_final"} => fs[p].body.dlt # "yes"
            /\ pc[p] \in {"get_open", "get_send"} /\ op[p] = "get"
                   => fs[p].body.dlt # "yes"

(* No step releases the flag that several recipients overruled.            *)
LEMMA FlagStep ==
    ASSUME TypeInv, LockInv, UploadInv, CopyInv, UnreleasedInv, FlagInv,
           [Next]_vars
    PROVE  FlagInv'
<1> USE TypeInv, LockInv, UploadInv, CopyInv, UnreleasedInv, FlagInv
        DEF Serve, Exit, Goto, Idle, MdPresent, NoMd, filevars, ghosts,
            CopyInv, FlagInv, UnreleasedInv, Pending, BeforeAck, UploadInv,
            PositionKnows, Uploading, Checking, Acking, ZipPositions, LockInv,
            Quiet, OneUpload, OpenedLocked, NoEarlyRelease, Opening,
            CopiesKnow, Released, OtherDisk, CronPositions, TypeInv, TypeOK,
            Contents, MdFile
<1>1. ASSUME NEW p \in Procs, NEW u \in Users, PutStart(p, u) PROVE FlagInv'
  BY <1>1 DEF PutStart, TruncateMd, Blank
<1>2. ASSUME NEW p \in Procs, NEW u \in Users, BlockStart(p, u) PROVE FlagInv'
  BY <1>2 DEF BlockStart
<1>3. ASSUME NEW p \in Procs, NEW u \in Users, AckStart(p, u) PROVE FlagInv'
  BY <1>3 DEF AckStart
<1>4. ASSUME NEW p \in Procs, NEW u \in Users, OneStepStart(p, u) PROVE FlagInv'
  BY <1>4 DEF OneStepStart, Blank
<1>5. ASSUME NEW p \in Procs, NEW u \in Users, NEW o \in Modifies,
             ModifyRead(p, u, o)
      PROVE  FlagInv'
  <2>1. md.body # Blank
    BY <1>5, NothingForBlank DEF ModifyRead
  <2> QED BY <1>5, <2>1 DEF ModifyRead
<1>6. ASSUME NEW p \in Procs, NEW u \in Users, NEW o \in {"get", "getdlt"},
             GetRead(p, u, o)
      PROVE  FlagInv'
  BY <1>6 DEF GetRead, Retrievable
<1>7. ASSUME NEW p \in Procs, NEW u \in Users, DeleteRead(p, u) PROVE FlagInv'
  BY <1>7 DEF DeleteRead
<1>8. ASSUME NEW p \in Procs, NEW u \in Users, ZipRead(p, u) PROVE FlagInv'
  BY <1>8 DEF ZipRead, Retrievable
<1>9. ASSUME NEW p \in Procs, CronStart(p) PROVE FlagInv'
  BY <1>9 DEF CronStart, Blank
<1>10. ASSUME NEW p \in Procs, PutWriteMd(p) PROVE FlagInv'
  BY <1>10 DEF PutWriteMd, WriteMd
<1>11. ASSUME NEW p \in Procs, PutParse(p) PROVE FlagInv'
  <2> HIDE DEF LockInv, TypeInv, UploadInv
  <2>1. /\ pc'[p] = "put_open"
        /\ \A q \in Procs : q # p => /\ pc[q] \in {"idle"} \cup CronPositions
                                    /\ pc'[q] = pc[q] /\ fs'[q] = fs[q]
        /\ several' => fs'[p].body.dlt = "no"
        /\ ~announced /\ (md' = md \/ md'.body = Blank)
    BY <1>11, ParseCourse
  <2>2. \A q \in Procs : q # p =>
            pc'[q] \notin {"modify", "put_final", "get_open", "get_send"} \cup BeforeAck
    BY <2>1
  <2>3. Blank.dlt # "yes"  BY DEF Blank
  <2>4. md.body.dlt = "yes" => md.body.lock = "l"  BY <2>1, <2>3
  <2> QED BY <2>1, <2>2, <2>3, <2>4
<1>12. ASSUME NEW p \in Procs, PutOpenSerial(p) PROVE FlagInv'
  BY <1>12 DEF PutOpenSerial
<1>13. ASSUME NEW p \in Procs, PutOpenParallel(p) PROVE FlagInv'
  BY <1>13 DEF PutOpenParallel, Blank
<1>14. ASSUME NEW p \in Procs, PutReceive(p) PROVE FlagInv'
  BY <1>14 DEF PutReceive
<1>15. ASSUME NEW p \in Procs, PutCheckPass(p) PROVE FlagInv'
  BY <1>15 DEF PutCheckPass
<1>16. ASSUME NEW p \in Procs, PutCheckFail(p) PROVE FlagInv'
  BY <1>16 DEF PutCheckFail
<1>17. ASSUME NEW p \in Procs, PutDrop(p) PROVE FlagInv'
  BY <1>17 DEF PutDrop, Blank
<1>18. ASSUME NEW p \in Procs, PutTruncate(p) PROVE FlagInv'
  BY <1>18 DEF PutTruncate, TruncateMd, Blank
<1>19. ASSUME NEW p \in Procs, PutFinal(p) PROVE FlagInv'
  BY <1>19 DEF PutFinal, WriteMd
<1>20. ASSUME NEW p \in Procs, PutHistory(p) PROVE FlagInv'
  BY <1>20 DEF PutHistory
<1>21. ASSUME NEW p \in Procs, PutMsg(p) PROVE FlagInv'
  BY <1>21 DEF PutMsg, Blank
<1>22. ASSUME NEW p \in Procs, BlockOpen(p) PROVE FlagInv'
  BY <1>22 DEF BlockOpen
<1>23. ASSUME NEW p \in Procs, BlockWrite(p) PROVE FlagInv'
  BY <1>23 DEF BlockWrite, Blank
<1>24. ASSUME NEW p \in Procs, AckPass(p) PROVE FlagInv'
  BY <1>24, PassEffect DEF AckPass
<1>25. ASSUME NEW p \in Procs, AckFail(p) PROVE FlagInv'
  BY <1>25 DEF AckFail
<1>26. ASSUME NEW p \in Procs, OneStepMove(p) PROVE FlagInv'
  BY <1>26 DEF OneStepMove
<1>27. ASSUME NEW p \in Procs, ModifyWrite(p) PROVE FlagInv'
  <2>1. PICK b \in Body :
           /\ Changes(op[p], fs[p].body, b)
           /\ fs[p].body \in Body /\ op[p] \in Modifies
           /\ md'.ino = md.ino
           /\ md'.body = IF MdPresent /\ md.ino = fs[p].ino THEN b ELSE md.body
    BY <1>27, ModifyWrites
  <2> QED BY <1>27, <2>1 DEF ModifyWrite, Changes
<1>28. ASSUME NEW p \in Procs, GetOpen(p) PROVE FlagInv'
  BY <1>28 DEF GetOpen
<1>29. ASSUME NEW p \in Procs, GetDone(p) PROVE FlagInv'
  BY <1>29 DEF GetDone, Blank
<1>30. ASSUME NEW p \in Procs, UnlinkMd(p) PROVE FlagInv'
  BY <1>30 DEF UnlinkMd, Blank
<1>31. ASSUME NEW p \in Procs, UnlinkData(p) PROVE FlagInv'
  BY <1>31 DEF UnlinkData, Blank
<1>32. ASSUME NEW p \in Procs, ZipLock(p) PROVE FlagInv'
  BY <1>32 DEF ZipLock, WriteMd
<1>33. ASSUME NEW p \in Procs, ZipMove(p) PROVE FlagInv'
  BY <1>33 DEF ZipMove
<1>34. ASSUME NEW p \in Procs, ZipCompress(p) PROVE FlagInv'
  BY <1>34 DEF ZipCompress
<1>35. ASSUME NEW p \in Procs, ZipFinish(p) PROVE FlagInv'
  BY <1>35 DEF ZipFinish
<1>36. ASSUME NEW p \in Procs, ZipReread(p) PROVE FlagInv'
  BY <1>36 DEF ZipReread
<1>37. ASSUME NEW p \in Procs, ZipUnlock(p) PROVE FlagInv'
  BY <1>37 DEF ZipUnlock, WriteMd, Blank
<1>38. ASSUME NEW p \in Procs, CronData(p) PROVE FlagInv'
  BY <1>38 DEF CronData, CronSeesExpired, Blank, Expired
<1>39. ASSUME NEW p \in Procs, CronUnlinkExpired(p) PROVE FlagInv'
  BY <1>39 DEF CronUnlinkExpired, Blank
<1>40. ASSUME NEW p \in Procs, CronUnlinkData(p) PROVE FlagInv'
  BY <1>40 DEF CronUnlinkData
<1>41. ASSUME NEW p \in Procs, CronEmpty(p) PROVE FlagInv'
  BY <1>41 DEF CronEmpty, Blank
<1>42. ASSUME NEW p \in Procs, CronUnlinkMd(p) PROVE FlagInv'
  BY <1>42 DEF CronUnlinkMd, Blank
<1>43. ASSUME NEW p \in Procs, CronHistory(p) PROVE FlagInv'
  BY <1>43 DEF CronHistory, Blank
<1>44. ASSUME NEW p \in Procs, Die(p) PROVE FlagInv'
  BY <1>44 DEF Die, Blank
<1>45. ASSUME Tick PROVE FlagInv'
  BY <1>45 DEF Tick, procvars
<1>46. ASSUME UNCHANGED vars PROVE FlagInv'
  BY <1>46 DEF vars, procvars
<1> HIDE DEF MdPresent, CopyInv, FlagInv, UnreleasedInv, Pending, BeforeAck,
             UploadInv, PositionKnows, Uploading, Checking, Acking,
             ZipPositions, LockInv, Quiet, OneUpload, OpenedLocked,
             NoEarlyRelease, Opening, CopiesKnow, Released, OtherDisk,
             CronPositions, TypeInv, TypeOK, Contents, MdFile
<1> QED BY [Next]_vars, <1>1, <1>2, <1>3, <1>4, <1>5, <1>6, <1>7, <1>8, <1>9,
       <1>10, <1>11, <1>12, <1>13, <1>14, <1>15, <1>16, <1>17, <1>18, <1>19,
       <1>20, <1>21, <1>22, <1>23, <1>24, <1>25, <1>26, <1>27, <1>28, <1>29,
       <1>30, <1>31, <1>32, <1>33, <1>34, <1>35, <1>36, <1>37, <1>38, <1>39,
       <1>40, <1>41, <1>42, <1>43, <1>44, <1>45, <1>46
    DEF Next, Arrive, UploadStep, RequestStep, CronStep

-----------------------------------------------------------------------------
(***************************************************************************)
(* Deletion.                                                               *)
(***************************************************************************)

(* Who read metadata without content did so after the fopen "w" of         *)
(* put_trans_file_ack, unless data_log made them: when such a process has  *)
(* removed the name, nothing makes the metadata again.                     *)
BlankInv ==
    \A p \in Procs : OtherDisk(p) /\ ~remade /\ ~zipped =>
        /\ pc[p] \in {"get_open", "get_send", "unlink_md", "unlink_data"} => ~Pending
        /\ pc[p] = "unlink_data" => ~MdPresent

(* After a deletion the metadata or the data are gone for good.            *)
GoneInv ==
    removed = "all" /\ transfer = "no" /\ ~zipped /\ ~remade
        => received /\ ((~MdPresent /\ ~Pending) \/ data = "absent")

(* Who reads metadata without content reads them late.                     *)
LEMMA BlankStep ==
    ASSUME TypeInv, LockInv, UploadInv, CopyInv, UnreleasedInv, BlankInv,
           [Next]_vars
    PROVE  BlankInv'
<1> USE TypeInv, LockInv, UploadInv, CopyInv, UnreleasedInv, BlankInv
        DEF Serve, Exit, Goto, Idle, MdPresent, NoMd, filevars, ghosts,
            CopyInv, BlankInv, UnreleasedInv, Pending, BeforeAck, UploadInv,
            PositionKnows, Uploading, Checking, Acking, ZipPositions, LockInv,
            Quiet, OneUpload, OpenedLocked, NoEarlyRelease, Opening,
            CopiesKnow, Released, OtherDisk, CronPositions, TypeInv, TypeOK,
            Contents, MdFile
<1>1. ASSUME NEW p \in Procs, NEW u \in Users, PutStart(p, u) PROVE BlankInv'
  BY <1>1 DEF PutStart, TruncateMd, Blank
<1>2. ASSUME NEW p \in Procs, NEW u \in Users, BlockStart(p, u) PROVE BlankInv'
  BY <1>2 DEF BlockStart
<1>3. ASSUME NEW p \in Procs, NEW u \in Users, AckStart(p, u) PROVE BlankInv'
  BY <1>3 DEF AckStart
<1>4. ASSUME NEW p \in Procs, NEW u \in Users, OneStepStart(p, u)
      PROVE  BlankInv'
  BY <1>4 DEF OneStepStart, Blank
<1>5. ASSUME NEW p \in Procs, NEW u \in Users, NEW o \in Modifies,
             ModifyRead(p, u, o)
      PROVE  BlankInv'
  BY <1>5 DEF ModifyRead, Permitted
<1>6. ASSUME NEW p \in Procs, NEW u \in Users, NEW o \in {"get", "getdlt"},
             GetRead(p, u, o)
      PROVE  BlankInv'
  BY <1>6 DEF GetRead, Retrievable
<1>7. ASSUME NEW p \in Procs, NEW u \in Users, DeleteRead(p, u) PROVE BlankInv'
  BY <1>7 DEF DeleteRead
<1>8. ASSUME NEW p \in Procs, NEW u \in Users, ZipRead(p, u) PROVE BlankInv'
  BY <1>8 DEF ZipRead, Retrievable
<1>9. ASSUME NEW p \in Procs, CronStart(p) PROVE BlankInv'
  BY <1>9 DEF CronStart, Blank
<1>10. ASSUME NEW p \in Procs, PutWriteMd(p) PROVE BlankInv'
  BY <1>10 DEF PutWriteMd, WriteMd
<1>11. ASSUME NEW p \in Procs, PutParse(p) PROVE BlankInv'
  BY <1>11, ParseCourse DEF Blank
<1>12. ASSUME NEW p \in Procs, PutOpenSerial(p) PROVE BlankInv'
  BY <1>12 DEF PutOpenSerial
<1>13. ASSUME NEW p \in Procs, PutOpenParallel(p) PROVE BlankInv'
  BY <1>13 DEF PutOpenParallel, Blank
<1>14. ASSUME NEW p \in Procs, PutReceive(p) PROVE BlankInv'
  BY <1>14 DEF PutReceive
<1>15. ASSUME NEW p \in Procs, PutCheckPass(p) PROVE BlankInv'
  BY <1>15 DEF PutCheckPass
<1>16. ASSUME NEW p \in Procs, PutCheckFail(p) PROVE BlankInv'
  BY <1>16 DEF PutCheckFail
<1>17. ASSUME NEW p \in Procs, PutDrop(p) PROVE BlankInv'
  BY <1>17 DEF PutDrop, Blank
<1>18. ASSUME NEW p \in Procs, PutTruncate(p) PROVE BlankInv'
  BY <1>18 DEF PutTruncate, TruncateMd, Blank
<1>19. ASSUME NEW p \in Procs, PutFinal(p) PROVE BlankInv'
  BY <1>19 DEF PutFinal, WriteMd
<1>20. ASSUME NEW p \in Procs, PutHistory(p) PROVE BlankInv'
  BY <1>20 DEF PutHistory
<1>21. ASSUME NEW p \in Procs, PutMsg(p) PROVE BlankInv'
  BY <1>21 DEF PutMsg, Blank
<1>22. ASSUME NEW p \in Procs, BlockOpen(p) PROVE BlankInv'
  BY <1>22 DEF BlockOpen
<1>23. ASSUME NEW p \in Procs, BlockWrite(p) PROVE BlankInv'
  BY <1>23 DEF BlockWrite, Blank
<1>24. ASSUME NEW p \in Procs, AckPass(p) PROVE BlankInv'
  BY <1>24, PassEffect DEF AckPass
<1>25. ASSUME NEW p \in Procs, AckFail(p) PROVE BlankInv'
  BY <1>25 DEF AckFail
<1>26. ASSUME NEW p \in Procs, OneStepMove(p) PROVE BlankInv'
  BY <1>26 DEF OneStepMove
<1>27. ASSUME NEW p \in Procs, ModifyWrite(p) PROVE BlankInv'
  BY <1>27 DEF ModifyWrite, WriteMd, Modified, Blank
<1>28. ASSUME NEW p \in Procs, GetOpen(p) PROVE BlankInv'
  BY <1>28 DEF GetOpen
<1>29. ASSUME NEW p \in Procs, GetDone(p) PROVE BlankInv'
  BY <1>29 DEF GetDone, Blank
<1>30. ASSUME NEW p \in Procs, UnlinkMd(p) PROVE BlankInv'
  BY <1>30 DEF UnlinkMd, Blank
<1>31. ASSUME NEW p \in Procs, UnlinkData(p) PROVE BlankInv'
  BY <1>31 DEF UnlinkData, Blank
<1>32. ASSUME NEW p \in Procs, ZipLock(p) PROVE BlankInv'
  BY <1>32 DEF ZipLock, WriteMd
<1>33. ASSUME NEW p \in Procs, ZipMove(p) PROVE BlankInv'
  BY <1>33 DEF ZipMove
<1>34. ASSUME NEW p \in Procs, ZipCompress(p) PROVE BlankInv'
  BY <1>34 DEF ZipCompress
<1>35. ASSUME NEW p \in Procs, ZipFinish(p) PROVE BlankInv'
  BY <1>35 DEF ZipFinish
<1>36. ASSUME NEW p \in Procs, ZipReread(p) PROVE BlankInv'
  BY <1>36 DEF ZipReread
<1>37. ASSUME NEW p \in Procs, ZipUnlock(p) PROVE BlankInv'
  BY <1>37 DEF ZipUnlock, WriteMd, Blank
<1>38. ASSUME NEW p \in Procs, CronData(p) PROVE BlankInv'
  BY <1>38 DEF CronData, CronSeesExpired, Blank, Expired
<1>39. ASSUME NEW p \in Procs, CronUnlinkExpired(p) PROVE BlankInv'
  BY <1>39 DEF CronUnlinkExpired, Blank
<1>40. ASSUME NEW p \in Procs, CronUnlinkData(p) PROVE BlankInv'
  BY <1>40 DEF CronUnlinkData
<1>41. ASSUME NEW p \in Procs, CronEmpty(p) PROVE BlankInv'
  BY <1>41 DEF CronEmpty, Blank
<1>42. ASSUME NEW p \in Procs, CronUnlinkMd(p) PROVE BlankInv'
  BY <1>42 DEF CronUnlinkMd, Blank
<1>43. ASSUME NEW p \in Procs, CronHistory(p) PROVE BlankInv'
  BY <1>43 DEF CronHistory, Blank
<1>44. ASSUME NEW p \in Procs, Die(p) PROVE BlankInv'
  BY <1>44 DEF Die, Blank
<1>45. ASSUME Tick PROVE BlankInv'
  BY <1>45 DEF Tick, procvars
<1>46. ASSUME UNCHANGED vars PROVE BlankInv'
  BY <1>46 DEF vars, procvars
<1> HIDE DEF MdPresent, CopyInv, BlankInv, UnreleasedInv, Pending, BeforeAck,
             UploadInv, PositionKnows, Uploading, Checking, Acking,
             ZipPositions, LockInv, Quiet, OneUpload, OpenedLocked,
             NoEarlyRelease, Opening, CopiesKnow, Released, OtherDisk,
             CronPositions, TypeInv, TypeOK, Contents, MdFile
<1> QED BY [Next]_vars, <1>1, <1>2, <1>3, <1>4, <1>5, <1>6, <1>7, <1>8, <1>9,
       <1>10, <1>11, <1>12, <1>13, <1>14, <1>15, <1>16, <1>17, <1>18, <1>19,
       <1>20, <1>21, <1>22, <1>23, <1>24, <1>25, <1>26, <1>27, <1>28, <1>29,
       <1>30, <1>31, <1>32, <1>33, <1>34, <1>35, <1>36, <1>37, <1>38, <1>39,
       <1>40, <1>41, <1>42, <1>43, <1>44, <1>45, <1>46
    DEF Next, Arrive, UploadStep, RequestStep, CronStep

(* Every step keeps a deletion.                                            *)
LEMMA GoneStep ==
    ASSUME TypeInv, LockInv, UploadInv, CheckedInv, BlankInv, GoneInv,
           [Next]_vars
    PROVE  GoneInv'
<1> USE TypeInv, LockInv, UploadInv, CheckedInv, BlankInv, GoneInv
        DEF Serve, Exit, Goto, Idle, MdPresent, NoMd, filevars, ghosts,
            BlankInv, GoneInv, CheckedInv, Pending, BeforeAck, UploadInv,
            PositionKnows, Uploading, Checking, Acking, ZipPositions, LockInv,
            Quiet, OneUpload, OpenedLocked, NoEarlyRelease, Opening,
            CopiesKnow, Released, OtherDisk, CronPositions, TypeInv, TypeOK,
            Contents, MdFile
<1>1. ASSUME NEW p \in Procs, NEW u \in Users, PutStart(p, u) PROVE GoneInv'
  BY <1>1 DEF PutStart, TruncateMd, Blank
<1>2. ASSUME NEW p \in Procs, NEW u \in Users, BlockStart(p, u) PROVE GoneInv'
  BY <1>2 DEF BlockStart
<1>3. ASSUME NEW p \in Procs, NEW u \in Users, AckStart(p, u) PROVE GoneInv'
  BY <1>3 DEF AckStart
<1>4. ASSUME NEW p \in Procs, NEW u \in Users, OneStepStart(p, u) PROVE GoneInv'
  BY <1>4 DEF OneStepStart, Blank
<1>5. ASSUME NEW p \in Procs, NEW u \in Users, NEW o \in Modifies,
             ModifyRead(p, u, o)
      PROVE  GoneInv'
  BY <1>5 DEF ModifyRead, Permitted
<1>6. ASSUME NEW p \in Procs, NEW u \in Users, NEW o \in {"get", "getdlt"},
             GetRead(p, u, o)
      PROVE  GoneInv'
  BY <1>6 DEF GetRead, Retrievable
<1>7. ASSUME NEW p \in Procs, NEW u \in Users, DeleteRead(p, u) PROVE GoneInv'
  BY <1>7 DEF DeleteRead
<1>8. ASSUME NEW p \in Procs, NEW u \in Users, ZipRead(p, u) PROVE GoneInv'
  BY <1>8 DEF ZipRead, Retrievable
<1>9. ASSUME NEW p \in Procs, CronStart(p) PROVE GoneInv'
  BY <1>9 DEF CronStart, Blank
<1>10. ASSUME NEW p \in Procs, PutWriteMd(p) PROVE GoneInv'
  BY <1>10 DEF PutWriteMd, WriteMd
<1>11. ASSUME NEW p \in Procs, PutParse(p) PROVE GoneInv'
  BY <1>11, ParseCourse DEF Blank
<1>12. ASSUME NEW p \in Procs, PutOpenSerial(p) PROVE GoneInv'
  BY <1>12 DEF PutOpenSerial
<1>13. ASSUME NEW p \in Procs, PutOpenParallel(p) PROVE GoneInv'
  BY <1>13 DEF PutOpenParallel, Blank
<1>14. ASSUME NEW p \in Procs, PutReceive(p) PROVE GoneInv'
  BY <1>14 DEF PutReceive
<1>15. ASSUME NEW p \in Procs, PutCheckPass(p) PROVE GoneInv'
  BY <1>15 DEF PutCheckPass
<1>16. ASSUME NEW p \in Procs, PutCheckFail(p) PROVE GoneInv'
  BY <1>16 DEF PutCheckFail
<1>17. ASSUME NEW p \in Procs, PutDrop(p) PROVE GoneInv'
  BY <1>17 DEF PutDrop, Blank
<1>18. ASSUME NEW p \in Procs, PutTruncate(p) PROVE GoneInv'
  BY <1>18 DEF PutTruncate, TruncateMd, Blank
<1>19. ASSUME NEW p \in Procs, PutFinal(p) PROVE GoneInv'
  BY <1>19 DEF PutFinal, WriteMd
<1>20. ASSUME NEW p \in Procs, PutHistory(p) PROVE GoneInv'
  BY <1>20 DEF PutHistory
<1>21. ASSUME NEW p \in Procs, PutMsg(p) PROVE GoneInv'
  BY <1>21 DEF PutMsg, Blank
<1>22. ASSUME NEW p \in Procs, BlockOpen(p) PROVE GoneInv'
  BY <1>22 DEF BlockOpen
<1>23. ASSUME NEW p \in Procs, BlockWrite(p) PROVE GoneInv'
  BY <1>23 DEF BlockWrite, Blank
<1>24. ASSUME NEW p \in Procs, AckPass(p) PROVE GoneInv'
  BY <1>24, PassEffect DEF AckPass
<1>25. ASSUME NEW p \in Procs, AckFail(p) PROVE GoneInv'
  BY <1>25 DEF AckFail
<1>26. ASSUME NEW p \in Procs, OneStepMove(p) PROVE GoneInv'
  BY <1>26 DEF OneStepMove
<1>27. ASSUME NEW p \in Procs, ModifyWrite(p) PROVE GoneInv'
  BY <1>27 DEF ModifyWrite, WriteMd, Modified, Blank
<1>28. ASSUME NEW p \in Procs, GetOpen(p) PROVE GoneInv'
  BY <1>28 DEF GetOpen
<1>29. ASSUME NEW p \in Procs, GetDone(p) PROVE GoneInv'
  BY <1>29 DEF GetDone, Blank
<1>30. ASSUME NEW p \in Procs, UnlinkMd(p) PROVE GoneInv'
  BY <1>30 DEF UnlinkMd, Blank
<1>31. ASSUME NEW p \in Procs, UnlinkData(p) PROVE GoneInv'
  BY <1>31 DEF UnlinkData, Blank
<1>32. ASSUME NEW p \in Procs, ZipLock(p) PROVE GoneInv'
  BY <1>32 DEF ZipLock, WriteMd
<1>33. ASSUME NEW p \in Procs, ZipMove(p) PROVE GoneInv'
  BY <1>33 DEF ZipMove
<1>34. ASSUME NEW p \in Procs, ZipCompress(p) PROVE GoneInv'
  BY <1>34 DEF ZipCompress
<1>35. ASSUME NEW p \in Procs, ZipFinish(p) PROVE GoneInv'
  BY <1>35 DEF ZipFinish
<1>36. ASSUME NEW p \in Procs, ZipReread(p) PROVE GoneInv'
  BY <1>36 DEF ZipReread
<1>37. ASSUME NEW p \in Procs, ZipUnlock(p) PROVE GoneInv'
  BY <1>37 DEF ZipUnlock, WriteMd, Blank
<1>38. ASSUME NEW p \in Procs, CronData(p) PROVE GoneInv'
  BY <1>38 DEF CronData, CronSeesExpired, Blank, Expired
<1>39. ASSUME NEW p \in Procs, CronUnlinkExpired(p) PROVE GoneInv'
  BY <1>39 DEF CronUnlinkExpired, Blank
<1>40. ASSUME NEW p \in Procs, CronUnlinkData(p) PROVE GoneInv'
  BY <1>40 DEF CronUnlinkData
<1>41. ASSUME NEW p \in Procs, CronEmpty(p) PROVE GoneInv'
  BY <1>41 DEF CronEmpty, Blank
<1>42. ASSUME NEW p \in Procs, CronUnlinkMd(p) PROVE GoneInv'
  BY <1>42 DEF CronUnlinkMd, Blank
<1>43. ASSUME NEW p \in Procs, CronHistory(p) PROVE GoneInv'
  BY <1>43 DEF CronHistory, Blank
<1>44. ASSUME NEW p \in Procs, Die(p) PROVE GoneInv'
  BY <1>44 DEF Die, Blank
<1>45. ASSUME Tick PROVE GoneInv'
  BY <1>45 DEF Tick, procvars
<1>46. ASSUME UNCHANGED vars PROVE GoneInv'
  BY <1>46 DEF vars, procvars
<1> HIDE DEF MdPresent, BlankInv, GoneInv, CheckedInv, Pending, BeforeAck,
             UploadInv, PositionKnows, Uploading, Checking, Acking,
             ZipPositions, LockInv, Quiet, OneUpload, OpenedLocked,
             NoEarlyRelease, Opening, CopiesKnow, Released, OtherDisk,
             CronPositions, TypeInv, TypeOK, Contents, MdFile
<1> QED BY [Next]_vars, <1>1, <1>2, <1>3, <1>4, <1>5, <1>6, <1>7, <1>8, <1>9,
       <1>10, <1>11, <1>12, <1>13, <1>14, <1>15, <1>16, <1>17, <1>18, <1>19,
       <1>20, <1>21, <1>22, <1>23, <1>24, <1>25, <1>26, <1>27, <1>28, <1>29,
       <1>30, <1>31, <1>32, <1>33, <1>34, <1>35, <1>36, <1>37, <1>38, <1>39,
       <1>40, <1>41, <1>42, <1>43, <1>44, <1>45, <1>46
    DEF Next, Arrive, UploadStep, RequestStep, CronStep

-----------------------------------------------------------------------------
(***************************************************************************)
(* The days of the extensions, for w the longest weekend.                  *)
(***************************************************************************)

(* The days that put_trans_file_ack has made part of the expiration time   *)
(* while it starts the count again.                                        *)
Base == IF transfer = "acked" THEN ExtendMax ELSE 0

InTime(b, d, base, w) ==
    b.ext <= ExtendMax /\ b.time <= d + (base + b.ext) * (1 + w)

(* The metadata, and every copy that is going to be written, are in time.  *)
Dates(w) ==
    /\ InTime(md.body, due, Base, w)
    /\ \A p \in Procs :
        /\ pc[p] \in {"put_md", "put_parse", "put_open", "put_rcv", "put_check", "u1_move"}
               => fs[p].body.ext = 0 /\ fs[p].body.time <= due
        /\ pc[p] \in {"ack_check", "put_trunc"}
               => fs[p].body.time <= due + Base * (1 + w)
        /\ pc[p] \in {"put_final", "modify", "zip_lock", "zip_unlock"}
               => InTime(fs[p].body, due, Base, w)
    /\ form = "none" => due = 0

DateInv == \A w \in Weekend : (\A v \in Weekend : v <= w) => Dates(w)

(* A larger bound in days is a larger bound in time, and a day with the    *)
(* weekend that it moves is at most 1 + w days.                            *)
LEMMA Products ==
    ASSUME NEW a \in Nat, NEW b \in Nat, NEW w \in Nat, a <= b
    PROVE  a * (1 + w) <= b * (1 + w)
  BY SMTT(30)

LEMMA DaysAdd ==
    ASSUME NEW a \in Nat, NEW n \in Nat \ {0}, NEW w \in Nat, NEW v \in Nat, v <= w
    PROVE  a * (1 + w) + n + v <= (a + n) * (1 + w)
<1>1. (a + n) * (1 + w) = a * (1 + w) + n * (1 + w)  BY SMTT(30)
<1>2. n * (1 + w) = n + n * w  BY SMTT(30)
<1>3. n = 1 + (n - 1) /\ n - 1 \in Nat  OBVIOUS
<1>4. n * w = w + (n - 1) * w  BY <1>3, SMTT(30)
<1>5. (n - 1) * w \in Nat  BY <1>3, SMTT(30)
<1> DEFINE x == a * (1 + w)  y == n * (1 + w)  z == n * w  r == (n - 1) * w
<1>6. x \in Nat /\ y \in Nat /\ z \in Nat  BY SMTT(30)
<1>7. y = n + z /\ z = w + r /\ r \in Nat  BY <1>2, <1>4, <1>5
<1> HIDE DEF x, y, z, r
<1>8. x + n + v <= x + y  BY <1>6, <1>7
<1> QED BY <1>1, <1>8 DEF x, y

LEMMA BaseNat == TypeInv => Base \in Nat
  BY TimeAssumption DEF Base

LEMMA BlankInTime ==
    ASSUME NEW d \in Nat, NEW base \in Nat, NEW w \in Nat
    PROVE  InTime(Blank, d, base, w)
<1>1. base * (1 + w) \in Nat  BY SMTT(30)
<1>2. Blank.ext = 0 /\ Blank.time = 0 /\ base + 0 = base  BY DEF Blank
<1> DEFINE x == base * (1 + w)
<1> HIDE DEF x
<1>3. 0 <= ExtendMax /\ 0 <= d + x  BY <1>1, TimeAssumption DEF x
<1> QED BY <1>2, <1>3 DEF InTime, x

(* The bound only grows when the count is started again.                   *)
LEMMA InTimeMore ==
    ASSUME NEW b \in Body, NEW d \in Nat, NEW w \in Nat, InTime(b, d, 0, w)
    PROVE  InTime(b, d, ExtendMax, w) /\ b.time <= d + ExtendMax * (1 + w)
<1>1. b.ext \in Nat /\ b.time \in Nat /\ ExtendMax \in Nat  BY TimeAssumption DEF Body
<1>2. b.ext <= ExtendMax /\ b.time <= d + b.ext * (1 + w)  BY <1>1 DEF InTime
<1>3. /\ b.ext * (1 + w) <= ExtendMax * (1 + w)
      /\ b.ext * (1 + w) <= (ExtendMax + b.ext) * (1 + w)
  BY <1>1, <1>2, Products
<1>4. b.ext * (1 + w) \in Nat /\ ExtendMax * (1 + w) \in Nat
      /\ (ExtendMax + b.ext) * (1 + w) \in Nat
  BY <1>1, SMTT(30)
<1> DEFINE x == b.ext * (1 + w)  y == ExtendMax * (1 + w)
           z == (ExtendMax + b.ext) * (1 + w)
<1> HIDE DEF x, y, z
<1>5. b.time <= d + y /\ b.time <= d + z  BY <1>1, <1>2, <1>3, <1>4 DEF x, y, z
<1> QED BY <1>2, <1>5 DEF InTime, y, z

(* A request leaves the time and the count, or extends both alike.         *)
LEMMA ChangesInTime ==
    ASSUME NEW o, NEW c \in Body, NEW b \in Body, Changes(o, c, b),
           NEW d \in Nat, NEW base \in Nat,
           NEW w \in Weekend, \A v \in Weekend : v <= w, InTime(c, d, base, w)
    PROVE  InTime(b, d, base, w)
<1>1. /\ b.ext \in Nat /\ b.time \in Nat /\ c.ext \in Nat /\ c.time \in Nat
      /\ w \in Nat /\ ExtendMax \in Nat
  BY TimeAssumption DEF Body
<1>2. CASE o # "extend"  BY <1>2, Changes(o, c, b), InTime(c, d, base, w) DEF Changes,
                                                                              InTime
<1>3. CASE o = "extend"
  <2>1. PICK n \in 1 .. (ExtendMax - c.ext), v \in Weekend :
            b.time = c.time + n + v /\ b.ext = c.ext + n
    BY <1>3, Changes(o, c, b) DEF Changes
  <2>2. n \in Nat \ {0} /\ v \in Nat /\ v <= w /\ b.ext <= ExtendMax
    BY <1>1, <2>1, TimeAssumption, \A u \in Weekend : u <= w
  <2> DEFINE a == base + c.ext  x == a * (1 + w)  y == (a + n) * (1 + w)
  <2>3. a \in Nat /\ base + b.ext = a + n  BY <1>1, <2>1, <2>2
  <2>4. x + n + v <= y
    <3> HIDE DEF a
    <3> QED BY <1>1, <2>2, <2>3, DaysAdd
  <2>5. x \in Nat /\ y \in Nat
    <3> HIDE DEF a
    <3> QED BY <1>1, <2>2, <2>3, SMTT(30)
  <2>6. c.time <= d + x  BY InTime(c, d, base, w) DEF InTime
  <2> HIDE DEF x, y
  <2>7. b.time <= d + y  BY <1>1, <2>1, <2>2, <2>4, <2>5, <2>6
  <2> QED BY <2>2, <2>3, <2>7 DEF InTime, y
<1> QED BY <1>2, <1>3

(* Every step keeps the dates.                                             *)
LEMMA DatesStep ==
    ASSUME NEW w \in Weekend, \A v \in Weekend : v <= w, TypeInv, LockInv,
           UploadInv, Dates(w), [Next]_vars
    PROVE  Dates(w)'
<1>0. w \in Nat /\ Base \in Nat /\ Weekend \subseteq Nat
  BY TypeInv, BaseNat, TimeAssumption
<1> USE \A v \in Weekend : v <= w, TypeInv, LockInv, UploadInv, Dates(w)
        DEF Serve, Exit, Goto, Idle, MdPresent, NoMd, filevars, ghosts, Dates,
            Base, UploadInv, PositionKnows, Uploading, Checking, Acking,
            ZipPositions, LockInv, Quiet, OneUpload, OpenedLocked,
            NoEarlyRelease, Opening, CopiesKnow, Released, OtherDisk,
            CronPositions, TypeInv, TypeOK, Contents, MdFile
<1>1. ASSUME NEW p \in Procs, NEW u \in Users, PutStart(p, u) PROVE Dates(w)'
  <2>1. ~announced /\ due = 0 /\ transfer = "no" /\ form = "none"
    BY <1>1 DEF PutStart
  <2>2. \A q \in Procs : pc[q] \in {"idle"} \cup CronPositions
    BY <2>1
  <2>3. \A q \in Procs : q # p => pc'[q] = pc[q]
    BY <1>1 DEF PutStart
  <2>4. due' \in Nat /\ due' = now + Life /\ transfer' = "no" /\ form' # "none"
    BY <1>1, <2>1, TimeAssumption DEF PutStart
  <2>5. Base' = 0 /\ Base = 0  BY <2>1, <2>4
  <2>6. /\ fs'[p].body.time = due' /\ fs'[p].body.ext = 0 /\ pc'[p] = "put_md"
        /\ md'.body = Blank
    BY <1>1, <2>4 DEF PutStart, TruncateMd
  <2>7. InTime(md'.body, due', Base', w)  BY <1>0, <2>4, <2>5, <2>6, BlankInTime
  <2> QED BY <2>2, <2>3, <2>4, <2>6, <2>7
<1>2. ASSUME NEW p \in Procs, NEW u \in Users, BlockStart(p, u) PROVE Dates(w)'
  BY <1>2 DEF BlockStart
<1>3. ASSUME NEW p \in Procs, NEW u \in Users, AckStart(p, u) PROVE Dates(w)'
  <2>1. md.body \in Body /\ (\A q \in Procs : fs[q].body \in Body) /\ due \in Nat
    OBVIOUS
  <2>2. transfer = "parallel" /\ Base = 0 /\ Base' = ExtendMax
    BY <1>3 DEF AckStart
  <2>3. \A b \in Body : InTime(b, due, Base, w)
            => InTime(b, due, ExtendMax, w) /\ b.time <= due + ExtendMax * (1 + w)
    BY <1>0, <2>1, <2>2, InTimeMore
  <2>4. \A q \in Procs : pc[q] \notin Uploading
    BY <2>2
  <2>5. /\ \A q \in Procs : q # p => pc'[q] = pc[q] /\ fs'[q] = fs[q]
        /\ pc'[p] = "ack_check" /\ fs'[p].body = [md.body EXCEPT !.lock = "u"]
        /\ UNCHANGED <<md, due, form>>
    BY <1>3 DEF AckStart
  <2>6. fs'[p].body.time = md.body.time  BY <2>1, <2>5 DEF Body
  <2>7. ASSUME NEW q \in Procs
        PROVE  /\ pc'[q] \notin {"put_md", "put_parse", "put_open", "put_rcv",
                                 "put_check", "u1_move", "put_trunc", "put_final"}
               /\ pc'[q] = "ack_check" => fs'[q].body.time <= due + ExtendMax * (1 + w)
               /\ pc'[q] \in {"modify", "zip_lock", "zip_unlock"}
                      => InTime(fs'[q].body, due, ExtendMax, w)
    <3>1. CASE q = p  BY <3>1, <2>1, <2>3, <2>5, <2>6
    <3>2. CASE q # p  BY <3>2, <2>1, <2>3, <2>4, <2>5
    <3> QED BY <3>1, <3>2
  <2> QED BY <2>1, <2>2, <2>3, <2>5, <2>7
<1>4. ASSUME NEW p \in Procs, NEW u \in Users, OneStepStart(p, u)
      PROVE  Dates(w)'
  <2>1. ~announced /\ due = 0 /\ transfer = "no" /\ form = "none"
    BY <1>4 DEF OneStepStart
  <2>2. \A q \in Procs : pc[q] \in {"idle"} \cup CronPositions
    BY <2>1
  <2>3. \A q \in Procs : q # p => pc'[q] = pc[q]
    BY <1>4 DEF OneStepStart
  <2>4. due' \in Nat /\ due' = now + Life /\ transfer' = "no" /\ form' # "none"
    BY <1>4, <2>1, TimeAssumption DEF OneStepStart
  <2>5. Base' = 0 /\ Base = 0  BY <2>1, <2>4
  <2>6. /\ fs'[p].body.time = due' /\ fs'[p].body.ext = 0 /\ pc'[p] = "u1_move"
        /\ md' = md
    BY <1>4, <2>4 DEF OneStepStart, Blank
  <2>7. InTime(md.body, 0, 0, w)  BY <2>1, <2>5
  <2>8. InTime(md.body, due', 0, w)
    <3>1. (0 + md.body.ext) * (1 + w) \in Nat  BY <1>0, SMTT(30) DEF Body
    <3> DEFINE x == (0 + md.body.ext) * (1 + w)
    <3> HIDE DEF x
    <3>2. md.body.time <= 0 + x => md.body.time <= due' + x
      BY <2>4, <3>1 DEF x, Body
    <3> QED BY <2>7, <3>2 DEF InTime, x
  <2> QED BY <2>2, <2>3, <2>4, <2>5, <2>6, <2>8
<1>5. ASSUME NEW p \in Procs, NEW u \in Users, NEW o \in Modifies,
             ModifyRead(p, u, o)
      PROVE  Dates(w)'
  BY <1>5 DEF ModifyRead, Permitted
<1>6. ASSUME NEW p \in Procs, NEW u \in Users, NEW o \in {"get", "getdlt"},
             GetRead(p, u, o)
      PROVE  Dates(w)'
  BY <1>6 DEF GetRead, Retrievable
<1>7. ASSUME NEW p \in Procs, NEW u \in Users, DeleteRead(p, u) PROVE Dates(w)'
  BY <1>7 DEF DeleteRead
<1>8. ASSUME NEW p \in Procs, NEW u \in Users, ZipRead(p, u) PROVE Dates(w)'
  BY <1>8 DEF ZipRead, Retrievable
<1>9. ASSUME NEW p \in Procs, CronStart(p) PROVE Dates(w)'
  BY <1>9 DEF CronStart, Blank
<1>10. ASSUME NEW p \in Procs, PutWriteMd(p) PROVE Dates(w)'
  <2>1. Base * (1 + w) \in Nat /\ Base + 0 = Base
    BY <1>0, SMTT(30)
  <2>2. fs[p].body.ext = 0 /\ fs[p].body.time <= due
    BY <1>10 DEF PutWriteMd
  <2>3. fs[p].body.time <= due + Base * (1 + w)
    BY <2>1, <2>2 DEF Body
  <2>4. InTime(fs[p].body, due, Base, w)
    BY <2>1, <2>2, <2>3, TimeAssumption DEF InTime
  <2>5. md'.body \in {md.body, fs[p].body}
    BY <1>10 DEF PutWriteMd, WriteMd
  <2> QED BY <1>10, <2>4, <2>5 DEF PutWriteMd
<1>11. ASSUME NEW p \in Procs, PutParse(p) PROVE Dates(w)'
  <2>1. InTime(Blank, due, Base, w)  BY <1>0, BlankInTime
  <2>2. md'.body \in {md.body, Blank} /\ UNCHANGED <<due, form, transfer>>
    BY <1>11, ParseCourse
  <2>3. /\ pc'[p] = "put_open" /\ fs[p].body.ext = 0 /\ fs[p].body.time <= due
        /\ fs'[p].body.time = fs[p].body.time /\ fs'[p].body.ext = fs[p].body.ext
        /\ \A q \in Procs : q # p => pc'[q] = pc[q] /\ fs'[q] = fs[q]
    BY <1>11, ParseCourse
  <2> QED BY <2>1, <2>2, <2>3
<1>12. ASSUME NEW p \in Procs, PutOpenSerial(p) PROVE Dates(w)'
  BY <1>12 DEF PutOpenSerial
<1>13. ASSUME NEW p \in Procs, PutOpenParallel(p) PROVE Dates(w)'
  BY <1>13 DEF PutOpenParallel, Blank
<1>14. ASSUME NEW p \in Procs, PutReceive(p) PROVE Dates(w)'
  BY <1>14 DEF PutReceive
<1>15. ASSUME NEW p \in Procs, PutCheckPass(p) PROVE Dates(w)'
  <2>1. Base * (1 + w) \in Nat
    BY <1>0, SMTT(30)
  <2>2. fs[p].body.time <= due => fs[p].body.time <= due + Base * (1 + w)
    BY <2>1 DEF Body
  <2> QED BY <1>15, <2>2 DEF PutCheckPass
<1>16. ASSUME NEW p \in Procs, PutCheckFail(p) PROVE Dates(w)'
  BY <1>16 DEF PutCheckFail
<1>17. ASSUME NEW p \in Procs, PutDrop(p) PROVE Dates(w)'
  <2>1. InTime(Blank, due, Base, w)
    BY <1>0, BlankInTime
  <2> QED BY <1>17, <2>1 DEF PutDrop
<1>18. ASSUME NEW p \in Procs, PutTruncate(p) PROVE Dates(w)'
  <2>1. fs[p].body \in Body /\ due \in Nat  OBVIOUS
  <2>2. md'.body = Blank /\ UNCHANGED <<due, form, transfer>>
    BY <1>18 DEF PutTruncate, TruncateMd
  <2>3. /\ fs'[p].body = [fs[p].body EXCEPT !.own = user[p], !.ext = 0]
        /\ pc'[p] = "put_final"
        /\ \A q \in Procs : q # p => pc'[q] = pc[q] /\ fs'[q] = fs[q]
    BY <1>18 DEF PutTruncate, TruncateMd
  <2>4. fs'[p].body.time = fs[p].body.time /\ fs'[p].body.ext = 0
    BY <2>1, <2>3 DEF Body
  <2>5. fs[p].body.time <= due + Base * (1 + w)
    BY <1>18 DEF PutTruncate
  <2>6. InTime(fs'[p].body, due, Base, w)
    <3>1. Base + 0 = Base  BY <1>0
    <3> QED BY <2>4, <2>5, <3>1, TimeAssumption DEF InTime
  <2>7. InTime(Blank, due, Base, w)  BY <1>0, <2>1, BlankInTime
  <2> QED BY <2>2, <2>3, <2>6, <2>7
<1>19. ASSUME NEW p \in Procs, PutFinal(p) PROVE Dates(w)'
  BY <1>19 DEF PutFinal, WriteMd, InTime, Body
<1>20. ASSUME NEW p \in Procs, PutHistory(p) PROVE Dates(w)'
  BY <1>20 DEF PutHistory
<1>21. ASSUME NEW p \in Procs, PutMsg(p) PROVE Dates(w)'
  BY <1>21 DEF PutMsg, Blank
<1>22. ASSUME NEW p \in Procs, BlockOpen(p) PROVE Dates(w)'
  BY <1>22 DEF BlockOpen
<1>23. ASSUME NEW p \in Procs, BlockWrite(p) PROVE Dates(w)'
  BY <1>23 DEF BlockWrite, Blank
<1>24. ASSUME NEW p \in Procs, AckPass(p) PROVE Dates(w)'
  <2>1. UNCHANGED <<md, due, form, transfer>> /\ pc' = [pc EXCEPT ![p] = "put_trunc"]
        /\ fs[p].body.time <= due + Base * (1 + w)
    BY <1>24 DEF AckPass
  <2>2. /\ \A q \in Procs \ {p} : fs'[q] = fs[q]
        /\ fs'[p].body.time = fs[p].body.time
    BY <1>24, PassEffect
  <2> QED BY <2>1, <2>2
<1>25. ASSUME NEW p \in Procs, AckFail(p) PROVE Dates(w)'
  BY <1>25 DEF AckFail
<1>26. ASSUME NEW p \in Procs, OneStepMove(p) PROVE Dates(w)'
  <2>1. Base * (1 + w) \in Nat
    BY <1>0, SMTT(30)
  <2>2. fs[p].body.time <= due => fs[p].body.time <= due + Base * (1 + w)
    BY <2>1 DEF Body
  <2> QED BY <1>26, <2>2 DEF OneStepMove
<1>27. ASSUME NEW p \in Procs, ModifyWrite(p) PROVE Dates(w)'
  <2>1. PICK b \in Body :
           /\ Changes(op[p], fs[p].body, b)
           /\ fs[p].body \in Body /\ op[p] \in Modifies
           /\ md'.ino = md.ino
           /\ md'.body = IF MdPresent /\ md.ino = fs[p].ino THEN b ELSE md.body
    BY <1>27, ModifyWrites
  <2>2. InTime(b, due, Base, w)
    BY <1>27, <1>0, <2>1, ChangesInTime DEF ModifyWrite
  <2> QED BY <1>27, <2>1, <2>2 DEF ModifyWrite
<1>28. ASSUME NEW p \in Procs, GetOpen(p) PROVE Dates(w)'
  BY <1>28 DEF GetOpen
<1>29. ASSUME NEW p \in Procs, GetDone(p) PROVE Dates(w)'
  BY <1>29 DEF GetDone, Blank
<1>30. ASSUME NEW p \in Procs, UnlinkMd(p) PROVE Dates(w)'
  <2>1. InTime(Blank, due, Base, w)
    BY <1>0, BlankInTime
  <2> QED BY <1>30, <2>1 DEF UnlinkMd
<1>31. ASSUME NEW p \in Procs, UnlinkData(p) PROVE Dates(w)'
  BY <1>31 DEF UnlinkData, Blank
<1>32. ASSUME NEW p \in Procs, ZipLock(p) PROVE Dates(w)'
  BY <1>32 DEF ZipLock, WriteMd, InTime, Body
<1>33. ASSUME NEW p \in Procs, ZipMove(p) PROVE Dates(w)'
  BY <1>33 DEF ZipMove
<1>34. ASSUME NEW p \in Procs, ZipCompress(p) PROVE Dates(w)'
  BY <1>34 DEF ZipCompress
<1>35. ASSUME NEW p \in Procs, ZipFinish(p) PROVE Dates(w)'
  BY <1>35 DEF ZipFinish
<1>36. ASSUME NEW p \in Procs, ZipReread(p) PROVE Dates(w)'
  BY <1>36 DEF ZipReread
<1>37. ASSUME NEW p \in Procs, ZipUnlock(p) PROVE Dates(w)'
  BY <1>37 DEF ZipUnlock, WriteMd, Blank, InTime, Body
<1>38. ASSUME NEW p \in Procs, CronData(p) PROVE Dates(w)'
  BY <1>38 DEF CronData, CronSeesExpired, Blank, Expired
<1>39. ASSUME NEW p \in Procs, CronUnlinkExpired(p) PROVE Dates(w)'
  <2>1. InTime(Blank, due, Base, w)
    BY <1>0, BlankInTime
  <2> QED BY <1>39, <2>1 DEF CronUnlinkExpired
<1>40. ASSUME NEW p \in Procs, CronUnlinkData(p) PROVE Dates(w)'
  BY <1>40 DEF CronUnlinkData
<1>41. ASSUME NEW p \in Procs, CronEmpty(p) PROVE Dates(w)'
  BY <1>41 DEF CronEmpty, Blank
<1>42. ASSUME NEW p \in Procs, CronUnlinkMd(p) PROVE Dates(w)'
  <2>1. InTime(Blank, due, Base, w)
    BY <1>0, BlankInTime
  <2> QED BY <1>42, <2>1 DEF CronUnlinkMd
<1>43. ASSUME NEW p \in Procs, CronHistory(p) PROVE Dates(w)'
  BY <1>43 DEF CronHistory, Blank
<1>44. ASSUME NEW p \in Procs, Die(p) PROVE Dates(w)'
  BY <1>44 DEF Die, Blank
<1>45. ASSUME Tick PROVE Dates(w)'
  BY <1>45 DEF Tick, procvars
<1>46. ASSUME UNCHANGED vars PROVE Dates(w)'
  BY <1>46 DEF vars, procvars
<1> HIDE DEF MdPresent, Dates, Base, UploadInv, PositionKnows, Uploading,
             Checking, Acking, ZipPositions, LockInv, Quiet, OneUpload,
             OpenedLocked, NoEarlyRelease, Opening, CopiesKnow, Released,
             OtherDisk, CronPositions, TypeInv, TypeOK, Contents, MdFile
<1> QED BY [Next]_vars, <1>1, <1>2, <1>3, <1>4, <1>5, <1>6, <1>7, <1>8, <1>9,
       <1>10, <1>11, <1>12, <1>13, <1>14, <1>15, <1>16, <1>17, <1>18, <1>19,
       <1>20, <1>21, <1>22, <1>23, <1>24, <1>25, <1>26, <1>27, <1>28, <1>29,
       <1>30, <1>31, <1>32, <1>33, <1>34, <1>35, <1>36, <1>37, <1>38, <1>39,
       <1>40, <1>41, <1>42, <1>43, <1>44, <1>45, <1>46
    DEF Next, Arrive, UploadStep, RequestStep, CronStep

-----------------------------------------------------------------------------
(***************************************************************************)
(* Acknowledged uploads.                                                   *)
(***************************************************************************)

(* The fclose of put_trans_file_ack writes the file that it opened, and    *)
(* from then on no metadata are without content.                           *)
KeptInv ==
    /\ acked => \A p \in Procs : pc[p] \notin Uploading
    /\ \A p \in Procs : pc[p] = "put_final" /\ MdPresent => md.ino = fs[p].ino
    /\ (acked \/ \E p \in Procs : pc[p] \in {"put_hist", "put_msg"})
           /\ MdPresent /\ ~zipped => md.body.lock # "0"

(* No step empties the metadata of an acknowledged upload.                 *)
LEMMA KeptStep ==
    ASSUME TypeInv, LockInv, UploadInv, CopyInv, KeptInv, [Next]_vars
    PROVE  KeptInv'
<1> USE TypeInv, LockInv, UploadInv, CopyInv, KeptInv
        DEF Serve, Exit, Goto, Idle, MdPresent, NoMd, filevars, ghosts,
            KeptInv, CopyInv, BeforeAck, UploadInv, PositionKnows, Uploading,
            Checking, Acking, ZipPositions, LockInv, Quiet, OneUpload,
            OpenedLocked, NoEarlyRelease, Opening, CopiesKnow, Released,
            OtherDisk, CronPositions, TypeInv, TypeOK, Contents, MdFile
<1>1. ASSUME NEW p \in Procs, NEW u \in Users, PutStart(p, u) PROVE KeptInv'
  BY <1>1 DEF PutStart, TruncateMd, Blank
<1>2. ASSUME NEW p \in Procs, NEW u \in Users, BlockStart(p, u) PROVE KeptInv'
  BY <1>2 DEF BlockStart
<1>3. ASSUME NEW p \in Procs, NEW u \in Users, AckStart(p, u) PROVE KeptInv'
  BY <1>3 DEF AckStart
<1>4. ASSUME NEW p \in Procs, NEW u \in Users, OneStepStart(p, u) PROVE KeptInv'
  BY <1>4 DEF OneStepStart, Blank
<1>5. ASSUME NEW p \in Procs, NEW u \in Users, NEW o \in Modifies,
             ModifyRead(p, u, o)
      PROVE  KeptInv'
  BY <1>5 DEF ModifyRead
<1>6. ASSUME NEW p \in Procs, NEW u \in Users, NEW o \in {"get", "getdlt"},
             GetRead(p, u, o)
      PROVE  KeptInv'
  BY <1>6 DEF GetRead, Retrievable
<1>7. ASSUME NEW p \in Procs, NEW u \in Users, DeleteRead(p, u) PROVE KeptInv'
  BY <1>7 DEF DeleteRead
<1>8. ASSUME NEW p \in Procs, NEW u \in Users, ZipRead(p, u) PROVE KeptInv'
  BY <1>8 DEF ZipRead, Retrievable
<1>9. ASSUME NEW p \in Procs, CronStart(p) PROVE KeptInv'
  BY <1>9 DEF CronStart, Blank
<1>10. ASSUME NEW p \in Procs, PutWriteMd(p) PROVE KeptInv'
  BY <1>10 DEF PutWriteMd, WriteMd
<1>11. ASSUME NEW p \in Procs, PutParse(p) PROVE KeptInv'
  BY <1>11, ParseCourse DEF Blank
<1>12. ASSUME NEW p \in Procs, PutOpenSerial(p) PROVE KeptInv'
  BY <1>12 DEF PutOpenSerial
<1>13. ASSUME NEW p \in Procs, PutOpenParallel(p) PROVE KeptInv'
  BY <1>13 DEF PutOpenParallel, Blank
<1>14. ASSUME NEW p \in Procs, PutReceive(p) PROVE KeptInv'
  BY <1>14 DEF PutReceive
<1>15. ASSUME NEW p \in Procs, PutCheckPass(p) PROVE KeptInv'
  BY <1>15 DEF PutCheckPass
<1>16. ASSUME NEW p \in Procs, PutCheckFail(p) PROVE KeptInv'
  BY <1>16 DEF PutCheckFail
<1>17. ASSUME NEW p \in Procs, PutDrop(p) PROVE KeptInv'
  BY <1>17 DEF PutDrop, Blank
<1>18. ASSUME NEW p \in Procs, PutTruncate(p) PROVE KeptInv'
  BY <1>18 DEF PutTruncate, TruncateMd, Blank
<1>19. ASSUME NEW p \in Procs, PutFinal(p) PROVE KeptInv'
  BY <1>19 DEF PutFinal, WriteMd
<1>20. ASSUME NEW p \in Procs, PutHistory(p) PROVE KeptInv'
  BY <1>20 DEF PutHistory
<1>21. ASSUME NEW p \in Procs, PutMsg(p) PROVE KeptInv'
  BY <1>21 DEF PutMsg, Blank
<1>22. ASSUME NEW p \in Procs, BlockOpen(p) PROVE KeptInv'
  BY <1>22 DEF BlockOpen
<1>23. ASSUME NEW p \in Procs, BlockWrite(p) PROVE KeptInv'
  BY <1>23 DEF BlockWrite, Blank
<1>24. ASSUME NEW p \in Procs, AckPass(p) PROVE KeptInv'
  BY <1>24, PassEffect DEF AckPass
<1>25. ASSUME NEW p \in Procs, AckFail(p) PROVE KeptInv'
  BY <1>25 DEF AckFail
<1>26. ASSUME NEW p \in Procs, OneStepMove(p) PROVE KeptInv'
  BY <1>26 DEF OneStepMove
<1>27. ASSUME NEW p \in Procs, ModifyWrite(p) PROVE KeptInv'
  <2>1. PICK b \in Body :
           /\ Changes(op[p], fs[p].body, b)
           /\ fs[p].body \in Body /\ op[p] \in Modifies
           /\ md'.ino = md.ino
           /\ md'.body = IF MdPresent /\ md.ino = fs[p].ino THEN b ELSE md.body
    BY <1>27, ModifyWrites
  <2>2. fs[p].body.lock # "0"  BY <1>27 DEF ModifyWrite
  <2>3. md'.body = md.body \/ md'.body.lock # "0"
    BY <2>1, <2>2 DEF Changes
  <2>4. /\ \A q \in Procs : pc'[q] \in {pc[q], "idle"}
                            /\ (pc'[q] # "idle" => fs'[q] = fs[q])
        /\ UNCHANGED <<zipped, acked, received>>
        /\ MdPresent' = MdPresent /\ md'.ino = md.ino
    BY <1>27, <2>1 DEF ModifyWrite
  <2> QED BY <2>3, <2>4
<1>28. ASSUME NEW p \in Procs, GetOpen(p) PROVE KeptInv'
  BY <1>28 DEF GetOpen
<1>29. ASSUME NEW p \in Procs, GetDone(p) PROVE KeptInv'
  BY <1>29 DEF GetDone, Blank
<1>30. ASSUME NEW p \in Procs, UnlinkMd(p) PROVE KeptInv'
  BY <1>30 DEF UnlinkMd, Blank
<1>31. ASSUME NEW p \in Procs, UnlinkData(p) PROVE KeptInv'
  BY <1>31 DEF UnlinkData, Blank
<1>32. ASSUME NEW p \in Procs, ZipLock(p) PROVE KeptInv'
  BY <1>32 DEF ZipLock, WriteMd
<1>33. ASSUME NEW p \in Procs, ZipMove(p) PROVE KeptInv'
  BY <1>33 DEF ZipMove
<1>34. ASSUME NEW p \in Procs, ZipCompress(p) PROVE KeptInv'
  BY <1>34 DEF ZipCompress
<1>35. ASSUME NEW p \in Procs, ZipFinish(p) PROVE KeptInv'
  BY <1>35 DEF ZipFinish
<1>36. ASSUME NEW p \in Procs, ZipReread(p) PROVE KeptInv'
  BY <1>36 DEF ZipReread
<1>37. ASSUME NEW p \in Procs, ZipUnlock(p) PROVE KeptInv'
  BY <1>37 DEF ZipUnlock, WriteMd, Blank
<1>38. ASSUME NEW p \in Procs, CronData(p) PROVE KeptInv'
  BY <1>38 DEF CronData, CronSeesExpired, Blank, Expired
<1>39. ASSUME NEW p \in Procs, CronUnlinkExpired(p) PROVE KeptInv'
  BY <1>39 DEF CronUnlinkExpired, Blank
<1>40. ASSUME NEW p \in Procs, CronUnlinkData(p) PROVE KeptInv'
  BY <1>40 DEF CronUnlinkData
<1>41. ASSUME NEW p \in Procs, CronEmpty(p) PROVE KeptInv'
  BY <1>41 DEF CronEmpty, Blank
<1>42. ASSUME NEW p \in Procs, CronUnlinkMd(p) PROVE KeptInv'
  BY <1>42 DEF CronUnlinkMd, Blank
<1>43. ASSUME NEW p \in Procs, CronHistory(p) PROVE KeptInv'
  BY <1>43 DEF CronHistory, Blank
<1>44. ASSUME NEW p \in Procs, Die(p) PROVE KeptInv'
  BY <1>44 DEF Die, Blank
<1>45. ASSUME Tick PROVE KeptInv'
  BY <1>45 DEF Tick, procvars
<1>46. ASSUME UNCHANGED vars PROVE KeptInv'
  BY <1>46 DEF vars, procvars
<1> HIDE DEF MdPresent, KeptInv, CopyInv, BeforeAck, UploadInv, PositionKnows,
             Uploading, Checking, Acking, ZipPositions, LockInv, Quiet,
             OneUpload, OpenedLocked, NoEarlyRelease, Opening, CopiesKnow,
             Released, OtherDisk, CronPositions, TypeInv, TypeOK, Contents,
             MdFile
<1> QED BY [Next]_vars, <1>1, <1>2, <1>3, <1>4, <1>5, <1>6, <1>7, <1>8, <1>9,
       <1>10, <1>11, <1>12, <1>13, <1>14, <1>15, <1>16, <1>17, <1>18, <1>19,
       <1>20, <1>21, <1>22, <1>23, <1>24, <1>25, <1>26, <1>27, <1>28, <1>29,
       <1>30, <1>31, <1>32, <1>33, <1>34, <1>35, <1>36, <1>37, <1>38, <1>39,
       <1>40, <1>41, <1>42, <1>43, <1>44, <1>45, <1>46
    DEF Next, Arrive, UploadStep, RequestStep, CronStep

-----------------------------------------------------------------------------
(***************************************************************************)
(* What a step may never do.                                               *)
(***************************************************************************)

(* The metadata or the data of a deleted item are gone, and nobody is      *)
(* about to make them again.                                               *)
Gone == /\ received /\ transfer = "no" /\ aside = "absent"
        /\ (~MdPresent /\ ~Pending) \/ data = "absent"

(* A step that lifts the lock 'L'.                                         *)
Lifted == MdPresent /\ md.body.lock = "L" /\ ~zipped
          /\ md'.ino = md.ino /\ md'.body.lock # "L"

Knowingly == \E p \in Procs : /\ pc[p] = "modify" /\ pc'[p] = "idle"
                              /\ op[p] = "unlock" \/ fs[p].body.lock # "L"

LiftedKnowingly == Lifted => Knowingly

(* A get that goes on to unlink.                                           *)
FlaggedGoOn ==
    \A q \in Procs : pc[q] = "get_send" /\ pc'[q] = "unlink_md"
        => fs[q].body.dlt = "yes"

(* A decision of an audit.                                                 *)
OnlyAuditsCondemn ==
    \A q \in Procs : Condemned(q) => CronData(q) \/ CronEmpty(q)

(* A deletion is not undone.                                               *)
LEMMA GoneStays ==
    ASSUME TypeInv, LockInv, UploadInv, Gone, ~zipped, ~remade, [Next]_vars
    PROVE  Gone'
<1> USE TypeInv, LockInv, UploadInv, Gone, ~zipped, ~remade
        DEF Serve, Exit, Goto, Idle, MdPresent, NoMd, filevars, ghosts, Gone,
            Pending, BeforeAck, UploadInv, PositionKnows, Uploading, Checking,
            Acking, ZipPositions, LockInv, Quiet, OneUpload, OpenedLocked,
            NoEarlyRelease, Opening, CopiesKnow, Released, OtherDisk,
            CronPositions, TypeInv, TypeOK, Contents, MdFile
<1>1. ASSUME NEW p \in Procs, NEW u \in Users, PutStart(p, u) PROVE Gone'
  BY <1>1 DEF PutStart, TruncateMd, Blank
<1>2. ASSUME NEW p \in Procs, NEW u \in Users, BlockStart(p, u) PROVE Gone'
  BY <1>2 DEF BlockStart
<1>3. ASSUME NEW p \in Procs, NEW u \in Users, AckStart(p, u) PROVE Gone'
  BY <1>3 DEF AckStart
<1>4. ASSUME NEW p \in Procs, NEW u \in Users, OneStepStart(p, u) PROVE Gone'
  BY <1>4 DEF OneStepStart, Blank
<1>5. ASSUME NEW p \in Procs, NEW u \in Users, NEW o \in Modifies,
             ModifyRead(p, u, o)
      PROVE  Gone'
  BY <1>5 DEF ModifyRead, Permitted
<1>6. ASSUME NEW p \in Procs, NEW u \in Users, NEW o \in {"get", "getdlt"},
             GetRead(p, u, o)
      PROVE  Gone'
  BY <1>6 DEF GetRead, Retrievable
<1>7. ASSUME NEW p \in Procs, NEW u \in Users, DeleteRead(p, u) PROVE Gone'
  BY <1>7 DEF DeleteRead
<1>8. ASSUME NEW p \in Procs, NEW u \in Users, ZipRead(p, u) PROVE Gone'
  BY <1>8 DEF ZipRead, Retrievable
<1>9. ASSUME NEW p \in Procs, CronStart(p) PROVE Gone'
  BY <1>9 DEF CronStart, Blank
<1>10. ASSUME NEW p \in Procs, PutWriteMd(p) PROVE Gone'
  BY <1>10 DEF PutWriteMd, WriteMd
<1>11. ASSUME NEW p \in Procs, PutParse(p) PROVE Gone'
  BY <1>11, ParseEffect DEF Blank
<1>12. ASSUME NEW p \in Procs, PutOpenSerial(p) PROVE Gone'
  BY <1>12 DEF PutOpenSerial
<1>13. ASSUME NEW p \in Procs, PutOpenParallel(p) PROVE Gone'
  BY <1>13 DEF PutOpenParallel, Blank
<1>14. ASSUME NEW p \in Procs, PutReceive(p) PROVE Gone'
  BY <1>14 DEF PutReceive
<1>15. ASSUME NEW p \in Procs, PutCheckPass(p) PROVE Gone'
  BY <1>15 DEF PutCheckPass
<1>16. ASSUME NEW p \in Procs, PutCheckFail(p) PROVE Gone'
  BY <1>16 DEF PutCheckFail
<1>17. ASSUME NEW p \in Procs, PutDrop(p) PROVE Gone'
  BY <1>17 DEF PutDrop, Blank
<1>18. ASSUME NEW p \in Procs, PutTruncate(p) PROVE Gone'
  BY <1>18 DEF PutTruncate, TruncateMd, Blank
<1>19. ASSUME NEW p \in Procs, PutFinal(p) PROVE Gone'
  BY <1>19 DEF PutFinal, WriteMd
<1>20. ASSUME NEW p \in Procs, PutHistory(p) PROVE Gone'
  BY <1>20 DEF PutHistory
<1>21. ASSUME NEW p \in Procs, PutMsg(p) PROVE Gone'
  BY <1>21 DEF PutMsg, Blank
<1>22. ASSUME NEW p \in Procs, BlockOpen(p) PROVE Gone'
  BY <1>22 DEF BlockOpen
<1>23. ASSUME NEW p \in Procs, BlockWrite(p) PROVE Gone'
  BY <1>23 DEF BlockWrite, Blank
<1>24. ASSUME NEW p \in Procs, AckPass(p) PROVE Gone'
  BY <1>24, PassEffect DEF AckPass
<1>25. ASSUME NEW p \in Procs, AckFail(p) PROVE Gone'
  BY <1>25 DEF AckFail
<1>26. ASSUME NEW p \in Procs, OneStepMove(p) PROVE Gone'
  BY <1>26 DEF OneStepMove
<1>27. ASSUME NEW p \in Procs, ModifyWrite(p) PROVE Gone'
  BY <1>27 DEF ModifyWrite, WriteMd, Modified, Blank
<1>28. ASSUME NEW p \in Procs, GetOpen(p) PROVE Gone'
  BY <1>28 DEF GetOpen
<1>29. ASSUME NEW p \in Procs, GetDone(p) PROVE Gone'
  BY <1>29 DEF GetDone, Blank
<1>30. ASSUME NEW p \in Procs, UnlinkMd(p) PROVE Gone'
  BY <1>30 DEF UnlinkMd, Blank
<1>31. ASSUME NEW p \in Procs, UnlinkData(p) PROVE Gone'
  BY <1>31 DEF UnlinkData, Blank
<1>32. ASSUME NEW p \in Procs, ZipLock(p) PROVE Gone'
  BY <1>32 DEF ZipLock, WriteMd
<1>33. ASSUME NEW p \in Procs, ZipMove(p) PROVE Gone'
  BY <1>33 DEF ZipMove
<1>34. ASSUME NEW p \in Procs, ZipCompress(p) PROVE Gone'
  BY <1>34 DEF ZipCompress
<1>35. ASSUME NEW p \in Procs, ZipFinish(p) PROVE Gone'
  BY <1>35 DEF ZipFinish
<1>36. ASSUME NEW p \in Procs, ZipReread(p) PROVE Gone'
  BY <1>36 DEF ZipReread
<1>37. ASSUME NEW p \in Procs, ZipUnlock(p) PROVE Gone'
  BY <1>37 DEF ZipUnlock, WriteMd, Blank
<1>38. ASSUME NEW p \in Procs, CronData(p) PROVE Gone'
  BY <1>38 DEF CronData, CronSeesExpired, Blank, Expired
<1>39. ASSUME NEW p \in Procs, CronUnlinkExpired(p) PROVE Gone'
  BY <1>39 DEF CronUnlinkExpired, Blank
<1>40. ASSUME NEW p \in Procs, CronUnlinkData(p) PROVE Gone'
  BY <1>40 DEF CronUnlinkData
<1>41. ASSUME NEW p \in Procs, CronEmpty(p) PROVE Gone'
  BY <1>41 DEF CronEmpty, Blank
<1>42. ASSUME NEW p \in Procs, CronUnlinkMd(p) PROVE Gone'
  BY <1>42 DEF CronUnlinkMd, Blank
<1>43. ASSUME NEW p \in Procs, CronHistory(p) PROVE Gone'
  BY <1>43 DEF CronHistory, Blank
<1>44. ASSUME NEW p \in Procs, Die(p) PROVE Gone'
  BY <1>44 DEF Die, Blank
<1>45. ASSUME Tick PROVE Gone'
  BY <1>45 DEF Tick, procvars
<1>46. ASSUME UNCHANGED vars PROVE Gone'
  BY <1>46 DEF vars, procvars
<1> HIDE DEF MdPresent, Gone, Pending, BeforeAck, UploadInv, PositionKnows,
             Uploading, Checking, Acking, ZipPositions, LockInv, Quiet,
             OneUpload, OpenedLocked, NoEarlyRelease, Opening, CopiesKnow,
             Released, OtherDisk, CronPositions, TypeInv, TypeOK, Contents,
             MdFile
<1> QED BY [Next]_vars, <1>1, <1>2, <1>3, <1>4, <1>5, <1>6, <1>7, <1>8, <1>9,
       <1>10, <1>11, <1>12, <1>13, <1>14, <1>15, <1>16, <1>17, <1>18, <1>19,
       <1>20, <1>21, <1>22, <1>23, <1>24, <1>25, <1>26, <1>27, <1>28, <1>29,
       <1>30, <1>31, <1>32, <1>33, <1>34, <1>35, <1>36, <1>37, <1>38, <1>39,
       <1>40, <1>41, <1>42, <1>43, <1>44, <1>45, <1>46
    DEF Next, Arrive, UploadStep, RequestStep, CronStep

(* No other step lifts the lock.                                           *)
LEMMA LiftStep ==
    ASSUME TypeInv, LockInv, UploadInv, UnreleasedInv, [Next]_vars
    PROVE  LiftedKnowingly
<1> USE TypeInv, LockInv, UploadInv, UnreleasedInv
        DEF Serve, Exit, Goto, Idle, MdPresent, NoMd, filevars, ghosts,
            LiftedKnowingly, Lifted, Knowingly, UnreleasedInv, Pending,
            BeforeAck, UploadInv, PositionKnows, Uploading, Checking, Acking,
            ZipPositions, LockInv, Quiet, OneUpload, OpenedLocked,
            NoEarlyRelease, Opening, CopiesKnow, Released, OtherDisk,
            CronPositions, TypeInv, TypeOK, Contents, MdFile
<1>1. ASSUME NEW p \in Procs, NEW u \in Users, PutStart(p, u)
      PROVE  LiftedKnowingly
  BY <1>1 DEF PutStart, TruncateMd, Blank
<1>2. ASSUME NEW p \in Procs, NEW u \in Users, BlockStart(p, u)
      PROVE  LiftedKnowingly
  BY <1>2 DEF BlockStart
<1>3. ASSUME NEW p \in Procs, NEW u \in Users, AckStart(p, u)
      PROVE  LiftedKnowingly
  BY <1>3 DEF AckStart
<1>4. ASSUME NEW p \in Procs, NEW u \in Users, OneStepStart(p, u)
      PROVE  LiftedKnowingly
  BY <1>4 DEF OneStepStart, Blank
<1>5. ASSUME NEW p \in Procs, NEW u \in Users, NEW o \in Modifies,
             ModifyRead(p, u, o)
      PROVE  LiftedKnowingly
  BY <1>5 DEF ModifyRead, Permitted
<1>6. ASSUME NEW p \in Procs, NEW u \in Users, NEW o \in {"get", "getdlt"},
             GetRead(p, u, o)
      PROVE  LiftedKnowingly
  BY <1>6 DEF GetRead, Retrievable
<1>7. ASSUME NEW p \in Procs, NEW u \in Users, DeleteRead(p, u)
      PROVE  LiftedKnowingly
  BY <1>7 DEF DeleteRead
<1>8. ASSUME NEW p \in Procs, NEW u \in Users, ZipRead(p, u)
      PROVE  LiftedKnowingly
  BY <1>8 DEF ZipRead, Retrievable
<1>9. ASSUME NEW p \in Procs, CronStart(p) PROVE LiftedKnowingly
  BY <1>9 DEF CronStart, Blank
<1>10. ASSUME NEW p \in Procs, PutWriteMd(p) PROVE LiftedKnowingly
  BY <1>10 DEF PutWriteMd, WriteMd
<1>11. ASSUME NEW p \in Procs, PutParse(p) PROVE LiftedKnowingly
  BY <1>11, ParseEffect DEF Blank
<1>12. ASSUME NEW p \in Procs, PutOpenSerial(p) PROVE LiftedKnowingly
  BY <1>12 DEF PutOpenSerial
<1>13. ASSUME NEW p \in Procs, PutOpenParallel(p) PROVE LiftedKnowingly
  BY <1>13 DEF PutOpenParallel, Blank
<1>14. ASSUME NEW p \in Procs, PutReceive(p) PROVE LiftedKnowingly
  BY <1>14 DEF PutReceive
<1>15. ASSUME NEW p \in Procs, PutCheckPass(p) PROVE LiftedKnowingly
  BY <1>15 DEF PutCheckPass
<1>16. ASSUME NEW p \in Procs, PutCheckFail(p) PROVE LiftedKnowingly
  BY <1>16 DEF PutCheckFail
<1>17. ASSUME NEW p \in Procs, PutDrop(p) PROVE LiftedKnowingly
  BY <1>17 DEF PutDrop, Blank
<1>18. ASSUME NEW p \in Procs, PutTruncate(p) PROVE LiftedKnowingly
  BY <1>18 DEF PutTruncate, TruncateMd, Blank
<1>19. ASSUME NEW p \in Procs, PutFinal(p) PROVE LiftedKnowingly
  BY <1>19 DEF PutFinal, WriteMd
<1>20. ASSUME NEW p \in Procs, PutHistory(p) PROVE LiftedKnowingly
  BY <1>20 DEF PutHistory
<1>21. ASSUME NEW p \in Procs, PutMsg(p) PROVE LiftedKnowingly
  BY <1>21 DEF PutMsg, Blank
<1>22. ASSUME NEW p \in Procs, BlockOpen(p) PROVE LiftedKnowingly
  BY <1>22 DEF BlockOpen
<1>23. ASSUME NEW p \in Procs, BlockWrite(p) PROVE LiftedKnowingly
  BY <1>23 DEF BlockWrite, Blank
<1>24. ASSUME NEW p \in Procs, AckPass(p) PROVE LiftedKnowingly
  BY <1>24, PassEffect DEF AckPass
<1>25. ASSUME NEW p \in Procs, AckFail(p) PROVE LiftedKnowingly
  BY <1>25 DEF AckFail
<1>26. ASSUME NEW p \in Procs, OneStepMove(p) PROVE LiftedKnowingly
  BY <1>26 DEF OneStepMove
<1>27. ASSUME NEW p \in Procs, ModifyWrite(p) PROVE LiftedKnowingly
  <2>1. PICK b \in Body :
           /\ Changes(op[p], fs[p].body, b)
           /\ fs[p].body \in Body /\ op[p] \in Modifies
           /\ md'.ino = md.ino
           /\ md'.body = IF MdPresent /\ md.ino = fs[p].ino THEN b ELSE md.body
    BY <1>27, ModifyWrites
  <2>2. pc[p] = "modify" /\ pc'[p] = "idle"
    BY <1>27 DEF ModifyWrite
  <2>3. ASSUME Lifted, fs[p].body.lock = "L" PROVE op[p] = "unlock"
    BY <2>1, <2>3 DEF Changes
  <2> QED BY <2>2, <2>3
<1>28. ASSUME NEW p \in Procs, GetOpen(p) PROVE LiftedKnowingly
  BY <1>28 DEF GetOpen
<1>29. ASSUME NEW p \in Procs, GetDone(p) PROVE LiftedKnowingly
  BY <1>29 DEF GetDone, Blank
<1>30. ASSUME NEW p \in Procs, UnlinkMd(p) PROVE LiftedKnowingly
  BY <1>30 DEF UnlinkMd, Blank
<1>31. ASSUME NEW p \in Procs, UnlinkData(p) PROVE LiftedKnowingly
  BY <1>31 DEF UnlinkData, Blank
<1>32. ASSUME NEW p \in Procs, ZipLock(p) PROVE LiftedKnowingly
  BY <1>32 DEF ZipLock, WriteMd
<1>33. ASSUME NEW p \in Procs, ZipMove(p) PROVE LiftedKnowingly
  BY <1>33 DEF ZipMove
<1>34. ASSUME NEW p \in Procs, ZipCompress(p) PROVE LiftedKnowingly
  BY <1>34 DEF ZipCompress
<1>35. ASSUME NEW p \in Procs, ZipFinish(p) PROVE LiftedKnowingly
  BY <1>35 DEF ZipFinish
<1>36. ASSUME NEW p \in Procs, ZipReread(p) PROVE LiftedKnowingly
  BY <1>36 DEF ZipReread
<1>37. ASSUME NEW p \in Procs, ZipUnlock(p) PROVE LiftedKnowingly
  BY <1>37 DEF ZipUnlock, WriteMd, Blank
<1>38. ASSUME NEW p \in Procs, CronData(p) PROVE LiftedKnowingly
  BY <1>38 DEF CronData, CronSeesExpired, Blank, Expired
<1>39. ASSUME NEW p \in Procs, CronUnlinkExpired(p) PROVE LiftedKnowingly
  BY <1>39 DEF CronUnlinkExpired, Blank
<1>40. ASSUME NEW p \in Procs, CronUnlinkData(p) PROVE LiftedKnowingly
  BY <1>40 DEF CronUnlinkData
<1>41. ASSUME NEW p \in Procs, CronEmpty(p) PROVE LiftedKnowingly
  BY <1>41 DEF CronEmpty, Blank
<1>42. ASSUME NEW p \in Procs, CronUnlinkMd(p) PROVE LiftedKnowingly
  BY <1>42 DEF CronUnlinkMd, Blank
<1>43. ASSUME NEW p \in Procs, CronHistory(p) PROVE LiftedKnowingly
  BY <1>43 DEF CronHistory, Blank
<1>44. ASSUME NEW p \in Procs, Die(p) PROVE LiftedKnowingly
  BY <1>44 DEF Die, Blank
<1>45. ASSUME Tick PROVE LiftedKnowingly
  BY <1>45 DEF Tick, procvars
<1>46. ASSUME UNCHANGED vars PROVE LiftedKnowingly
  BY <1>46 DEF vars, procvars
<1> HIDE DEF MdPresent, LiftedKnowingly, Lifted, Knowingly, UnreleasedInv,
             Pending, BeforeAck, UploadInv, PositionKnows, Uploading, Checking,
             Acking, ZipPositions, LockInv, Quiet, OneUpload, OpenedLocked,
             NoEarlyRelease, Opening, CopiesKnow, Released, OtherDisk,
             CronPositions, TypeInv, TypeOK, Contents, MdFile
<1> QED BY [Next]_vars, <1>1, <1>2, <1>3, <1>4, <1>5, <1>6, <1>7, <1>8, <1>9,
       <1>10, <1>11, <1>12, <1>13, <1>14, <1>15, <1>16, <1>17, <1>18, <1>19,
       <1>20, <1>21, <1>22, <1>23, <1>24, <1>25, <1>26, <1>27, <1>28, <1>29,
       <1>30, <1>31, <1>32, <1>33, <1>34, <1>35, <1>36, <1>37, <1>38, <1>39,
       <1>40, <1>41, <1>42, <1>43, <1>44, <1>45, <1>46
    DEF Next, Arrive, UploadStep, RequestStep, CronStep

(* A get unlinks only what its copy has flagged.                           *)
LEMMA GoOnStep ==
    ASSUME TypeInv, [Next]_vars PROVE FlaggedGoOn
<1> USE TypeInv
        DEF Serve, Exit, Goto, Idle, MdPresent, NoMd, filevars, ghosts,
            FlaggedGoOn, TypeInv, TypeOK
<1>1. ASSUME NEW p \in Procs, NEW u \in Users, PutStart(p, u) PROVE FlaggedGoOn
  BY <1>1 DEF PutStart, TruncateMd, Blank
<1>2. ASSUME NEW p \in Procs, NEW u \in Users, BlockStart(p, u)
      PROVE  FlaggedGoOn
  BY <1>2 DEF BlockStart
<1>3. ASSUME NEW p \in Procs, NEW u \in Users, AckStart(p, u) PROVE FlaggedGoOn
  BY <1>3 DEF AckStart
<1>4. ASSUME NEW p \in Procs, NEW u \in Users, OneStepStart(p, u)
      PROVE  FlaggedGoOn
  BY <1>4 DEF OneStepStart, Blank
<1>5. ASSUME NEW p \in Procs, NEW u \in Users, NEW o \in Modifies,
             ModifyRead(p, u, o)
      PROVE  FlaggedGoOn
  BY <1>5 DEF ModifyRead, Permitted
<1>6. ASSUME NEW p \in Procs, NEW u \in Users, NEW o \in {"get", "getdlt"},
             GetRead(p, u, o)
      PROVE  FlaggedGoOn
  BY <1>6 DEF GetRead, Retrievable
<1>7. ASSUME NEW p \in Procs, NEW u \in Users, DeleteRead(p, u)
      PROVE  FlaggedGoOn
  BY <1>7 DEF DeleteRead
<1>8. ASSUME NEW p \in Procs, NEW u \in Users, ZipRead(p, u) PROVE FlaggedGoOn
  BY <1>8 DEF ZipRead, Retrievable
<1>9. ASSUME NEW p \in Procs, CronStart(p) PROVE FlaggedGoOn
  BY <1>9 DEF CronStart, Blank
<1>10. ASSUME NEW p \in Procs, PutWriteMd(p) PROVE FlaggedGoOn
  BY <1>10 DEF PutWriteMd, WriteMd
<1>11. ASSUME NEW p \in Procs, PutParse(p) PROVE FlaggedGoOn
  BY <1>11, ParseEffect DEF Blank
<1>12. ASSUME NEW p \in Procs, PutOpenSerial(p) PROVE FlaggedGoOn
  BY <1>12 DEF PutOpenSerial
<1>13. ASSUME NEW p \in Procs, PutOpenParallel(p) PROVE FlaggedGoOn
  BY <1>13 DEF PutOpenParallel, Blank
<1>14. ASSUME NEW p \in Procs, PutReceive(p) PROVE FlaggedGoOn
  BY <1>14 DEF PutReceive
<1>15. ASSUME NEW p \in Procs, PutCheckPass(p) PROVE FlaggedGoOn
  BY <1>15 DEF PutCheckPass
<1>16. ASSUME NEW p \in Procs, PutCheckFail(p) PROVE FlaggedGoOn
  BY <1>16 DEF PutCheckFail
<1>17. ASSUME NEW p \in Procs, PutDrop(p) PROVE FlaggedGoOn
  BY <1>17 DEF PutDrop, Blank
<1>18. ASSUME NEW p \in Procs, PutTruncate(p) PROVE FlaggedGoOn
  BY <1>18 DEF PutTruncate, TruncateMd, Blank
<1>19. ASSUME NEW p \in Procs, PutFinal(p) PROVE FlaggedGoOn
  BY <1>19 DEF PutFinal, WriteMd
<1>20. ASSUME NEW p \in Procs, PutHistory(p) PROVE FlaggedGoOn
  BY <1>20 DEF PutHistory
<1>21. ASSUME NEW p \in Procs, PutMsg(p) PROVE FlaggedGoOn
  BY <1>21 DEF PutMsg, Blank
<1>22. ASSUME NEW p \in Procs, BlockOpen(p) PROVE FlaggedGoOn
  BY <1>22 DEF BlockOpen
<1>23. ASSUME NEW p \in Procs, BlockWrite(p) PROVE FlaggedGoOn
  BY <1>23 DEF BlockWrite, Blank
<1>24. ASSUME NEW p \in Procs, AckPass(p) PROVE FlaggedGoOn
  BY <1>24, PassEffect DEF AckPass
<1>25. ASSUME NEW p \in Procs, AckFail(p) PROVE FlaggedGoOn
  BY <1>25 DEF AckFail
<1>26. ASSUME NEW p \in Procs, OneStepMove(p) PROVE FlaggedGoOn
  BY <1>26 DEF OneStepMove
<1>27. ASSUME NEW p \in Procs, ModifyWrite(p) PROVE FlaggedGoOn
  BY <1>27 DEF ModifyWrite, WriteMd, Modified, Blank
<1>28. ASSUME NEW p \in Procs, GetOpen(p) PROVE FlaggedGoOn
  BY <1>28 DEF GetOpen
<1>29. ASSUME NEW p \in Procs, GetDone(p) PROVE FlaggedGoOn
  BY <1>29 DEF GetDone, Blank
<1>30. ASSUME NEW p \in Procs, UnlinkMd(p) PROVE FlaggedGoOn
  BY <1>30 DEF UnlinkMd, Blank
<1>31. ASSUME NEW p \in Procs, UnlinkData(p) PROVE FlaggedGoOn
  BY <1>31 DEF UnlinkData, Blank
<1>32. ASSUME NEW p \in Procs, ZipLock(p) PROVE FlaggedGoOn
  BY <1>32 DEF ZipLock, WriteMd
<1>33. ASSUME NEW p \in Procs, ZipMove(p) PROVE FlaggedGoOn
  BY <1>33 DEF ZipMove
<1>34. ASSUME NEW p \in Procs, ZipCompress(p) PROVE FlaggedGoOn
  BY <1>34 DEF ZipCompress
<1>35. ASSUME NEW p \in Procs, ZipFinish(p) PROVE FlaggedGoOn
  BY <1>35 DEF ZipFinish
<1>36. ASSUME NEW p \in Procs, ZipReread(p) PROVE FlaggedGoOn
  BY <1>36 DEF ZipReread
<1>37. ASSUME NEW p \in Procs, ZipUnlock(p) PROVE FlaggedGoOn
  BY <1>37 DEF ZipUnlock, WriteMd, Blank
<1>38. ASSUME NEW p \in Procs, CronData(p) PROVE FlaggedGoOn
  BY <1>38 DEF CronData, CronSeesExpired, Blank, Expired
<1>39. ASSUME NEW p \in Procs, CronUnlinkExpired(p) PROVE FlaggedGoOn
  BY <1>39 DEF CronUnlinkExpired, Blank
<1>40. ASSUME NEW p \in Procs, CronUnlinkData(p) PROVE FlaggedGoOn
  BY <1>40 DEF CronUnlinkData
<1>41. ASSUME NEW p \in Procs, CronEmpty(p) PROVE FlaggedGoOn
  BY <1>41 DEF CronEmpty, Blank
<1>42. ASSUME NEW p \in Procs, CronUnlinkMd(p) PROVE FlaggedGoOn
  BY <1>42 DEF CronUnlinkMd, Blank
<1>43. ASSUME NEW p \in Procs, CronHistory(p) PROVE FlaggedGoOn
  BY <1>43 DEF CronHistory, Blank
<1>44. ASSUME NEW p \in Procs, Die(p) PROVE FlaggedGoOn
  BY <1>44 DEF Die, Blank
<1>45. ASSUME Tick PROVE FlaggedGoOn
  BY <1>45 DEF Tick, procvars
<1>46. ASSUME UNCHANGED vars PROVE FlaggedGoOn
  BY <1>46 DEF vars, procvars
<1> HIDE DEF MdPresent, FlaggedGoOn, TypeInv, TypeOK
<1> QED BY [Next]_vars, <1>1, <1>2, <1>3, <1>4, <1>5, <1>6, <1>7, <1>8, <1>9,
       <1>10, <1>11, <1>12, <1>13, <1>14, <1>15, <1>16, <1>17, <1>18, <1>19,
       <1>20, <1>21, <1>22, <1>23, <1>24, <1>25, <1>26, <1>27, <1>28, <1>29,
       <1>30, <1>31, <1>32, <1>33, <1>34, <1>35, <1>36, <1>37, <1>38, <1>39,
       <1>40, <1>41, <1>42, <1>43, <1>44, <1>45, <1>46
    DEF Next, Arrive, UploadStep, RequestStep, CronStep

(* It is a step of an audit that decides against an item.                  *)
LEMMA CondemnStep ==
    ASSUME TypeInv, [Next]_vars PROVE OnlyAuditsCondemn
<1> USE TypeInv
        DEF Serve, Exit, Goto, Idle, MdPresent, NoMd, filevars, ghosts,
            OnlyAuditsCondemn, Condemned, TypeInv, TypeOK
<1>1. ASSUME NEW p \in Procs, NEW u \in Users, PutStart(p, u) PROVE OnlyAuditsCondemn
  BY <1>1 DEF PutStart, TruncateMd, Blank
<1>2. ASSUME NEW p \in Procs, NEW u \in Users, BlockStart(p, u)
      PROVE  OnlyAuditsCondemn
  BY <1>2 DEF BlockStart
<1>3. ASSUME NEW p \in Procs, NEW u \in Users, AckStart(p, u) PROVE OnlyAuditsCondemn
  BY <1>3 DEF AckStart
<1>4. ASSUME NEW p \in Procs, NEW u \in Users, OneStepStart(p, u)
      PROVE  OnlyAuditsCondemn
  BY <1>4 DEF OneStepStart, Blank
<1>5. ASSUME NEW p \in Procs, NEW u \in Users, NEW o \in Modifies,
             ModifyRead(p, u, o)
      PROVE  OnlyAuditsCondemn
  BY <1>5 DEF ModifyRead, Permitted
<1>6. ASSUME NEW p \in Procs, NEW u \in Users, NEW o \in {"get", "getdlt"},
             GetRead(p, u, o)
      PROVE  OnlyAuditsCondemn
  BY <1>6 DEF GetRead, Retrievable
<1>7. ASSUME NEW p \in Procs, NEW u \in Users, DeleteRead(p, u)
      PROVE  OnlyAuditsCondemn
  BY <1>7 DEF DeleteRead
<1>8. ASSUME NEW p \in Procs, NEW u \in Users, ZipRead(p, u) PROVE OnlyAuditsCondemn
  BY <1>8 DEF ZipRead, Retrievable
<1>9. ASSUME NEW p \in Procs, CronStart(p) PROVE OnlyAuditsCondemn
  BY <1>9 DEF CronStart, Blank
<1>10. ASSUME NEW p \in Procs, PutWriteMd(p) PROVE OnlyAuditsCondemn
  BY <1>10 DEF PutWriteMd, WriteMd
<1>11. ASSUME NEW p \in Procs, PutParse(p) PROVE OnlyAuditsCondemn
  BY <1>11, ParseEffect DEF Blank
<1>12. ASSUME NEW p \in Procs, PutOpenSerial(p) PROVE OnlyAuditsCondemn
  BY <1>12 DEF PutOpenSerial
<1>13. ASSUME NEW p \in Procs, PutOpenParallel(p) PROVE OnlyAuditsCondemn
  BY <1>13 DEF PutOpenParallel, Blank
<1>14. ASSUME NEW p \in Procs, PutReceive(p) PROVE OnlyAuditsCondemn
  BY <1>14 DEF PutReceive
<1>15. ASSUME NEW p \in Procs, PutCheckPass(p) PROVE OnlyAuditsCondemn
  BY <1>15 DEF PutCheckPass
<1>16. ASSUME NEW p \in Procs, PutCheckFail(p) PROVE OnlyAuditsCondemn
  BY <1>16 DEF PutCheckFail
<1>17. ASSUME NEW p \in Procs, PutDrop(p) PROVE OnlyAuditsCondemn
  BY <1>17 DEF PutDrop, Blank
<1>18. ASSUME NEW p \in Procs, PutTruncate(p) PROVE OnlyAuditsCondemn
  BY <1>18 DEF PutTruncate, TruncateMd, Blank
<1>19. ASSUME NEW p \in Procs, PutFinal(p) PROVE OnlyAuditsCondemn
  BY <1>19 DEF PutFinal, WriteMd
<1>20. ASSUME NEW p \in Procs, PutHistory(p) PROVE OnlyAuditsCondemn
  BY <1>20 DEF PutHistory
<1>21. ASSUME NEW p \in Procs, PutMsg(p) PROVE OnlyAuditsCondemn
  BY <1>21 DEF PutMsg, Blank
<1>22. ASSUME NEW p \in Procs, BlockOpen(p) PROVE OnlyAuditsCondemn
  BY <1>22 DEF BlockOpen
<1>23. ASSUME NEW p \in Procs, BlockWrite(p) PROVE OnlyAuditsCondemn
  BY <1>23 DEF BlockWrite, Blank
<1>24. ASSUME NEW p \in Procs, AckPass(p) PROVE OnlyAuditsCondemn
  BY <1>24, PassEffect DEF AckPass
<1>25. ASSUME NEW p \in Procs, AckFail(p) PROVE OnlyAuditsCondemn
  BY <1>25 DEF AckFail
<1>26. ASSUME NEW p \in Procs, OneStepMove(p) PROVE OnlyAuditsCondemn
  BY <1>26 DEF OneStepMove
<1>27. ASSUME NEW p \in Procs, ModifyWrite(p) PROVE OnlyAuditsCondemn
  BY <1>27 DEF ModifyWrite, WriteMd, Modified, Blank
<1>28. ASSUME NEW p \in Procs, GetOpen(p) PROVE OnlyAuditsCondemn
  BY <1>28 DEF GetOpen
<1>29. ASSUME NEW p \in Procs, GetDone(p) PROVE OnlyAuditsCondemn
  BY <1>29 DEF GetDone, Blank
<1>30. ASSUME NEW p \in Procs, UnlinkMd(p) PROVE OnlyAuditsCondemn
  BY <1>30 DEF UnlinkMd, Blank
<1>31. ASSUME NEW p \in Procs, UnlinkData(p) PROVE OnlyAuditsCondemn
  BY <1>31 DEF UnlinkData, Blank
<1>32. ASSUME NEW p \in Procs, ZipLock(p) PROVE OnlyAuditsCondemn
  BY <1>32 DEF ZipLock, WriteMd
<1>33. ASSUME NEW p \in Procs, ZipMove(p) PROVE OnlyAuditsCondemn
  BY <1>33 DEF ZipMove
<1>34. ASSUME NEW p \in Procs, ZipCompress(p) PROVE OnlyAuditsCondemn
  BY <1>34 DEF ZipCompress
<1>35. ASSUME NEW p \in Procs, ZipFinish(p) PROVE OnlyAuditsCondemn
  BY <1>35 DEF ZipFinish
<1>36. ASSUME NEW p \in Procs, ZipReread(p) PROVE OnlyAuditsCondemn
  BY <1>36 DEF ZipReread
<1>37. ASSUME NEW p \in Procs, ZipUnlock(p) PROVE OnlyAuditsCondemn
  BY <1>37 DEF ZipUnlock, WriteMd, Blank
<1>38. ASSUME NEW p \in Procs, CronData(p) PROVE OnlyAuditsCondemn
  BY <1>38 DEF CronData, CronSeesExpired, Blank, Expired
<1>39. ASSUME NEW p \in Procs, CronUnlinkExpired(p) PROVE OnlyAuditsCondemn
  BY <1>39 DEF CronUnlinkExpired, Blank
<1>40. ASSUME NEW p \in Procs, CronUnlinkData(p) PROVE OnlyAuditsCondemn
  BY <1>40 DEF CronUnlinkData
<1>41. ASSUME NEW p \in Procs, CronEmpty(p) PROVE OnlyAuditsCondemn
  BY <1>41 DEF CronEmpty, Blank
<1>42. ASSUME NEW p \in Procs, CronUnlinkMd(p) PROVE OnlyAuditsCondemn
  BY <1>42 DEF CronUnlinkMd, Blank
<1>43. ASSUME NEW p \in Procs, CronHistory(p) PROVE OnlyAuditsCondemn
  BY <1>43 DEF CronHistory, Blank
<1>44. ASSUME NEW p \in Procs, Die(p) PROVE OnlyAuditsCondemn
  BY <1>44 DEF Die, Blank
<1>45. ASSUME Tick PROVE OnlyAuditsCondemn
  BY <1>45 DEF Tick, procvars
<1>46. ASSUME UNCHANGED vars PROVE OnlyAuditsCondemn
  BY <1>46 DEF vars, procvars
<1> HIDE DEF MdPresent, OnlyAuditsCondemn, Condemned, TypeInv, TypeOK
<1> QED BY [Next]_vars, <1>1, <1>2, <1>3, <1>4, <1>5, <1>6, <1>7, <1>8, <1>9,
       <1>10, <1>11, <1>12, <1>13, <1>14, <1>15, <1>16, <1>17, <1>18, <1>19,
       <1>20, <1>21, <1>22, <1>23, <1>24, <1>25, <1>26, <1>27, <1>28, <1>29,
       <1>30, <1>31, <1>32, <1>33, <1>34, <1>35, <1>36, <1>37, <1>38, <1>39,
       <1>40, <1>41, <1>42, <1>43, <1>44, <1>45, <1>46
    DEF Next, Arrive, UploadStep, RequestStep, CronStep

-----------------------------------------------------------------------------
(***************************************************************************)
(* The invariant, and what follows from it.                                *)
(***************************************************************************)
SafeInv ==
    /\ IInv /\ UploadInv
    /\ CheckedInv /\ EmptyInv /\ SoundInv /\ GetsWholeData
    /\ CopyInv /\ UnreleasedInv
    /\ FlagInv /\ BlankInv /\ GoneInv
    /\ DateInv

LEMMA SafeInit == Init => SafeInv
<1> SUFFICES ASSUME Init PROVE SafeInv  OBVIOUS
<1>1. IInv  BY InitInv
<1>2. ~MdPresent /\ md.body = Blank /\ Blank.lock = "0" /\ Blank.dlt = "no"
      /\ \A p \in Procs : pc[p] = "idle"
  BY DEF Init, MdPresent, NoMd, Blank
<1>3. UploadInv /\ CheckedInv /\ EmptyInv /\ SoundInv /\ GetsWholeData
  BY DEF Init, UploadInv, PositionKnows, Uploading, Checking, Acking,
         ZipPositions, CheckedInv, EmptyInv, SoundInv, Sound, GetsWholeData,
         OtherDisk
<1>4. CopyInv /\ UnreleasedInv /\ FlagInv /\ BlankInv /\ GoneInv
  BY <1>2 DEF Init, CopyInv, UnreleasedInv, FlagInv, BlankInv, GoneInv, Pending,
              BeforeAck, Uploading, Checking, Acking
<1>5. ASSUME NEW w \in Weekend PROVE Dates(w)
  <2>1. w \in Nat /\ Base = 0 /\ due = 0  BY TimeAssumption DEF Init, Base
  <2>2. InTime(md.body, due, Base, w)  BY <1>2, <2>1, BlankInTime
  <2> QED BY <2>2 DEF Init, Dates
<1> QED BY <1>1, <1>3, <1>4, <1>5 DEF SafeInv, DateInv

LEMMA SafeStep == ASSUME SafeInv, [Next]_vars PROVE SafeInv'
<1> USE SafeInv, [Next]_vars DEF SafeInv, IInv
<1>1. IInv'  BY TypeStep, LockStep
<1>2. UploadInv'  BY UploadStepInv
<1>3. CheckedInv' /\ EmptyInv'  BY CheckedStep, EmptyStep
<1>0. SoundInv'  BY SoundStep DEF CopyInv
<1>4. GetsWholeData'  BY GetsStep
<1>5. CopyInv' /\ UnreleasedInv'  BY CopyStep, UnreleasedStep
<1>6. FlagInv' /\ BlankInv' /\ GoneInv'  BY FlagStep, BlankStep, GoneStep
<1>7. DateInv'
  <2>1. ASSUME NEW w \in Weekend, \A v \in Weekend : v <= w PROVE Dates(w)'
    <3>1. Dates(w)  BY <2>1 DEF DateInv
    <3> QED BY <2>1, <3>1, DatesStep
  <2> QED BY <2>1 DEF DateInv
<1> QED BY <1>0, <1>1, <1>2, <1>3, <1>4, <1>5, <1>6, <1>7

LEMMA Safe == Spec => []SafeInv
<1> QED BY SafeInit, SafeStep, PTL DEF Spec

(* A get that sends data sends those of a complete upload, if the upload   *)
(* was not in blocks and removed meanwhile, and not zipped meanwhile, and  *)
(* neither put_ack had cut the data nor data_log made the metadata anew.   *)
THEOREM WholeDataSent == Spec => []GetsWholeData
<1>1. SafeInv => GetsWholeData  BY DEF SafeInv
<1> QED BY Safe, <1>1, PTL

(* The extensions of an item never move its expiration by more than        *)
(* timeout_extension days and their weekends, or twice as many if it was   *)
(* uploaded in blocks, whichever requests read and write the metadata in   *)
(* between each other.                                                     *)
THEOREM ExtensionsBounded == Spec => []ExtensionBound
<1>1. ASSUME SafeInv PROVE ExtensionBound
  <2>1. SUFFICES ASSUME NEW w \in Weekend, \A v \in Weekend : v <= w
                 PROVE  md.body.time <= due + Rounds * ExtendMax * (1 + w)
    BY DEF ExtensionBound
  <2>2. InTime(md.body, due, Base, w)  BY <1>1, <2>1 DEF SafeInv, DateInv, Dates
  <2>3. /\ w \in Nat /\ ExtendMax \in Nat /\ Base \in Nat /\ due \in Nat
        /\ md.body.ext \in Nat /\ md.body.time \in Nat /\ Rounds \in Nat
    BY <1>1, TimeAssumption DEF SafeInv, IInv, TypeInv, TypeOK, MdFile, Body,
                                Base, Rounds
  <2>4. Base + md.body.ext <= Rounds * ExtendMax
    <3>1. md.body.ext <= ExtendMax  BY <2>2 DEF InTime
    <3>2. transfer # "no" => form = "parallel"  BY <1>1 DEF SafeInv, UploadInv
    <3>3. 1 * ExtendMax = ExtendMax /\ 2 * ExtendMax = ExtendMax + ExtendMax  BY <2>3
    <3>4. CASE form = "parallel"
      BY <2>3, <3>1, <3>3, <3>4 DEF Base, Rounds
    <3>5. CASE form # "parallel"
      BY <2>3, <3>1, <3>2, <3>3, <3>5 DEF Base, Rounds
    <3> QED BY <3>4, <3>5
  <2> DEFINE a == Base + md.body.ext  b == Rounds * ExtendMax
  <2>5. a \in Nat /\ b \in Nat  BY <2>3, SMTT(30)
  <2>6. a <= b /\ md.body.time <= due + a * (1 + w)  BY <2>2, <2>4 DEF InTime
  <2> HIDE DEF a, b
  <2>7. a * (1 + w) <= b * (1 + w)  BY <2>3, <2>5, <2>6, Products
  <2>8. a * (1 + w) \in Nat /\ b * (1 + w) \in Nat  BY <2>3, <2>5, SMTT(30)
  <2> DEFINE x == a * (1 + w)  y == b * (1 + w)
  <2> HIDE DEF x, y
  <2>9. md.body.time <= due + y  BY <2>3, <2>6, <2>7, <2>8 DEF x, y
  <2> QED BY <2>9 DEF b, y
<1> QED BY Safe, <1>1, PTL

(* After a deletion of received data is over the item is not retrievable   *)
(* again (serial and 1-step uploads, not zipped, whose metadata no audit   *)
(* took before the description was appended).                              *)
THEOREM DeletionIsFinal == Spec => DeletedStaysDeleted
<1>1. ASSUME SafeInv, [Next]_vars, removed = "all", transfer = "no", ~zipped, ~remade
      PROVE  ~Available'
  <2>1. Gone  BY <1>1 DEF SafeInv, GoneInv, CheckedInv, Gone
  <2>2. Gone'  BY <1>1, <2>1, GoneStays DEF SafeInv, IInv
  <2> QED BY <2>2 DEF Gone, Available
<1>2. SafeInv /\ [Next]_vars
        => [removed = "all" /\ transfer = "no" /\ ~zipped /\ ~remade /\ ~Available
                => ~Available']_vars
  BY <1>1
<1> QED BY Safe, <1>2, PTL DEF Spec, DeletedStaysDeleted

(* A get that was not asked to delete the data never goes on to unlink     *)
(* those of an upload for several recipients.                              *)
THEOREM SharedDataStays == Spec => SharedDataKept
<1>1. ASSUME SafeInv, [Next]_vars, NEW p \in Procs, pc[p] = "get_send",
             op[p] = "get", several, transfer = "no", ~zipped
      PROVE  pc'[p] # "unlink_md"
  <2>1. fs[p].body.dlt # "yes"  BY <1>1 DEF SafeInv, FlagInv
  <2>2. FlaggedGoOn  BY <1>1, GoOnStep DEF SafeInv, IInv
  <2> QED BY <1>1, <2>1, <2>2 DEF FlaggedGoOn
<1>2. SafeInv /\ [Next]_vars
        => [\A p \in Procs : pc[p] = "get_send" /\ op[p] = "get" /\ several
                /\ transfer = "no" /\ ~zipped => pc'[p] # "unlink_md"]_vars
  BY <1>1
<1> QED BY Safe, <1>2, PTL DEF Spec, SharedDataKept

(* Only an unlock, or a request that read the metadata before the lock was *)
(* set, lifts the lock 'L' of an item that is not zipped.                  *)
THEOREM LockIsRespected == Spec => LockLiftedKnowingly
<1>1. ASSUME SafeInv, [Next]_vars PROVE LiftedKnowingly
  BY <1>1, LiftStep DEF SafeInv, IInv
<1>2. SafeInv /\ [Next]_vars
        => [MdPresent /\ md.body.lock = "L" /\ ~zipped
            /\ md'.ino = md.ino /\ md'.body.lock # "L"
              => \E p \in Procs : /\ pc[p] = "modify" /\ pc'[p] = "idle"
                                  /\ op[p] = "unlock" \/ fs[p].body.lock # "L"]_vars
  BY <1>1 DEF LiftedKnowingly, Lifted, Knowingly
<1> QED BY Safe, <1>2, PTL DEF Spec, LockLiftedKnowingly

(* An acknowledged upload that nobody zips keeps its metadata and its data *)
(* until somebody removes the metadata, and an audit that looks at it only *)
(* goes on to remove it when it has expired.                               *)
LEMMA CondemnedExpired ==
    ASSUME TypeInv, CopyInv, KeptInv, [Next]_vars, acked, ~zipped, MdPresent,
           data # "absent", NEW q \in Procs, Condemned(q)
    PROVE  Expired(md.body)
<1>1. md.body # Blank  BY DEF KeptInv, Blank
<1>2. pc[q] \in {"cron_data", "cron_md"} /\ pc'[q] # pc[q] /\ pc'[q] # "idle"
      /\ pc'[q] \in {"cron_expired", "cron_data_unlink", "cron_md_unlink"}
  BY DEF Condemned
<1>3. CronData(q) \/ CronEmpty(q)
  BY CondemnStep DEF OnlyAuditsCondemn
<1>4. CASE CronData(q)
  <2>1. CronSeesExpired = {Expired(md.body)}  BY <1>1 DEF CronSeesExpired
  <2>2. PICK e \in CronSeesExpired : pc' = [pc EXCEPT ![q] = IF e THEN "cron_expired" ELSE "cron_md"]
    BY <1>4 DEF CronData, Goto
  <2>3. e  BY <1>2, <2>2 DEF TypeInv, TypeOK
  <2> QED BY <2>1, <2>2, <2>3
<1>5. CASE CronEmpty(q)
  BY <1>1, <1>2, <1>5 DEF CronEmpty, Goto, TypeInv, TypeOK
<1> QED BY <1>3, <1>4, <1>5

THEOREM AckedStaySafe == Spec => AckedIsSafe
<1>1. Init => KeptInv  BY DEF Init, KeptInv, Uploading, Checking, Acking
<1>2. SafeInv /\ KeptInv /\ [Next]_vars => KeptInv'
  BY KeptStep DEF SafeInv, IInv
<1>3. ASSUME SafeInv, KeptInv, [Next]_vars, acked, ~zipped
      PROVE  /\ form # "onestep" /\ removed = "none"
                  => MdPresent /\ (data = "whole" \/ (cut /\ data = "partial"))
             /\ MdPresent /\ data # "absent" /\ (\E p \in Procs : Condemned(p))
                  => Expired(md.body)
  <2>1. received /\ announced /\ form # "none"
    BY <1>3 DEF SafeInv, UploadInv, IInv, LockInv, OneUpload
  <2>2. form \in {"serial", "parallel", "onestep"}
    BY <1>3, <2>1 DEF SafeInv, IInv, TypeInv, TypeOK
  <2>3. form # "onestep" /\ removed = "none" => MdPresent /\ Intact
    BY <1>3, <2>1, <2>2 DEF SafeInv, SoundInv, Sound
  <2>4. MdPresent /\ data # "absent" /\ (\E p \in Procs : Condemned(p))
          => Expired(md.body)
    BY <1>3, CondemnedExpired DEF SafeInv, IInv
  <2> QED BY <2>3, <2>4 DEF Intact
<1>4. SafeInv /\ KeptInv /\ [Next]_vars
        => [acked /\ ~zipped =>
             /\ form # "onestep" /\ removed = "none"
                  => MdPresent /\ (data = "whole" \/ (cut /\ data = "partial"))
             /\ MdPresent /\ data # "absent" /\ (\E p \in Procs : Condemned(p))
                  => Expired(md.body)]_vars
  BY <1>3
<1> QED BY Safe, <1>1, <1>2, <1>4, PTL DEF Spec, AckedIsSafe
=============================================================================
