----------------------------- MODULE Repository -----------------------------
(***************************************************************************)
(* One item of the Transcend repository: the metadata file global_data/KEY,*)
(* the data file data_filesN/KEY.gz and the history file KEY.history, and  *)
(* the server child processes that work on them.  The server forks a child *)
(* per connection and none of the handlers takes a lock on these files, so *)
(* the steps of this module are single file operations: every open, read,  *)
(* write and unlink of a handler is a step of its own, and the copy of the *)
(* metadata that a process read (the global "fs") stays with the process.  *)
(***************************************************************************)
EXTENDS Naturals

CONSTANTS
    Procs,        \* server children; each serves one request at a time
    Users,        \* core IDs
    NoUser,       \* the empty own_id of a blank metadata file
    Requests,     \* the requests that may arrive, and the forms of a put
    Life,         \* days from upload to expiration
    HistoryLife,  \* the 14 days the history outlives the data
    ExtendMax,    \* timeout_extension, the limit of fs.extension
    Weekend,      \* the set of extra days extend_big_file may add: {0, 2}
    LastUpload,   \* bound: the last day on which the upload may start
    MaxTime       \* bound of the clock

ASSUME UsersAssumption == NoUser \notin Users
ASSUME TimeAssumption  == /\ Life \in Nat \ {0} /\ HistoryLife \in Nat
                          /\ ExtendMax \in Nat  /\ Weekend \subseteq Nat
                          /\ LastUpload \in Nat /\ MaxTime \in Nat

VARIABLES
    md,          \* global_data/KEY: the inode the name leads to, its content
    data,        \* the content found under data_filesN/KEY.gz
    aside,       \* the content found under data_filesN/KEY, used by the zip
    hist,        \* the expiration time on line 1 of KEY.history, 0 if none
    now,         \* the day
    upd,         \* tr.upd_time of the cron request being served
    pc, op, user, fs,   \* per process: position, request, requester, "fs"
    got,         \* per process: what a get found in the data file it opened
    transfer,    \* "no", "parallel" (blocks may arrive), "acked"
    counted,     \* the slots in shared memory count every block
    form,        \* of the upload: "none" before one has started
    announced,   \* its keyword was sent to the uploader
    owner,       \* who uploaded
    due,         \* the expiration time the upload was given
    several,     \* the upload named more than one recipient
    remade,      \* its description made metadata that an audit had taken anew
    cut,         \* its data were cut to what its client had counted
    zipped,      \* a zip of the item has been asked for
    received,    \* the server has checked the data it received
    acked,       \* the uploader was told of success
    removed      \* the last removal: "none", "user" or "cron" took the
                 \* metadata, "all" a deletion of received data ended

filevars == <<md, data, aside, hist>>
procvars == <<pc, op, user, fs, got>>
ghosts   == <<form, announced, owner, due, several, remade, cut, zipped, received,
              acked, removed>>
vars     == <<filevars, procvars, now, upd, transfer, counted, ghosts>>

DltFlags == {"no", "yes", "owner"}            \* DBNO, DBYES and 3
LockFlags == {"u", "l", "L", "z"}
Contents == {"absent", "partial", "whole"}

(* The fields of the first lines of global_data/KEY that handlers decide   *)
(* on; small: the Compressed line differs from the User size line.         *)
Body == [own : Users \cup {NoUser}, dlt : DltFlags, lock : LockFlags \cup {"0"},
         time : Nat, ext : Nat, email : BOOLEAN, small : BOOLEAN]

(* What read_big_file leaves in the zero-initialised fs when the file is   *)
(* empty, as it is between an fopen "w" and the fclose that flushes it, or *)
(* begins with the line "Description:", see PutParse.                      *)
Blank == [own |-> NoUser, dlt |-> "no", lock |-> "0", time |-> 0, ext |-> 0,
          email |-> FALSE, small |-> FALSE]

NoMd == [ino |-> 0, body |-> Blank]
MdPresent == md.ino # 0
Expired(body) == upd > body.time /\ body.time # 0

Idle(p) == pc[p] = "idle"
Goto(p, l) == pc' = [pc EXCEPT ![p] = l]

(* A process that ends: its copies go with it.                             *)
Exit(p) == /\ Goto(p, "idle")
           /\ op' = [op EXCEPT ![p] = "none"]
           /\ user' = [user EXCEPT ![p] = NoUser]
           /\ fs' = [fs EXCEPT ![p] = NoMd]
           /\ got' = [got EXCEPT ![p] = "absent"]

(* read_big_file: open by name, read everything, keep the open handle.     *)
Serve(p, u, o, l, body) ==
    /\ Idle(p)
    /\ o \in Requests
    /\ Goto(p, l)
    /\ op' = [op EXCEPT ![p] = o]
    /\ user' = [user EXCEPT ![p] = u]
    /\ fs' = [fs EXCEPT ![p] = [ino |-> md.ino, body |-> body]]

(* Mutant: write_big_file opens the file by its name.                      *)
WriteMdByName(p, body) == md' = [ino |-> fs[p].ino, body |-> body]

(* write_big_file: the handle opened by read_big_file is rewound and every *)
(* line is written again.  The inode may have lost its name meanwhile.     *)
WriteMd(p, body) ==
    md' = IF MdPresent /\ md.ino = fs[p].ino THEN [md EXCEPT !.body = body] ELSE md

(* fopen(global_file, "w"): truncates the file, or creates it again.       *)
TruncateMd(p, body) ==
    LET ino == IF MdPresent THEN md.ino ELSE fs[p].ino + 1
    IN  /\ md' = [ino |-> ino, body |-> Blank]
        /\ fs' = [fs EXCEPT ![p] = [ino |-> ino, body |-> body]]

-----------------------------------------------------------------------------
(***************************************************************************)
(* Upload.  put_big_file: metadata with lock 'l', keyword to the client,   *)
(* the data, then put_trans_file_ack: metadata with lock 'u', history,     *)
(* reply.                                                                  *)
(***************************************************************************)
PutStart(p, u) ==
    /\ form = "none" /\ now <= LastUpload
    /\ form' \in {"serial", "parallel"} \cap Requests
    /\ \E dlt \in {"no", "yes"} :
         LET body == [own |-> u, dlt |-> dlt, lock |-> "l", time |-> now + Life,
                      ext |-> 0, email |-> FALSE, small |-> FALSE]
         IN  /\ Idle(p) /\ "put" \in Requests
             /\ Goto(p, "put_md")
             /\ op' = [op EXCEPT ![p] = "put"]
             /\ user' = [user EXCEPT ![p] = u]
             /\ TruncateMd(p, body)
    /\ owner' = u /\ due' = now + Life
    /\ UNCHANGED <<data, aside, hist, now, upd, got, transfer, counted,
                   announced, several, remade, cut, zipped, received, acked,
                   removed>>

PutWriteMd(p) ==
    /\ pc[p] = "put_md"
    /\ WriteMd(p, fs[p].body)
    /\ Goto(p, "put_parse")
    /\ UNCHANGED <<data, aside, hist, op, user, fs, got, now, upd, transfer, counted, ghosts>>

(* Mutant: the deletion flag survives several recipients.                  *)
PutParseKeepFlag(p) ==
    /\ pc[p] = "put_parse"
    /\ MdPresent
    /\ several' \in BOOLEAN
    /\ fs' = [fs EXCEPT ![p].body.lock = "u"]
    /\ announced' = TRUE
    /\ Goto(p, "put_open")
    /\ UNCHANGED <<filevars, op, user, got, now, upd, transfer, counted, form,
                   owner, due, remade, cut, zipped, received, acked, removed>>

(* Unless the description is the placeholder "0", data_log appends it and  *)
(* the recipients to the metadata by name: if an audit has unlinked them,  *)
(* the file is made again without a first line that anybody can read.  The *)
(* recipients decide the deletion flag that fs carries on, the metadata    *)
(* file keeps the one already written.  The keyword goes to the client.    *)
PutParse(p) ==
    /\ pc[p] = "put_parse"
    /\ \E described, many \in BOOLEAN :
         /\ many => described
         /\ several' = many
         /\ remade' = (described /\ ~MdPresent)
         /\ LET ino == IF remade' THEN fs[p].ino + 1 ELSE fs[p].ino
            IN  /\ md' = IF remade' THEN [ino |-> ino, body |-> Blank] ELSE md
                /\ fs' = [fs EXCEPT ![p].ino = ino,
                                    ![p].body.lock = "u",
                                    ![p].body.dlt = IF many THEN "no" ELSE @]
    /\ announced' = TRUE
    /\ Goto(p, "put_open")
    /\ UNCHANGED <<data, aside, hist, op, user, got, now, upd, transfer, counted,
                   form, owner, due, cut, zipped, received, acked, removed>>

(* rcv_file opens the data file and goes on to receive it.                 *)
PutOpenSerial(p) ==
    /\ pc[p] = "put_open"
    /\ form = "serial"
    /\ data' = IF data = "absent" THEN "partial" ELSE data
    /\ Goto(p, "put_rcv")
    /\ UNCHANGED <<md, aside, hist, op, user, fs, got, now, upd, transfer, counted, ghosts>>

(* rcv_parallel creates the data file and the shared memory and exits.     *)
PutOpenParallel(p) ==
    /\ pc[p] = "put_open"
    /\ form = "parallel"
    /\ data' = IF data = "absent" THEN "partial" ELSE data
    /\ transfer' = "parallel"
    /\ Exit(p)
    /\ UNCHANGED <<md, aside, hist, now, upd, counted, ghosts>>

(* Every byte arrived; they are lost if the name was unlinked meanwhile.   *)
PutReceive(p) ==
    /\ pc[p] = "put_rcv"
    /\ data' = IF data = "absent" THEN "absent" ELSE "whole"
    /\ Goto(p, "put_check")
    /\ UNCHANGED <<md, aside, hist, op, user, fs, got, now, upd, transfer, counted, ghosts>>

(* The size found by stat is compared with the bytes received.  When the   *)
(* file has gone the result of stat is ignored and buf is uninitialised.   *)
PutCheckPass(p) ==
    /\ pc[p] = "put_check"
    /\ received' = TRUE
    /\ Goto(p, "put_trunc")
    /\ UNCHANGED <<filevars, op, user, fs, got, now, upd, transfer, counted, form,
                   announced, owner, due, several, remade, cut, zipped, acked,
                   removed>>

PutCheckFail(p) ==
    /\ pc[p] = "put_check"
    /\ data' = "absent"
    /\ Goto(p, "put_drop")
    /\ UNCHANGED <<md, aside, hist, op, user, fs, got, now, upd, transfer, counted, ghosts>>

(* The second unlink of rcv_file and of delete_file_and_exit.              *)
PutDrop(p) ==
    /\ pc[p] = "put_drop"
    /\ md' = NoMd
    /\ Exit(p)
    /\ UNCHANGED <<data, aside, hist, now, upd, transfer, counted, ghosts>>

(* put_trans_file_ack: fopen "w", the flush at fclose, the history file,   *)
(* the reply.  The extension count is written as the literal 0.            *)
PutTruncate(p) ==
    /\ pc[p] = "put_trunc"
    /\ TruncateMd(p, [fs[p].body EXCEPT !.own = user[p], !.ext = 0])
    /\ Goto(p, "put_final")
    /\ UNCHANGED <<data, aside, hist, op, user, got, now, upd, transfer, counted, ghosts>>

PutFinal(p) ==
    /\ pc[p] = "put_final"
    /\ WriteMd(p, fs[p].body)
    /\ Goto(p, "put_hist")
    /\ UNCHANGED <<data, aside, hist, op, user, fs, got, now, upd, transfer, counted, ghosts>>

PutHistory(p) ==
    /\ pc[p] = "put_hist"
    /\ hist' = fs[p].body.time + HistoryLife
    /\ Goto(p, "put_msg")
    /\ UNCHANGED <<md, data, aside, op, user, fs, got, now, upd, transfer, counted, ghosts>>

PutMsg(p) ==
    /\ pc[p] = "put_msg"
    /\ acked' = TRUE
    /\ Exit(p)
    /\ UNCHANGED <<filevars, now, upd, transfer, counted, form, announced, owner,
                   due, several, remade, cut, zipped, received, removed>>

-----------------------------------------------------------------------------
(***************************************************************************)
(* Parallel upload.  The block processes of a transfer are one process     *)
(* here (ParallelPut has them apart); the client sends DBPUT_ACK once.     *)
(***************************************************************************)
BlockStart(p, u) ==
    /\ transfer # "no"
    /\ u = owner
    /\ MdPresent                              \* disk_index_read
    /\ Serve(p, u, "block", "blk_open", md.body)
    /\ UNCHANGED <<filevars, got, now, upd, transfer, counted, ghosts>>

(* disk_index_read leaves its result unset when the metadata begin with    *)
(* "Description:"; another disk has another file, or none.                 *)
OtherDisk(p) == fs[p].body.time = 0

(* Mutant: O_TRUNC.                                                        *)
BlockOpenTruncate(p) ==
    /\ pc[p] = "blk_open"
    /\ data' = "partial"
    /\ Goto(p, "blk_write")
    /\ UNCHANGED <<md, aside, hist, op, user, fs, got, now, upd, transfer, counted, ghosts>>

BlockOpen(p) ==
    /\ pc[p] = "blk_open"                     \* O_WRONLY | O_CREAT
    /\ \/ data' = IF data = "absent" THEN "partial" ELSE data
       \/ OtherDisk(p) /\ data' = data
    /\ Goto(p, "blk_write")
    /\ UNCHANGED <<md, aside, hist, op, user, fs, got, now, upd, transfer, counted, ghosts>>

(* Blocks that come when every slot has its count are sent again, one or   *)
(* all: they need not fill data that were made again meanwhile.            *)
BlockWrite(p) ==
    /\ pc[p] = "blk_write"
    /\ data' \in IF data = "absent" THEN {"absent"}
                ELSE IF counted \/ OtherDisk(p) THEN {data, "whole"} ELSE {"whole"}
    /\ counted' = TRUE
    /\ Exit(p)
    /\ UNCHANGED <<md, aside, hist, now, upd, transfer, ghosts>>

(* put_ack: read_big_file, then the shared memory and the data are checked;*)
(* metadata_init sets the lock flag to 'u'.                                *)
AckStart(p, u) ==
    /\ transfer = "parallel"
    /\ u = owner
    /\ MdPresent
    /\ Serve(p, u, "put_ack", "ack_check", [md.body EXCEPT !.lock = "u"])
    /\ transfer' = "acked"
    /\ UNCHANGED <<filevars, got, now, upd, counted, ghosts>>

(* Mutant: server_size is not compared with the original size.             *)
AckPassUncounted(p) ==
    /\ pc[p] = "ack_check"
    /\ data # "absent"
    /\ received' = TRUE
    /\ Goto(p, "put_trunc")
    /\ UNCHANGED <<filevars, op, user, fs, got, now, upd, transfer, counted, form,
                   announced, owner, due, several, remade, cut, zipped, acked,
                   removed>>

(* The slots count original_size bytes (0 in metadata without a first line)*)
(* and the file is not shorter than the client says.  A longer one is cut  *)
(* to the client's count, which lost replies leave too small, and passes;  *)
(* the count becomes the Compressed line.                                  *)
AckPass(p) ==
    /\ pc[p] = "ack_check"
    /\ data # "absent"
    /\ counted /\ fs[p].body.time # 0
    /\ received' = TRUE
    /\ \/ UNCHANGED <<data, fs, cut>>
       \/ /\ data' = "partial" /\ cut' = TRUE
          /\ fs' = [fs EXCEPT ![p].body.small = TRUE]
    /\ Goto(p, "put_trunc")
    /\ UNCHANGED <<md, aside, hist, op, user, got, now, upd, transfer, counted, form,
                   announced, owner, due, several, remade, zipped, acked, removed>>

(* delete_file_and_exit: too short a file, or counters in shared memory    *)
(* that disagree with the client's.                                        *)
AckFail(p) ==
    /\ pc[p] = "ack_check"
    /\ data # "absent"                         \* otherwise stat fails: Die
    /\ data' = "absent"
    /\ Goto(p, "put_drop")
    /\ UNCHANGED <<md, aside, hist, op, user, fs, got, now, upd, transfer, counted, ghosts>>

-----------------------------------------------------------------------------
(***************************************************************************)
(* trans1step_upload: the file is already on the server.  Keyword to the   *)
(* client, rename into place, then metadata, history and reply as above.   *)
(***************************************************************************)
OneStepStart(p, u) ==
    /\ form = "none" /\ now <= LastUpload
    /\ Serve(p, u, "upload1", "u1_move",
             [Blank EXCEPT !.own = u, !.lock = "u", !.time = now + Life])
    /\ form' = "onestep" /\ owner' = u /\ announced' = TRUE /\ due' = now + Life
    /\ UNCHANGED <<filevars, got, now, upd, transfer, counted, several, remade,
                   cut, zipped, received, acked, removed>>

OneStepMove(p) ==
    /\ pc[p] = "u1_move"
    /\ data' = "whole"
    /\ received' = TRUE
    /\ Goto(p, "put_trunc")
    /\ UNCHANGED <<md, aside, hist, op, user, fs, got, now, upd, transfer, counted,
                   form, announced, owner, due, several, remade, cut, zipped, acked,
                   removed>>

-----------------------------------------------------------------------------
(***************************************************************************)
(* Requests that read the metadata, change one field and write it back.    *)
(* The checks use the copy just read; a refused request changes nothing.   *)
(***************************************************************************)
Modifies == {"extend", "lock", "unlock", "owner_dlt", "user_dlt",
             "set_email", "clear_email"}

(* Mutants: a guard on the lock flag is dropped.                           *)
PermittedUnlockAny(o, u, b) ==
    CASE o = "extend"    -> b.ext < ExtendMax /\ b.time # 0
      [] o = "lock"      -> b.lock = "u"
      [] o = "unlock"    -> b.lock # "u"
      [] o = "owner_dlt" -> b.own = u /\ b.dlt # "owner"
      [] o = "user_dlt"  -> b.own = u /\ b.dlt = "owner"
      [] o \in {"set_email", "clear_email"} -> b.own = u

PermittedLockAny(o, u, b) ==
    CASE o = "extend"    -> b.ext < ExtendMax /\ b.time # 0
      [] o = "lock"      -> b.lock # "L"
      [] o = "unlock"    -> b.lock = "L"
      [] o = "owner_dlt" -> b.own = u /\ b.dlt # "owner"
      [] o = "user_dlt"  -> b.own = u /\ b.dlt = "owner"
      [] o \in {"set_email", "clear_email"} -> b.own = u

(* The error returns of the handler of each request.                       *)
Permitted(o, u, b) ==
    CASE o = "extend"    -> b.ext < ExtendMax /\ b.time # 0
      [] o = "lock"      -> b.lock = "u"
      [] o = "unlock"    -> b.lock = "L"
      [] o = "owner_dlt" -> b.own = u /\ b.dlt # "owner"
      [] o = "user_dlt"  -> b.own = u /\ b.dlt = "owner"
      [] o \in {"set_email", "clear_email"} -> b.own = u

(* extend_big_file: n days, and w more when the last is on a weekend.      *)
Extended(b, n, w) == [b EXCEPT !.ext = b.ext + n, !.time = b.time + n + w]

(* Mutants: the extension of a request alone is bounded; lock_big_file     *)
(* writes a flag nobody knows.                                             *)
ModifiedUnbounded(o, u, b) ==
    LET c == [b EXCEPT !.own = u] IN
    IF o = "extend"
      THEN {Extended(c, n, w) : n \in 1 .. ExtendMax, w \in Weekend}
      ELSE {c}

ModifiedBadFlag(o, u, b) ==
    LET c == [b EXCEPT !.own = u] IN
    IF o = "lock" THEN {[c EXCEPT !.lock = "locked"]} ELSE {c}

(* The contents a request may write; own_id is the requester's, whoever    *)
(* owned the data before.                                                  *)
Modified(o, u, b) ==
    LET c == [b EXCEPT !.own = u] IN
    CASE o = "extend"    -> {Extended(c, n, w) :
                                n \in 1 .. (ExtendMax - b.ext), w \in Weekend}
      [] o = "lock"      -> {[c EXCEPT !.lock = "L"]}
      [] o = "unlock"    -> {[c EXCEPT !.lock = "u"]}
      [] o = "owner_dlt" -> {[c EXCEPT !.dlt = "owner"]}
      [] o = "user_dlt"  -> {[c EXCEPT !.dlt = "no"]}
      [] o = "set_email" -> {[c EXCEPT !.email = TRUE]}
      [] o = "clear_email" -> {[c EXCEPT !.email = FALSE]}

ModifyRead(p, u, o) ==
    /\ announced
    /\ MdPresent
    /\ Permitted(o, u, md.body)
    /\ Serve(p, u, o, "modify", md.body)
    /\ UNCHANGED <<filevars, got, now, upd, transfer, counted, ghosts>>

ModifyWrite(p) ==
    /\ pc[p] = "modify"
    /\ \E b \in Modified(op[p], user[p], fs[p].body) : WriteMd(p, b)
    /\ Exit(p)
    /\ UNCHANGED <<data, aside, hist, now, upd, transfer, counted, ghosts>>

-----------------------------------------------------------------------------
(***************************************************************************)
(* Retrieval and deletion.                                                 *)
(***************************************************************************)

(* lock_status_check refuses 'l', 'z' and 'L', and nothing else.           *)
Retrievable(b) == b.lock \notin {"l", "z", "L"}

GetRead(p, u, o) ==
    /\ announced
    /\ MdPresent
    /\ Retrievable(md.body)
    /\ Serve(p, u, o, "get_open",
             [md.body EXCEPT !.dlt = IF o = "getdlt" /\ @ # "owner" THEN "yes" ELSE @])
    /\ UNCHANGED <<filevars, got, now, upd, transfer, counted, ghosts>>

GetOpen(p) ==
    /\ pc[p] = "get_open"
    /\ data # "absent"                         \* otherwise return_non_err: Die
    /\ got' = [got EXCEPT ![p] = data]
    /\ Goto(p, "get_send")
    /\ UNCHANGED <<filevars, op, user, fs, now, upd, transfer, counted, ghosts>>

(* The client acknowledged the data and got the success reply.             *)
GetDone(p) ==
    /\ pc[p] = "get_send"
    /\ IF fs[p].body.dlt = "yes"
         THEN Goto(p, "unlink_md") /\ UNCHANGED <<op, user, fs, got>>
         ELSE Exit(p)
    /\ UNCHANGED <<filevars, now, upd, transfer, counted, ghosts>>

DeleteRead(p, u) ==
    /\ announced
    /\ MdPresent
    /\ md.body.dlt = "owner" => md.body.own = u
    /\ Serve(p, u, "dlt", "unlink_md", md.body)
    /\ UNCHANGED <<filevars, got, now, upd, transfer, counted, ghosts>>

UnlinkMd(p) ==
    /\ pc[p] = "unlink_md"
    /\ md' = NoMd
    /\ removed' = IF MdPresent THEN "user" ELSE removed
    /\ Goto(p, "unlink_data")
    /\ UNCHANGED <<data, aside, hist, op, user, fs, got, now, upd, transfer, counted,
                   form, announced, owner, due, several, remade, cut, zipped,
                   received, acked>>

(* Mutant: the data file is forgotten.                                     *)
UnlinkDataForgotten(p) ==
    /\ pc[p] = "unlink_data"
    /\ removed' = IF received THEN "all" ELSE "user"
    /\ Exit(p)
    /\ UNCHANGED <<md, data, aside, hist, now, upd, transfer, counted, form,
                   announced, owner, due, several, remade, cut, zipped, received,
                   acked>>

(* disk_index is 0 in a blank file's copy and may name another disk.       *)
UnlinkData(p) ==
    /\ pc[p] = "unlink_data"
    /\ data' \in IF OtherDisk(p) THEN {data, "absent"} ELSE {"absent"}
    /\ removed' = IF received THEN "all" ELSE "user"
    /\ Exit(p)
    /\ UNCHANGED <<md, aside, hist, now, upd, transfer, counted, form, announced,
                   owner, due, several, remade, cut, zipped, received, acked>>

-----------------------------------------------------------------------------
(***************************************************************************)
(* trans1step_zip.  The client has its reply before the lock 'z' is set;   *)
(* "mv ...; gzip ..." runs in a shell; the metadata is then read again and *)
(* written with lock 'u'.                                                  *)
(***************************************************************************)
ZipRead(p, u) ==
    /\ announced
    /\ MdPresent
    /\ Retrievable(md.body)
    /\ ~md.body.small
    /\ Serve(p, u, "zip", "zip_lock", md.body)
    /\ zipped' = TRUE
    /\ UNCHANGED <<filevars, got, now, upd, transfer, counted, form, announced, owner,
                   due, several, remade, cut, received, acked, removed>>

ZipLock(p) ==
    /\ pc[p] = "zip_lock"
    /\ WriteMd(p, [fs[p].body EXCEPT !.own = user[p], !.lock = "z"])
    /\ Goto(p, "zip_move")
    /\ UNCHANGED <<data, aside, hist, op, user, fs, got, now, upd, transfer, counted, ghosts>>

ZipMove(p) ==
    /\ pc[p] = "zip_move"
    /\ \/ UNCHANGED <<data, aside>> /\ (data = "absent" \/ OtherDisk(p))
       \/ data # "absent" /\ data' = "absent" /\ aside' = data
    /\ Goto(p, "zip_gzip")
    /\ UNCHANGED <<md, hist, op, user, fs, got, now, upd, transfer, counted, ghosts>>

(* gzip writes KEY.gz and then unlinks KEY.                                *)
ZipCompress(p) ==
    /\ pc[p] = "zip_gzip"
    /\ IF aside = "absent" THEN UNCHANGED data ELSE data' = "partial"
    /\ Goto(p, "zip_rest")
    /\ UNCHANGED <<md, aside, hist, op, user, fs, got, now, upd, transfer, counted, ghosts>>

ZipFinish(p) ==
    /\ pc[p] = "zip_rest"
    /\ data' = IF data = "partial" THEN "whole" ELSE data
    /\ aside' = "absent"
    /\ Goto(p, "zip_reread")
    /\ UNCHANGED <<md, hist, op, user, fs, got, now, upd, transfer, counted, ghosts>>

(* stat of KEY.gz, then read_big_file: either may fail, see Die.           *)
ZipReread(p) ==
    /\ pc[p] = "zip_reread"
    /\ data # "absent"
    /\ MdPresent
    /\ fs' = [fs EXCEPT ![p] = [ino |-> md.ino, body |-> md.body]]
    /\ Goto(p, "zip_unlock")
    /\ UNCHANGED <<filevars, op, user, got, now, upd, transfer, counted, ghosts>>

ZipUnlock(p) ==
    /\ pc[p] = "zip_unlock"
    /\ WriteMd(p, [fs[p].body EXCEPT !.own = user[p], !.lock = "u", !.small = TRUE])
    /\ Exit(p)
    /\ UNCHANGED <<data, aside, hist, now, upd, transfer, counted, ghosts>>

-----------------------------------------------------------------------------
(***************************************************************************)
(* cron_dlt_all: cron_dlt_files over the data directories, then            *)
(* dlt_empty_global_files, then dlt_history_files.                         *)
(***************************************************************************)
CronStart(p) ==
    /\ \A q \in Procs : op[q] # "cron"
    /\ Serve(p, NoUser, "cron", "cron_data", Blank)
    /\ upd' = now
    /\ UNCHANGED <<filevars, got, now, transfer, counted, ghosts>>

(* read_cron_file.  On an empty file sscanf leaves in fs what the previous *)
(* file of the directory put there, expired or not.                        *)
CronSeesExpired == IF md.body = Blank THEN BOOLEAN ELSE {Expired(md.body)}

CronData(p) ==
    /\ pc[p] = "cron_data"
    /\ \/ /\ data = "absent" /\ aside = "absent"   \* readdir does not meet it
          /\ Goto(p, "cron_md")
       \/ /\ ~(data = "absent" /\ aside = "absent")
          /\ \/ ~MdPresent /\ Goto(p, "cron_data_unlink")
             \/ MdPresent /\ \E e \in CronSeesExpired :
                    Goto(p, IF e THEN "cron_expired" ELSE "cron_md")
    /\ UNCHANGED <<filevars, op, user, fs, got, now, upd, transfer, counted, ghosts>>

CronUnlinkExpired(p) ==
    /\ pc[p] = "cron_expired"
    /\ md' = NoMd
    /\ removed' = IF MdPresent THEN "cron" ELSE removed
    /\ Goto(p, "cron_data_unlink")
    /\ UNCHANGED <<data, aside, hist, op, user, fs, got, now, upd, transfer, counted,
                   form, announced, owner, due, several, remade, cut, zipped,
                   received, acked>>

CronUnlinkData(p) ==
    /\ pc[p] = "cron_data_unlink"
    /\ data' = "absent" /\ aside' = "absent"
    /\ Goto(p, "cron_md")
    /\ UNCHANGED <<md, hist, op, user, fs, got, now, upd, transfer, counted, ghosts>>

(* Mutant: only metadata without content is deleted.                       *)
CronEmptyOnly(p) ==
    /\ pc[p] = "cron_md"
    /\ Goto(p, IF MdPresent /\ md.body = Blank THEN "cron_md_unlink" ELSE "cron_hist")
    /\ UNCHANGED <<filevars, op, user, fs, got, now, upd, transfer, counted, ghosts>>

(* dlt_empty_global_files: metadata without content, or without data.      *)
CronEmpty(p) ==
    /\ pc[p] = "cron_md"
    /\ Goto(p, IF MdPresent /\ (md.body = Blank \/ data = "absent")
                 THEN "cron_md_unlink" ELSE "cron_hist")
    /\ UNCHANGED <<filevars, op, user, fs, got, now, upd, transfer, counted, ghosts>>

CronUnlinkMd(p) ==
    /\ pc[p] = "cron_md_unlink"
    /\ md' = NoMd
    /\ removed' = IF MdPresent THEN "cron" ELSE removed
    /\ Goto(p, "cron_hist")
    /\ UNCHANGED <<data, aside, hist, op, user, fs, got, now, upd, transfer, counted,
                   form, announced, owner, due, several, remade, cut, zipped,
                   received, acked>>

CronHistory(p) ==
    /\ pc[p] = "cron_hist"
    /\ hist' = IF hist <= upd THEN 0 ELSE hist
    /\ Exit(p)
    /\ UNCHANGED <<md, data, aside, now, upd, transfer, counted, ghosts>>

-----------------------------------------------------------------------------
(***************************************************************************)
(* A handler may end at any step: an open or stat fails, the client's      *)
(* connection drops (shut_down exits the process), or the child is killed. *)
(* What it wrote stays.                                                    *)
(***************************************************************************)
Die(p) ==
    /\ ~Idle(p)
    /\ op[p] # "cron"
    /\ Exit(p)
    /\ UNCHANGED <<filevars, now, upd, transfer, counted, ghosts>>

Tick ==
    /\ now < MaxTime
    /\ now' = now + 1
    /\ UNCHANGED <<filevars, procvars, upd, transfer, counted, ghosts>>

Init ==
    /\ md = NoMd /\ data = "absent" /\ aside = "absent" /\ hist = 0
    /\ now = 1 /\ upd = 0
    /\ pc = [p \in Procs |-> "idle"]
    /\ op = [p \in Procs |-> "none"]
    /\ user = [p \in Procs |-> NoUser]
    /\ fs = [p \in Procs |-> NoMd]
    /\ got = [p \in Procs |-> "absent"]
    /\ transfer = "no" /\ counted = FALSE
    /\ form = "none" /\ announced = FALSE /\ owner = NoUser
    /\ due = 0 /\ several = FALSE /\ remade = FALSE /\ cut = FALSE /\ zipped = FALSE
    /\ received = FALSE /\ acked = FALSE /\ removed = "none"

UploadStep(p) ==
    \/ PutWriteMd(p) \/ PutParse(p) \/ PutOpenSerial(p) \/ PutOpenParallel(p)
    \/ PutReceive(p) \/ PutCheckPass(p) \/ PutCheckFail(p) \/ PutDrop(p)
    \/ PutTruncate(p) \/ PutFinal(p) \/ PutHistory(p) \/ PutMsg(p)
    \/ BlockOpen(p) \/ BlockWrite(p) \/ AckPass(p) \/ AckFail(p) \/ OneStepMove(p)

RequestStep(p) ==
    \/ ModifyWrite(p)
    \/ GetOpen(p) \/ GetDone(p) \/ UnlinkMd(p) \/ UnlinkData(p)
    \/ ZipLock(p) \/ ZipMove(p) \/ ZipCompress(p) \/ ZipFinish(p)
    \/ ZipReread(p) \/ ZipUnlock(p)

CronStep(p) ==
    \/ CronData(p) \/ CronUnlinkExpired(p) \/ CronUnlinkData(p) \/ CronEmpty(p)
    \/ CronUnlinkMd(p) \/ CronHistory(p)

Arrive(p, u) ==
    \/ PutStart(p, u) \/ BlockStart(p, u) \/ AckStart(p, u) \/ OneStepStart(p, u)
    \/ \E o \in Modifies : ModifyRead(p, u, o)
    \/ \E o \in {"get", "getdlt"} : GetRead(p, u, o)
    \/ DeleteRead(p, u) \/ ZipRead(p, u)

Next ==
    \/ \E p \in Procs : \/ \E u \in Users : Arrive(p, u)
                        \/ CronStart(p)
                        \/ UploadStep(p) \/ RequestStep(p) \/ CronStep(p) \/ Die(p)
    \/ Tick

Spec == Init /\ [][Next]_vars

(***************************************************************************)
(* Fairness.  A child that is not killed runs on; cron_dlt_all is started  *)
(* every day from a crontab, in whatever child of the server is free, and  *)
(* runs to its end; time passes.                                           *)
(***************************************************************************)
Fairness ==
    /\ \A p \in Procs :
           WF_vars(UploadStep(p) \/ RequestStep(p) \/ CronStep(p) \/ Die(p))
    /\ SF_vars(\E p \in Procs : CronStart(p))
    /\ WF_vars(Tick)

FairSpec == Spec /\ Fairness
-----------------------------------------------------------------------------
Positions == {"idle", "put_md", "put_parse", "put_open", "put_rcv", "put_check",
    "put_drop", "put_trunc", "put_final", "put_hist", "put_msg", "blk_open",
    "blk_write", "ack_check", "u1_move", "modify", "get_open", "get_send",
    "unlink_md", "unlink_data", "zip_lock", "zip_move", "zip_gzip", "zip_rest",
    "zip_reread", "zip_unlock", "cron_data", "cron_expired", "cron_data_unlink",
    "cron_md", "cron_md_unlink", "cron_hist"}

Ops == Modifies \cup {"none", "put", "block", "put_ack", "upload1", "get",
                      "getdlt", "dlt", "zip", "cron"}

MdFile == [ino : Nat, body : Body]

(* Every variable has the values the code can give it.                     *)
TypeOK ==
    /\ md \in MdFile /\ data \in Contents /\ aside \in Contents
    /\ hist \in Nat /\ now \in Nat /\ upd \in Nat
    /\ pc \in [Procs -> Positions]
    /\ op \in [Procs -> Ops]
    /\ user \in [Procs -> Users \cup {NoUser}]
    /\ fs \in [Procs -> MdFile]
    /\ got \in [Procs -> Contents]
    /\ transfer \in {"no", "parallel", "acked"} /\ counted \in BOOLEAN
    /\ form \in {"none", "serial", "parallel", "onestep"} /\ announced \in BOOLEAN
    /\ owner \in Users \cup {NoUser} /\ due \in Nat
    /\ several \in BOOLEAN /\ remade \in BOOLEAN /\ cut \in BOOLEAN /\ zipped \in BOOLEAN
    /\ received \in BOOLEAN /\ acked \in BOOLEAN
    /\ removed \in {"none", "user", "cron", "all"}

(* Once its keyword is known, an item whose lock flag is not 'l' has been  *)
(* received and checked: no request in flight lifts the transfer lock that *)
(* put_big_file set, whatever copy of the metadata it writes back.  The    *)
(* exception is an audit that took the metadata before the description was *)
(* appended: data_log makes them again with no flag at all, and they get   *)
(* another one early from a zip and from nothing else.                     *)
NoEarlyRelease ==
    announced /\ MdPresent /\ md.body.lock # "l"
        => received \/ (remade /\ (md.body.lock = "0" \/ zipped))

(* A retrieval never sends the bytes of an upload that is not complete.    *)
(* The exceptions: data that put_ack itself cut to its client's count; a   *)
(* get that read metadata which data_log had made anew; a parallel upload  *)
(* removed under the get, whose late block makes the data file again; a    *)
(* get that had read the metadata before a zip began, and opens the file   *)
(* that gzip is writing.                                                   *)
GetsWholeData ==
    \A p \in Procs :
        /\ pc[p] = "get_send" /\ ~zipped /\ ~cut
        /\ remade => fs[p].body.lock # "0"
        /\ transfer = "no" \/ removed = "none"
        => got[p] = "whole"

(* Once a user's deletion, direct or by a get with deletion, of data that  *)
(* had been received is over, nothing makes the item retrievable again,    *)
(* although put_trans_file_ack may create the metadata a second time and   *)
(* other handlers still hold copies of it to write back.  It is about      *)
(* serial and 1-step uploads that no zip touched: after a deletion between *)
(* the check of DBPUT_ACK and its fopen "w", a late block makes the data   *)
(* again, and the file that a zip has aside survives the deletion.  A      *)
(* deletion that read metadata made anew by data_log may look for the data *)
(* on the wrong disk, while the upload is still to write its metadata.     *)
Available == MdPresent /\ Retrievable(md.body) /\ data # "absent"

DeletedStaysDeleted ==
    [][removed = "all" /\ transfer = "no" /\ ~zipped /\ ~remade /\ ~Available
            => ~Available']_vars

(* An upload that was reported as successful can be retrieved, or was      *)
(* locked by a user, until somebody removes it.                            *)
AckedIsRetrievable ==
    acked /\ removed = "none"
        => MdPresent /\ md.body.lock \in {"u", "L"} /\ data = "whole"

(* An upload that was acknowledged and that nobody zips is safe.  It has   *)
(* metadata, and all its data unless put_ack cut them, until somebody      *)
(* removes the metadata: no failed check, late block, retry or death takes *)
(* them away (a 1-step upload has its data before its metadata, and audits *)
(* may take those for an orphan: the run audit_race).  And an audit that   *)
(* looks at it, however late its own steps follow, decides against it only *)
(* when it has expired: no request writes it back with contents that the   *)
(* audits take for an abandoned file.                                      *)
Condemned(p) ==
    /\ pc[p] \in {"cron_data", "cron_md"}
    /\ pc'[p] \in {"cron_expired", "cron_data_unlink", "cron_md_unlink"}

AckedIsSafe ==
    [][acked /\ ~zipped =>
         /\ form # "onestep" /\ removed = "none"
              => MdPresent /\ (data = "whole" \/ (cut /\ data = "partial"))
         /\ MdPresent /\ data # "absent" /\ (\E p \in Procs : Condemned(p))
              => Expired(md.body)]_vars

(* All extensions of an item together stay within timeout_extension days   *)
(* and the weekends, whichever requests race (extend_big_file's two        *)
(* checks); for an upload in parallel blocks, within twice as many: it can *)
(* be extended before its DBPUT_ACK, whose handler keeps the time that it  *)
(* reads and starts the count at 0 again.                                  *)
Rounds == IF form = "parallel" THEN 2 ELSE 1

ExtensionBound ==
    MdPresent => \A w \in Weekend :
        (\A v \in Weekend : v <= w)
            => md.body.time <= due + Rounds * ExtendMax * (1 + w)

(* own_id names the user who uploaded the data.                            *)
OwnerIsUploader ==
    announced /\ MdPresent /\ md.body # Blank => md.body.own = owner

(* With several recipients, a plain get never deletes the data, whatever   *)
(* flag the uploader asked for (put_big_file.c:305).  A parallel upload is *)
(* excepted: its DBPUT_ACK reads the flag back from the metadata written   *)
(* before the recipients were known.  So is a zipped item: a request that  *)
(* read those metadata may write them back under a zip, which reads them   *)
(* again and lifts their lock.                                             *)
SharedDataKept ==
    [][\A p \in Procs : pc[p] = "get_send" /\ op[p] = "get" /\ several
                         /\ transfer = "no" /\ ~zipped => pc'[p] # "unlink_md"]_vars

(* Whoever lifts the retrieval lock 'L' from the metadata is an unlock     *)
(* request, or a request that changes something else and had read the      *)
(* metadata before the lock was set: no handler clears a lock it has seen. *)
(* It is about items that are not zipped: zip_big_file writes 'z' and 'u'  *)
(* over whatever flag it finds.                                            *)
LockLiftedKnowingly ==
    [][MdPresent /\ md.body.lock = "L" /\ ~zipped
       /\ md'.ino = md.ino /\ md'.body.lock # "L"
            => \E p \in Procs :
                   /\ pc[p] = "modify" /\ pc'[p] = "idle"
                   /\ op[p] = "unlock" \/ fs[p].body.lock # "L"]_vars

(* The audits remove an acknowledged item only when it has expired.        *)
AuditsSpareLive ==
    [][acked /\ MdPresent /\ data # "absent"
       /\ (\E p \in Procs : op[p] = "cron" /\ pc'[p] # pc[p])
       /\ (md' = NoMd \/ data' = "absent") => Expired(md.body)]_vars

(* Whatever is abandoned half way, by a client or a child that dies, the   *)
(* audits remove in the end: metadata, data, the zip's copy and history.   *)
AllPurged ==
    <>[](~MdPresent /\ data = "absent" /\ aside = "absent" /\ hist = 0)
=============================================================================
