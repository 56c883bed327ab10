# A TLA+ model of Transcend / InterCom

`tran` is a file repository and its clients: `trans` uploads a file, directory
or set of files to a server and gets a *keyword*; whoever knows the keyword can
retrieve the data until it expires.  Transcend is the internal server, InterCom
the variant with customers, approvals and encryption; both are one C code base
that forks a process per connection and keeps most of its state in files.
Nothing in the handlers of an item takes a lock on these files, the transfers
of large files are spread over ten processes on each side that share a table of
counts, and what is kept in the data base is read, decided on and written back
by processes and daemons that do not know of each other.  That is where the
program can go wrong and where a unit test hardly looks.

## 1. Inventory

| component | code | state it keeps | operations | model |
|---|---|---|---|---|
| Repository item | `src/transcend/{put,get,open}_big_file.c`, `owner_dlt.c`, `src/trans_lib/{rcv_file,dlt_big_file,mod_big_file,extend_big_file}.c` | `global_data/KEY` (metadata: owner, deletion flag, lock flag, expiration, extension, e-mail flag, sizes), `data_filesN/KEY.gz`, `KEY.history` | upload, retrieve (with deletion), delete, lock/unlock, delete lock, extend, e-mail flag | `Repository` |
| 1-step transfers | `src/trans_lib/trans1step_*.c` | the same files, plus `KEY` without suffix while `gzip` runs | upload by rename, zip | `Repository` |
| Daily audits | `src/trans_lib/cron_dlt_files.c`, `dlt_empty_global_files.c`, `dlt_history_files.c` | directory listing and one item at a time | delete expired and orphan data, empty metadata, history | `Repository` |
| Parallel upload | `src/client/parallel_put.c`, `trans_block_put.c`, `shared_memory_as_mapped_file.c`; `src/trans_lib/put_parallel_data.c`, `block_put.c`, `shared_memory.c` | a table of ten slots (size, checksum, finished) on each side; the data file | send a block with retries, poll, acknowledge, check, truncate or delete | `ParallelPut` |
| Separate upload | the same files: `rcv_separate`, `trans_separate_block_put` | one shared slot per side that every block adds to | one child per block, in sequence | `SeparateTransfer` |
| Parallel download | `src/client/parallel_get.c`, `trans_block_get.c`; `src/trans_lib/get_parallel_data.c`, `block_get.c` | tables as above | blocks with retries, verification, deletion after it | `ParallelGet` |
| Layout of blocks | `parallel_put.c`, `get_parallel_data.c` | none | number, size and offset of the blocks | `BlockLayout` |
| Form of a transfer | `src/client/trans_put.c`, `trans_get.c`, `process_request.c`, `get_big_file.c` | request type, `par5`, deletion flag | client proposes, server chooses, client follows | `TransferForm` |
| Line files, lock files | `src/server_lib/lock_file.c`, `src/trans_lib/keyword_read.c`, `dlt_keyword_entries.c`, `src/reg_lib/add_site_entry.c` | line files, `*.lock` with a pid | append, rewrite under the lock, steal a lock | `LockedFile` |
| Secure keywords | `src/server_lib/create_secure_keyword.c`, `src/trans_lib/send_secure_keyword.c`, `lookup_keyword.c` | `dt_keyword_mapping`, a file per keyword | create with bounded draws, mail, look up, drop | `SecureKeyword` |
| Search for a server | `src/client/ssl_init.c`, `src/trans_lib/keyword.c` | the list of servers already contacted | connect, be redirected, try the next one | `Failover` |
| Daemon | `src/trans_lib/ssl_server.c`, `company.c`, `src/server_lib/sql_destinations_mapping.c` | the table of destinations | accept, reload, fork, answer | `Listener` |
| Approval of customers | `src/trans_lib/trans_sql_lib.c`, `src/intercom/send_secure_keyword.c`, `src/scripts/edc_daemon_{notify,inbox}.py` | `edc.requests`, `proceedings`, a lock file | request, approve, mail, read replies | `Approval` |
| Expiration calendar | `dlt_time_calc.c` | none | working days to a time | - |
| Trust table, user registry | `src/reg_lib` | line files | look-ups, registration | - |
| LDAP, SQL logging, TransWeb | `src/ldap`, `src/server_lib/*sql*`, `src/trans_lib/transweb*.c` | external services | look-ups, logging | at the edges |
| Client front end, helpers | `src/client/*.c`, `src/trans_lib` | `.transrc`, command line | one process, one request at a time | - |

**How they interact.**  A client request is one connection, one server child,
one pass through `process_request`.  Children share nothing but files: metadata,
data and history of an item, the line files, System V shared memory during
a transfer in blocks, and the data base.  A parallel upload is *twelve*
connections: the upload itself (its child exits once the metadata and the data
file exist), ten blocks, and `DBPUT_ACK`.  Between them only the metadata file
remembers the upload.  The audits are requests too, sent by `cron`.  InterCom's
server processes queue requests for approval in a table that two Python
daemons, started by `cron`, work off by mail.

**What is hard.**  Read the metadata, decide, write all of it back, without a
lock; an `fopen "w"` that empties the file some time before it is filled; an
open handle to a file that another child unlinks; a child that dies between two
files; retries of a block whose first server child still runs; two tables read
slot by slot; an acknowledgement that overtakes the last block; loops that wait
for a count; a lock file that is tested and then created; a row that is mailed
from a copy; a reply that comes when the row is somebody else's.
`PROJECT.json` lists these hazards at their lines.

**What makes each part correct.**

* Item: nobody can retrieve data that was not received and checked; what was
  acknowledged stays retrievable until a user or the expiration removes it;
  what was deleted stays deleted; no handler lifts a lock it has seen except
  unlock; extensions are bounded; only the uploader is the owner; abandoned
  pieces go in the end.
* Transfers: what is accepted is complete; a clean transfer is accepted; data
  are deleted only after they were delivered; both sides run the same form of
  transfer, over a layout without gaps; both sides come to an end.
* Line files: an update that was reported is there; a dead holder stops nobody.
* Keywords: a keyword leads to its item and to no other, also without the data
  base; the number of draws is bounded.
* Search: the server that has the data is found; the search ends.
* Daemon: requests are served with a recent table.
* Approval: only the manager of somebody who asked approves; what is queued is
  mailed and leaves the queue.

## 2. Modules and plan

| module | content |
|---|---|
| `Repository`, `MCRepository`, `MCScenarios`, `RepositoryProofs`, `RepositorySafety` | one item, every handler that changes it, the audits |
| `TransferPromise` | abstract specification of an upload in blocks, refined by the next two |
| `ParallelPut`, `MCParallelPut`, `ParallelPutProofs` | client children, server children, client's parent, `put_ack` |
| `SeparateTransfer` | the sequential transfer with one shared slot |
| `ParallelGet` | retrieval in blocks, verification, deletion |
| `BlockLayout`, `BlockLayoutProofs` | the arithmetic of both layouts, block by block |
| `TransferForm`, `TransferFormProofs` | how both sides settle the form and the deletion flag |
| `LockedFile` | lock files and the rewriting of line files |
| `SecureKeyword`, `SecureKeywordProofs` | issue, look-up and dropping of secure keywords |
| `Failover` | the client's search for a server |
| `Listener` | accept, reload, fork, serve |
| `MCServices`, `ServicesProofs` | composition of the small parts for one run; what is proved of `SeparateTransfer`, `ParallelGet`, `LockedFile`, `Listener`, `Failover` and of the composition |
| `Approval`, `MCApproval`, `ApprovalProofs` | requests, approvals, the two mail daemons |

Still planned, in this order: the expiration calendar against a day-by-day
reference; the trust table (its rewrite is not locked, and the entry is found by
a prefix match); what the handlers of InterCom do differently on an item; the
composition of `ParallelGet` with the deletions of `Repository`.

## 3. Repository

One item.  `md` is the metadata file: `ino` names the inode (0: no file; a new
file gets a new number, so that a write through an old handle changes nothing
that the name leads to) and `body` the fields that handlers decide on.  `data`,
`aside` and `hist` are the other files of the item.  Each process has its
position `pc`, the request `op`, the requester `user` and `fs`, the copy that
`read_big_file` leaves in the global `fs` together with the handle it keeps open.
`got` is what a retrieval found in the data file when it opened it.  The
shared memory of a transfer in blocks is `transfer` and `counted` (every slot has
its count).  The remaining variables record history for the properties (`owner`,
`due`, `several`, `remade`, `cut`, `received`, `acked`, `removed`, ...).

The step of the model is the single file operation, because that is what
processes interleave at:

| code | actions |
|---|---|
| `put_big_file`, `put_trans_file_ack` | `PutStart` (fopen "w": empties or creates), `PutWriteMd` (fclose), `PutParse`, `PutOpenSerial` / `PutOpenParallel`, `PutReceive`, `PutCheckPass` / `PutCheckFail`, `PutDrop`, `PutTruncate`, `PutFinal`, `PutHistory`, `PutMsg` |
| `block_put`, `put_ack` | `BlockStart`, `BlockOpen`, `BlockWrite`, `AckStart`, `AckPass`, `AckFail` |
| `trans1step_upload`, `trans1step_zip` | `OneStepStart`, `OneStepMove`; `ZipRead` ... `ZipUnlock` |
| `extend_big_file`, `mod_email_big_file`, `lock_big_file`, `unlock_big_file`, `owner_dlt`, `user_dlt` | `ModifyRead` (read, with the permission and state checks of `Permitted`), `ModifyWrite` (rewind and write everything) |
| `get_big_file`, `send_file` | `GetRead`, `GetOpen`, `GetDone` |
| `dlt_big_file` | `DeleteRead`, `UnlinkMd`, `UnlinkData` |
| `cron_dlt_files`, `dlt_empty_global_files`, `dlt_history_files` | `CronStart`, `CronData`, `CronUnlinkExpired`, `CronUnlinkData`, `CronEmpty`, `CronUnlinkMd`, `CronHistory` |
| `shut_down`, a killed child, a client that goes away | `Die`, at every position |

Three things are easy to miss in this code.  `put_big_file` appends the description
with `data_log`, which opens the metadata *by name*: if an audit has taken the empty
file since it was created, the append makes another one, whose first line is
`Description:` and which therefore has no lock flag, no owner and no expiration that
anybody can read (`PutParse`, recorded in `remade`).  `put_ack` cuts a file that is
longer than the client's count and accepts it (`AckPass`, recorded in `cut`; the run
`truncated_upload` shows how the count comes to be too small).  And who reads
metadata without a first line has a disk index of 0, or none at all, and may work on
a file of another disk (`OtherDisk`).

Abstractions: the data file is absent, partial or whole; days instead of
seconds; of the metadata's lines only those that decide something.  Left out:
the superuser, items with expiration 0 (never expires), the InterCom-only lines,
replies, mail, logs.

## 4. Transfers in blocks

**`TransferPromise`** is what an upload in blocks promises, with four variables:
the blocks in the file, whether the client counted every byte, the server's
decision, the answer to the user.  `Store`, `Tally`, `Cut`, `Accept`, `Discard`,
`Tell` are its steps: an accepted upload that was counted in full has every
block with data, a rejected one leaves nothing, the verdict is final, a success
is told only after it.  `ParallelPut` and `SeparateTransfer` implement it
(`KeepsPromise`, `SepKeepsPromise`; the refinement mappings are the `INSTANCE ...
WITH` at their ends), the first one also by a proof.

**`ParallelPut`.**  Per block `b` a client child (`cpc`, `try`, `sent`, `down`) with
its slot `cslot[b]` of the client's table; per block *and attempt* a server child
`spc[b][t]`, because the server child of a given-up attempt goes on; the server's
table `sslot`; `written`, the blocks in the data file; the client's parent `par`,
with its sums of the current pass over the table and its stall check `cnt`, `wrn`,
`old`; `put_ack` as `ack` with its sums, and the `outcome`.  Lengths are in chunks
of 4096 bytes and checksums are `n * Weight[b]`, so that equal sums of different
blocks are possible.  `Report` stands for the 100 chunks between two progress
reports, `Limit` for the 20 polls between two looks at the progress, `Tries` for
3.  `ChildInit` ... `ChildLost` are the steps of `trans_block_put`, `Again` its retry
loop, `BlockInit` ... `BlockDie` those of `block_put` (the slot's size and checksum are
two writes), `PollSlot` ... `ParentEnd` the loop of `trans_parallel_put`, `AckStart` ...
`AckCheck` those of `put_ack` (the table is read slot by slot).  Faults are `Drop` (a
connection breaks at any point), `Kill` (a client child dies) and `AckDie` (the
acknowledgement's connection breaks), `MaxFaults` together.  Not modelled: a
failing `lseek` or disk (the same path as `ChildNoServer`), a stranger's process
on the same shared memory key, the segment that `shared_memory_release` leaves.

**`SeparateTransfer`.**  The client's parent (`sender`) forks one child after the
other and waits for it; each attempt has a server child (`wchild[b][t]`) that
receives its block and then adds size, checksum and one finished block to the
shared slot `smem`: three unlocked additions, each a load and a store
(`WriterLoad`, `WriterStore`), so that a lost update is a behaviour.  `rcv_separate`
(`waiter`) reads the slot field by field (`WaitSum`, `WaitSize`, `WaitFin`) until every
block is counted, then compares.  The current client never asks for a separate
upload (`transfer_type` is never `DBPUT_SEPARATE`), the server serves it all the
same; partial writes of a block are left out.

**`ParallelGet`.**  A client child per block and a server child per attempt, both
counting in tables; the server waits until all slots are finished, the client
until all are or the sizes add up (`GServSlot`, `GPollSlot` read one slot at a time);
the client's totals are verified and a retrieval with deletion unlinks the data
(`GServVerify`, `GServUnlink`).  Another request may delete the item under it
(`ServedGone`).  Not modelled: `trans_get_parallel_uncompressed_data` and the loop of a
separate retrieval; `DBGETDLT_PARALLEL` and `DBPUT_RANDOM_PARALLEL` are never
dispatched by the server (`BAD_REQ_TYPE`).

**`BlockLayout`.**  The number of blocks, their pages and their distance as client
and server compute them, in the server's `unsigned int` (`Word`), and then the
blocks one by one (`MoveBlock`), each from its offset page by page to its last page
or the end of the file.

**`TransferForm`.**  `ask` is everything the user decides and what the file is like;
the client turns it into a request (`PutType`, `PutName`, `GetType`), the server chooses
(`PutServed`, `GetServed`), the client follows the answer as it understands it
(`Understood`).  `mark` is the deletion flag, in the metadata file and in the memory
of the process.  `KnownMisreading`, `ForgetsDeletion` and `RestoresDeletion` name the
combinations where the code goes wrong (section 8); the properties say that
there is no other.

## 5. Servers, files, keywords, approvals

**`LockedFile`.**  The processes that rewrite one line file: `lock_file_set` and
`lock_file_wait` system call by system call (`SetLock`, `OldPid`, `LookLock`, `CreateLock`,
`NewPid`, `StealLock`, `WritePid`, `ClearLock`), a pid read from an empty lock file being any
value (uninitialised in the code), then the rewriting (`OpenTable`, `CopyTable`,
`LogLine`, `RenameAside`, `RenameCopy`).  `overlapped` records that two processes were
between lock and unlock at once, which the code cannot exclude: `UpdatesAreKept`
holds for all other behaviours.  `KillUpdater` leaves the lock file (nothing calls
`lock_files_clear`).

**`SecureKeyword`.**  Processes that issue keywords (`Draw` with the data base's unique
key, `DrawExits` for `sql_connect`, `AddLine`, `MailKeyword`), the daily pass
(`UnlinkKeyword`), the end of an item's history, the data base going down and up.
`KeywordLookup` is what a look-up finds: the file first, then the row.

**`Failover`.**  `intermediate_ssl_init`: the first contact, then per pass of the loop
the server a `WRONG_SERVER` answer names or the next entry of the table; the index
moves on once for every earlier contact of the chosen server, as the misplaced
`continue` (`ssl_init.c:279`) does.  Servers stop and start between contacts.  An
unparsable redirection and `BAD_SOCK_OPEN` are left out.

**`Listener`.**  The daemon accepts, looks whether the table is due (`CheckTime`), loads
it, fails to, or exits with `sql_connect` (`LoadTable`, `QueryFails`, `LoadExits`), and forks a
child with its copy; children shake hands, connect to the data base, answer.  A
clock, outages of the data base, failing `accept` and `fork`.

**`Approval`.**  `row[c]` is the row of a customer in `edc.requests`: status, queue flag,
requester, manager; `keys` the digests in `proceedings`.  A process of the server is a
`job`: `Look` and `Check` (the two calls of `sql_approve_check`), `FindManager`, `Insert`
(insert, or the update on a duplicate key that keeps the status), `ReadManager` and
`Approve` for the command line.  Each is one SQL statement, and between them others
run.  A daemon is `Open`, `Lock` / `Refuse` (open and lock of `/tmp/.edc_lock`; `path` is the
file of that name, `fd` the one a daemon holds), then for the notifier `Dequeue`
(the whole queue is read, LDAP asked for each), `SendMail`, `MarkDequeued`, for the
inbox `Search`, `ReadReply`, `Enqueue`, and the end with its unlink.  What LDAP says
is in the constants: requesters are `Staff` (employees), `Contractors` (listed, no
employees) or `Strangers` (not listed), and managers may be `Unlisted` or `Visiting`
(listed, no employees).  `LdapEnds` is where `query_user` or `query_supervisor` exit,
for a stranger or for an employee whose manager is not listed.  `results`, a global
that only an employee's entry overwrites, is a record: `cc` from the requester's
entry, `to` from his manager's (`LdapManager`, `Results`); a contractor's request
keeps both from the row before, that of an employee with a visiting manager keeps
the manager.  The inbox keeps `to` in `daemon[d].mng`.  `Crash` ends a daemon
without unlink; `Reply` and the decisions of the web site come from outside.
Whether LDAP answers the server is a choice.  Domain approvals, the web site's
own pages and the wording of mails are left out.

## 6. Runs

| run | instance | what it shows |
|---|---|---|
| `repository` | a scenario per form of upload, see below | the transfer lock, whole data, no resurrection, shared data kept, extensions bounded, the retrieval lock lifted knowingly, an acknowledged upload safe from all but its removal and its expiration |
| `purge` | 2 processes, serial upload, extension, get with deletion, audits, 4 days, fairness | every abandoned piece is removed |
| `parallel_put` | 2 blocks (3 and 1 chunks), 2 attempts, report every 2 chunks, 1 fault, fairness | `TransferPromise`; accepted and fully counted is complete; clean is accepted (neither length is a multiple of 2, see `early_ack`); the parent ends |
| `services` | eight small parts, one per behaviour, fairness of each | what each of them promises, and that each comes to an end |
| `approval` | 2 customers, 2 employees (one's manager is no employee), a contractor, a customer's own login, 2 processes, both daemons, 2 jobs, 2 replies, a decision on the web site | only a manager approves |
| `approval_mail` | 2 customers, 3 employees (one's manager is no employee, one's is not in LDAP), both daemons, 2 jobs, 1 crash, fairness | what is queued is mailed before it leaves the queue, and leaves it |
| `stuck_transfer` | violation | an extension during the upload undoes its end: acknowledged, never retrievable |
| `owner_rewritten` | violation | any change of the metadata makes the requester the owner |
| `audit_race` | violation | an audit that read truncated metadata deletes a live item |
| `truncated_upload` | violation, 2 faults | lost replies make the server cut a complete file and accept it |
| `early_ack` | violation, no fault | `DBPUT_ACK` overtakes a block that a progress report completed |
| `one_daemon` | violation | the unlink at the end of a run lets two daemons work at once |

**Compositions that are sums.**  In `MCServices` a behaviour belongs to one service
(`focus`), chosen in the initial state; the others stay as they are.  They share no
state in the code either, so nothing is lost.  In `MCScenarios` a behaviour is that of
one `form` of upload, with the requests that may meet it: `serial` with two more
processes beside the upload, among lock, unlock, extend, get and delete, or with the
audits and one more process, and two requests at once when the upload is over; `parallel` with blocks,
`DBPUT_ACK`, lock, unlock, gets with and without deletion and the audits over three
days, two processes at once; `onestep` with zip, extensions of up to two days that
race, or the flags of the owner, and delete.  A serial or parallel upload asks for the
deletion on retrieval: a get that deletes nothing behaves like one that ends before it
unlinks.  The action constraint `Within` holds the bounds of each.

**What `purge` leaves out.**  With 1-step zips among the requests the audits do not
remove everything: a child that dies between the `fopen "w"` of the metadata and
their writing leaves them empty; a zip reads the empty file (lock flag 0, which
`lock_status_check` lets pass) and writes it back with the expiration time 0, which
means never.  The run has the requests for which the promise holds.

**Bounds.**  Every race found in the handlers of an item is one between two
requests; a third process adds the retrieval between them, and is in `serial`, the
richest in handlers that read and write one item.  One item is enough because
no handler touches two.  One user suffices where no property is about ownership;
`owner_rewritten` has two.  Days: upload on day 1, expiration one day later, the
clock to `MaxTime`, so that an item can expire, be extended and lose its history
within a run.  In `ParallelPut` two blocks are needed for one to be complete while
the other fails; the lengths 3 and 1 with a report every 2 give a block that
reports before its end and one that never does.  One fault is enough for a
retry that meets the server child of the first attempt; a block whose every
attempt fails needs two, which is the run `truncated_upload`.  The bounds of
`services` are in `services.cfg`: three separate blocks, the last one empty (an empty
block is counted too) and two attempts; a retrieval of two blocks; two processes
per line file in three mixes of append, prune and change; three servers in the
table, one outside of it, four contacts; two keywords for two requests, so that
every draw may collide; sizes just below, at and above every limit of the layout
and of the form, with a page of 2 bytes and a word of 16 so that the unsigned
arithmetic wraps; three connections over a clock that passes the reload.  In
`approval` two jobs make two requesters of one customer or of two, a request and an
approval, or a request between another's read and write; two replies in one run of
the inbox let the second be compared with the manager the first one left in
`results`, and without its exception `ApprovedByManager` fails there.

**Deadlock** is checked in the two runs of `Approval`; elsewhere it is not: an item
that is gone and a transfer that is over leave the model without steps.

**Fairness.**  A process that runs and is not killed goes on (the kernel schedules
it; a blocked socket ends by its time-out): weak fairness per process in
`Repository`, `ParallelPut`, `SeparateTransfer`, `ParallelGet`, `LockedFile`, `SecureKeyword`,
`Failover` and for the server's processes and running daemons in `Approval`.  The audits
are started again and again, which `cron` does daily: strong fairness of `CronStart`.
So are the daemons: strong fairness of `Lock`, and of `Open` while no daemon runs,
for a run that always comes too late would be no schedule of a crontab.  Arrivals
of user requests, replies and faults are not fair, and `Listener` needs none.

**What liveness excepts.**  `EventuallyAnswered` says "unless a child of the client is
killed": the stall check in `parallel_put.c:125-148` does not reset its counter
after the first look that finds no progress, so `cnt == 20` is never true again and
the parent polls for ever.  `SeparateSettles` and `RetrievalSettles` except failures:
`rcv_separate` waits for a count that may never come (the abort is commented out).
`QueueDrains` excepts a queue with a request of somebody LDAP does not list, or of an
employee whose manager it does not list (`Poisoned`): either ends every run of the
notifier before its first mail.

## 7. Proofs

Every theorem holds for any values of the constants that satisfy the `ASSUME` of
its module, and the further hypothesis named here where there is one.  With them
every invariant and every action property of a passing run, and both
refinements, are proved; the liveness properties are model-checked.

`RepositoryProofs`: `TypeCorrect == Spec => []TypeOK` and `LockHeld == Spec =>
[]NoEarlyRelease`: once the keyword of an upload is known, metadata whose lock flag is
not `l` means that the data were received and checked, or that an audit took the
metadata before `data_log` appended to them: the file it made anew has no flag, until
a zip writes one.  `NoEarlyRelease` alone is
not inductive: a request that read the metadata before may write any copy back
later.  `IInv` adds what makes it so: before the keyword is known only the upload
and the audits are at work (`Quiet`); at most one process is between the first
metadata and the keyword, and there are no metadata before (`OneUpload`); those
metadata are locked (`OpenedLocked`); a copy with another lock flag than `l` was
read when the data had been received, and lock and unlock never hold a copy
with `l` (`CopiesKnow`).  `ParseEffect` and `PassEffect` are the effects of the two steps
that change several fields, one by one.

`RepositorySafety` builds on `IInv` and proves the other promises of an item from
`SafeInv`, one strengthening for each:

* `WholeDataSent` (`GetsWholeData`): the data of a serial or 1-step upload are whole or
  gone once checked (`CheckedInv`); an upload whose metadata nobody removed has them,
  and its data from the moment that all blocks are counted (`SoundInv`).  It excepts
  data that `put_ack` cut; a get that read metadata which `data_log` made anew, which no
  lock protects; an item that was zipped (gzip renames the data under a get that has
  read the metadata); and an upload in blocks that was removed (a late block makes
  its file again).
* `DeletionIsFinal` (`DeletedStaysDeleted`): after a deletion the metadata or the data are
  gone for good (`GoneInv`), for who read metadata without content did so after the
  `fopen "w"` of `put_trans_file_ack`, and no write through an old handle reaches a new
  file (`BlankInv`).  Uploads in blocks and zips are excepted: a deletion between the
  check of `DBPUT_ACK` and its `fopen "w"` leaves the name to be made once more.  So are
  metadata that `data_log` made anew, whose deletion may look on another disk.
* `SharedDataStays` (`SharedDataKept`): a deletion flag from before the recipients were known
  is found under the lock `l` only (`FlagInv`).
* `ExtensionsBounded` (`ExtensionBound`): metadata and copies of them never promise more
  than the grants they count (`Dates`).  The bound is twice as large for an upload in
  blocks, because `put_trans_file_ack` forgets the days granted before (section 8).
* `LockIsRespected` (`LockLiftedKnowingly`): until `put_trans_file_ack` writes `u`, the metadata are
  those with `l` that `put_big_file` wrote (`UnreleasedInv`), so that no upload lifts an `L`.
* `AckedStaySafe` (`AckedIsSafe`): once acknowledged, an upload that nobody zips has no
  uploader left, and its metadata are never again without content (`KeptInv`), because
  every request that writes them has read a record with a lock flag and a time
  (`CopyInv`); so an audit that looks at it finds a time, and decides against it only if
  that has passed (`CondemnedExpired`).  Its data are there, whole unless `put_ack` cut
  them, until somebody removes the metadata (`SoundInv`); a 1-step upload has its data
  before its metadata and may lose them to an audit, the run `audit_race`.

The exceptions were found by attempting the proofs: each is an interleaving that
the strengthening could not exclude and that the code has.

`ParallelPutProofs`, from `ParallelAssumption` (blocks are consecutive and the last
ends the file): `ParallelTypeCorrect`, `AcceptedFilesAreWhole` and
`ParallelKeepsPromise == Spec => KeepsPromise`, the refinement of `TransferPromise`: the
initial states map to its initial states and every step to one of its steps or
a stutter (`PromiseStep`).  The strengthening is `Integrity`: until `put_ack` has looked
at the file, a server child that has counted its block has it in the file and a
slot counts the block or nothing (`SlotsTrue`); what `put_ack` has added up is at most
the offset it has reached, and equal to it only if every block before is in the
file (`SumTrue`); and the order of parent, `put_ack` and outcome (`Phases`).  The checksum
plays no part: the sizes alone force every block.  For the refinement, `Untold`:
nothing is told before there is an outcome.  `CleanTransfersStay` (`CleanIsAccepted`) is
for lengths that no progress report completes (`Unaligned`; for others it is false,
run `early_ack`).  While there is no fault, `Clean` says that each block's two children
keep step (`InStep`), what the two tables hold of it (`OnServer`, `OnClient`), and that a
pass over the client's table that meets all slots finished or all bytes has the
sum of the blocks before it, each counted by the server (`Tally`).

`ServicesProofs` has the theorems about the parts that `services` runs.
`SeparateIsWhole` (`SepAcceptedIsWhole`) and `SeparateKeepsPromise` (`SepKeepsPromise`): whichever
of the unlocked additions are lost, what the shared slot holds as size is the sum of
*some* of the blocks counted (`SumOf`), each counted once (`SepOnce`), so it reaches
the file's size only with every block that has data.
`OnlyDeliveredIsDeleted` (`GetDeletesOnlyDelivered`): the sums of the client's pass are never
more than what lies in its file (`Delivered`).  `CleanRetrievalSucceeds` (`GetCleanSucceeds`)
is for files that are not empty; only files of a minimal size are sent in blocks.
`UpdatesStay` (`UpdatesAreKept`) and `FileComesBack` (`FileIsMissedBriefly`): as long as no two
processes were let in at once, a copy under way has every line of the file
(`AloneKeeps`); `LockAssumption` says that a file of sites is only added to and one of
keywords only rewritten, which is what the callers do.  `TableStaysRecent` (`TableIsRecent`), from what the daemon knows when it forks
(`Fresh`).  `HomeIsFound` (`HomeServes`) and `SkipsAreRepeats` (`SkippedAreRepeats`): a client is on
its way home or has reached nobody (`Homeward`), and its index has passed one entry
for every two contacts of one server (`Skips`, cardinalities of pairs).
`ServicesAreTyped` (`ServicesTypeOK`): a step of the composition is a step of one part and
a stutter of the others (`ServicesAreTheirParts`), so that what is proved of a part holds in
the composition.

`BlockLayoutProofs`: `ParallelLayoutTiles` (ten blocks of a ninth, rounded down to
pages, contain every byte once, for every page size and every file of at least
90 pages, which every path to a parallel transfer guarantees or is configured
to), `PagedLayoutTiles` (separate blocks of whole pages do) and `HolesNeverHide` (for
any block size, blocks whose lengths add up to the file leave nothing out, so
that the comparison of the sizes notices every hole).  The argument is integer
arithmetic on quotients (`Quotient`, `TenBlocksReach`, `SeparateStepIsPages`) and an
invariant of the blocks moved so far.

`SecureKeywordProofs`: `MailedKeywordsAreTrue` and `MailedKeywordsLast`, from `KeywordInv`: a
request past its draw owns the row of its code (`Registered`), a file never says
anything but its row (`FilesFollowRows`), and a keyword to be mailed or mailed has
its file unless an append failed (`Filed`).

`TransferFormProofs`: `SidesAgree` and `DeletionIsAsAsked`, from `FormInv` (what is asked
never changes; position and form of the request fit; both choices are those of
the server's function and of the client's reading of it) and `Deletion` (where the
flag is at each position); and `ParallelOnlyIfCovered`: a parallel transfer is chosen
only for a file that its ten blocks cover, which is what `BlockLayout` assumes.

`ApprovalProofs`: `ApprovalIsTyped` and `OnlyManagersApprove == ApSpec =>
ApprovedByManager`, from `ApprovalInv`: a row has a requester from its insert on and its
manager is his or unknown (`RowSense`), what a process holds fits the customer it
works for (`JobSense`), copies and loaded replies of the daemons were read from rows
that are there (`DaemonSense`), unless a copy's manager was written over another's
row (`crossed`).  The induction rests on `asked` only growing.  `HeadInv` bounds the
exceptions: every manager in a row, a job, a copy, a load or `results` is that of
somebody who asked, or of the requester about to be entered, whatever is written
over what.  `MailsComeFirst` (`DequeuedIsMailed`): a copy that a notifier holds leads an
employee's request to him, and to his manager if that one is an employee
(`LedHome`), and is marked only after it was mailed (`MailSense`).  Nothing is assumed
of LDAP's entries for managers.

Only model-checked: all liveness (`AllPurged`, `EventuallyAnswered`, `SeparateSettles`,
`RetrievalSettles`, `LocksEnd`, `SearchEnds`, `RequestsEnd`, `QueueDrains`), which needs fairness and
ENABLED and is out of the prover's reach.  Induction over data is available for
sets only: `Least` and `UpTo` (a set that has 0 and, with a number, the next one, has
all up to `n`), from the library's facts on well-founded orders, carry the sums over
blocks.

## 8. Divergences met

Kept as runs with a finding: the six violation runs of section 6.  Met on the way
and visible in the models, without a run of their own:

Item.
* `put_big_file.c:305` says "Do not allow deletion after the first retrieval if more
  than one e-mail address specified"; in a parallel upload `put_ack` reads the flag
  back from the metadata written before (`SharedDataKept` excepts it,
  `RestoresDeletion`).
* `get_big_file.c:153` deletes on the flag it read before the transfer, although a
  delete lock may have been set since; two overlapping retrievals with deletion are
  both served, and so are two zips, or a zip and a get (`trans1step_upload.c:236,252`).
* A change of the metadata that overlaps a lock undoes it; so does a zip, which
  writes `z` and `u` over whatever flag it finds, and the end of a 1-step upload that
  was zipped while its metadata were empty.
* `put_trans_file_ack` writes the extension as a literal 0 (`put_big_file.c:399`): days
  granted during a parallel upload are forgotten and may be granted again;
  `trans1step_zip` may write an expiration of 0 back, which means never.
* The history expires with the date of the upload, whatever is extended:
  `history_timestamp_update` (`extend_big_file.c:33`) is never called.
* An audit that takes the metadata between `put_big_file.c:265` and the append at 303
  leaves an upload in progress without a transfer lock: a get may read data that are
  still arriving (`NoEarlyRelease` and `GetsWholeData` except it), and if it is zipped, its
  metadata keep an expiration of 0.
* A deletion during an upload lets `put_trans_file_ack` create the metadata again; a late
  block of a removed parallel upload makes the data file again (`GetsWholeData`).

Transfers.
* The stall check of the parallel upload never fires; `rcv_separate` waits without
  an end for a block that its client gave up (`put_parallel_data.c:345`).
* `KnownMisreading`: a Windows client that asks for separate blocks; Transcend's
  answer to a get with deletion in separate blocks, given with `get_parallel`; a size for
  separate transfers configured above the one for parallel ones; a branch of
  `trans_get_data` on a variable that was not set.
* `-l` or `-r` with a compressed file of at least 5 MiB loses the deletion
  (`ForgetsDeletion`).  `par5` is overwritten with the transfer type
  (`transapi.c:756`), so that the user's block size is never sent; and because only
  the functions of an upload set that type, `transcend/get_big_file.c:91`, which looks
  in `par5` for a parallel get, is never taken (`GetServed` leaves it out).
* A separate download of a compressed file delivers compressed bytes.

Servers and files.
* Whether a lock file is there and its creation are two calls; a pid read from an
  empty lock file is uninitialised; the comment's "has aborted" is a process that was
  slow.
* `TODO.txt:113` says that the table is read every five minutes, `ssl_server.c:36` has
  900 seconds, and a failed query counts as read; `sql_connect` ends the daemon at a
  reload, and so does a failing `accept`; -1 from `fork` is taken for the parent's side.
* The `continue` of `ssl_init.c:279` continues the inner loop; a redirection by the last
  entry of the table is not followed.
* `KEYWORD_FILE` is no longer appended to (`send_secure_keyword.c:276-289` is `#if 0`), and
  `keyword_mod` moves the file away before its copy is in place.

Approvals.
* For a customer with a pending request nothing is entered, and the sender is told
  "Approval request for '%s' sent to your supervisor."
  (`src/intercom/send_secure_keyword.c:444`).
* The insert replaces requester and manager on a duplicate key: the first manager's
  reply is then "Not valid reply!", although his mail said "Replying this email will
  results in Approval of this request" (`edc_daemon_notify.py:128`).
* `mark_dequeued` writes back the manager the row had, 'unknown' included, where its
  comment says "updating manager's coreid according with LDAP" (`:195`).
* A new request for a rejected or revoked customer keeps the status and is never
  mailed; a request of somebody LDAP does not list, or whose manager it does not
  list, stops all notifications (`edc_daemon_notify.py:73,108`); a run of the inbox
  without unseen mail ends without unlinking the lock file.
* Where the entry of a manager or requester is not an 'Employee', the one of the row
  or reply before stays in `results` (`edc_daemon_notify.py:66`,
  `edc_daemon_inbox.py:55`): an employee's request is mailed to another requester's
  manager, and that manager's reply approves it.

## 9. Not modelled

Most of the lines of the repository are headers of vendored libraries (OpenLDAP,
zlib, gcrypt), copies of them for other systems, generated wrappers, the client's
command line and its text, and LDAP, SQL and mail plumbing; none of it keeps state
that processes share, and the models cover a small share of all lines for that
reason.  Within the core: items that never expire and the superuser; the
InterCom-only lines of the metadata; keyword authorisation; the expiration
calendar, whose arithmetic is sequential; the trust table
(`edc_reg.c`: an entry is found by a prefix match, rewritten without a lock through
a temporary file per login, and the result of the addition is ignored); `add_site_entry`
and `dlt_site_entry`, which nothing calls; the random parallel transfer; the AVL tree
and list helpers; domain approvals; signals and process accounting of the daemon.
See the components in `PROJECT.json` for the parts modelled only in part.
