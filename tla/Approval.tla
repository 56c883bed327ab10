------------------------------ MODULE Approval ------------------------------
(***************************************************************************)
(* The approval of external customers.  InterCom's server processes keep a *)
(* row per customer in edc.requests and decide by its status; they queue   *)
(* requests for mail.  edc_daemon_notify.py mails what is queued to the    *)
(* requester and his manager, edc_daemon_inbox.py turns the manager's      *)
(* replies into approvals.  Cron starts both; a file kept locked is to     *)
(* let one of them run at a time.  A row has ONE requester and ONE manager *)
(* and every process works on a copy it read earlier.                      *)
(***************************************************************************)
EXTENDS Naturals, FiniteSets, Sequences, SequencesExt

CONSTANTS
    Customers,      \* external e-mail addresses whose domain is not approved
    Staff,          \* requesters LDAP lists as employees
    Contractors,    \* requesters LDAP lists, but not as employees
    Strangers,      \* requesters LDAP does not list (a customer's own login)
    Manager,        \* the manager of a listed requester
    Unlisted,       \* managers LDAP does not list any more
    Visiting,       \* managers it lists, but not as employees
    Super,          \* the login that may approve anything
    Servers,        \* processes of the InterCom server
    Notifiers,      \* runs of edc_daemon_notify.py
    Inboxes,        \* runs of edc_daemon_inbox.py
    Kinds,          \* the requests made: send, ask, get, approve
    MaxJobs,        \* bound: requests made
    MaxReplies,     \* bound: replies to mails
    MaxDecisions,   \* bound: rejections and revocations on the web site
    MaxCrashes,     \* bound: daemons that end by an error of mail or network
    Unknown

Askers   == Staff \cup Contractors \cup Strangers
Managers == {Manager[p] : p \in Staff \cup Contractors}
People   == Askers \cup Managers \cup {Super}
Daemons  == Notifiers \cup Inboxes
Files    == 0 .. Cardinality(Daemons) + 1
Idle     == [step |-> "idle", kind |-> "ask", who |-> Unknown, customer |-> Unknown,
             mng |-> Unknown]
NoRow    == [status |-> "none", queue |-> FALSE, coreid |-> Unknown, mngid |-> Unknown]
Nothing  == [customer |-> Unknown, coreid |-> Unknown, mngid |-> Unknown, by |-> Unknown]

ASSUME ApprovalAssumption ==
    /\ Manager \in [Staff \cup Contractors -> Managers]
    /\ Unlisted \subseteq Managers /\ Visiting \subseteq Managers \ Unlisted
    /\ Unknown \notin People \cup Customers
    /\ Strangers \cap (Staff \cup Contractors) = {} /\ Staff \cap Contractors = {}
    /\ Notifiers \cap Inboxes = {} /\ IsFiniteSet(Daemons) /\ IsFiniteSet(Customers)
    /\ Kinds \subseteq {"send", "ask", "get", "approve"}
    /\ {MaxJobs, MaxReplies, MaxDecisions, MaxCrashes} \subseteq Nat

VARIABLES
    row,        \* edc.requests, by customer
    keys,       \* proceedings: the digests mailed, by customer
    job,        \* the request each server process works on
    asked,      \* those who had a request entered, by customer
    consent,    \* who gave the last approval, by customer
    mails,      \* what was sent
    replies,    \* the answers to them, and those the inbox has seen
    path,       \* /tmp/.edc_lock: the file of that name, 0 if none
    daemon,     \* of each daemon: position, lock file open, copies and answers it read
    count,      \* of each bound, how much is used up
    crossed     \* a copy's manager was written over another requester's row

db   == <<row, keys, asked, consent, crossed>>
post == <<mails, replies>>
apvars == <<row, keys, job, asked, consent, mails, replies, path, daemon,
            count, crossed>>

Dead     == {"rejected", "revoked"}
Statuses == {"none", "pending", "approved"} \cup Dead
Rows     == [status : Statuses, queue : BOOLEAN, coreid : Askers \cup {Unknown},
             mngid : Managers \cup {Unknown}]
(* A row as the notifier mails it: to whom LDAP led, and the row's fields. *)
Copies   == [customer : Customers, status : {"pending", "approved"}, coreid : Askers,
             mngid : Managers \cup {Unknown}, cc : Staff \cup {Unknown},
             to : Managers \cup {Unknown}]

ApTypeOK ==
    /\ row \in [Customers -> Rows]
    /\ keys \in [Customers -> SUBSET (Askers \X (Managers \cup {Unknown}))]
    /\ job \in [Servers -> [step : {"idle", "look", "check", "manager", "insert", "approve"},
                            kind : {"send", "ask", "get", "approve"},
                            who : People \cup {Unknown},
                            customer : Customers \cup {Unknown},
                            mng : Managers \cup {Unknown}]]
    /\ asked \in [Customers -> SUBSET Askers]
    /\ consent \in [Customers -> People \cup {Unknown}]
    /\ mails \subseteq Copies
    /\ replies \in [sent : SUBSET (Copies \X People), seen : SUBSET (Copies \X People)]
    /\ path \in Files
    /\ daemon \in [Daemons -> [pc : {"off", "open", "run", "mail", "mark", "read", "enqueue"},
                               fd : Files, batch : Seq(Copies),
                               unseen : SUBSET (Copies \X People),
                               load : [customer : Customers \cup {Unknown},
                                       coreid : Askers \cup {Unknown},
                                       mngid : Managers \cup {Unknown},
                                       by : People \cup {Unknown}],
                               mng : Managers \cup {Unknown}]]
    /\ count \in [jobs : 0..MaxJobs, replies : 0..MaxReplies,
                  decisions : 0..MaxDecisions, crashes : 0..MaxCrashes]
    /\ crossed \in BOOLEAN
-----------------------------------------------------------------------------
(* A process of the server takes a request: an upload for a customer, a    *)
(* request for approval, a customer's retrieval, an approval.              *)
Begin(s) ==
    /\ job[s].step = "idle" /\ count.jobs < MaxJobs
    /\ \E kind \in Kinds, c \in Customers :
         \E p \in CASE kind = "get"     -> Strangers
                    [] kind = "approve" -> Managers \cup {Super}
                    [] OTHER            -> Staff \cup Contractors :
           job' = [job EXCEPT ![s] =
                     [step |-> CASE kind = "ask" -> "check"
                                 [] kind = "approve" -> "manager" [] OTHER -> "look",
                      kind |-> kind, who |-> p, customer |-> c, mng |-> Unknown]]
    /\ count' = [count EXCEPT !.jobs = @ + 1]
    /\ UNCHANGED <<db, post, path, daemon>>

Goto(s, step) == job' = [job EXCEPT ![s].step = step]
End(s)        == job' = [job EXCEPT ![s] = Idle]

(* sql_approve_check of the caller: nothing is entered for a customer who  *)
(* is approved, nor for one with a pending request (of whom the sender of  *)
(* a file is yet told that his supervisor was sent a request).             *)
Look(s) ==
    LET c == job[s].customer IN
    /\ job[s].step = "look"
    /\ IF row[c].status \in {"approved", "pending"} THEN End(s) ELSE Goto(s, "check")
    /\ UNCHANGED <<db, post, path, daemon, count>>

(* sql_pending_request_insert looks once more.                             *)
Check(s) ==
    /\ job[s].step = "check"
    /\ IF row[job[s].customer].status = "approved" THEN End(s) ELSE Goto(s, "manager")
    /\ UNCHANGED <<db, post, path, daemon, count>>

(* Mutant: without a manager the requester stands in for him.              *)
FindSelf(s) ==
    /\ job[s].step = "manager" /\ job[s].kind # "approve"
    /\ job' = [job EXCEPT ![s].step = "insert", ![s].mng = job[s].who]
    /\ UNCHANGED <<db, post, path, daemon, count>>

(* sql_manager_rtv: the manager of any row of this requester, else LDAP's, *)
(* which may not answer.                                                   *)
FindManager(s) ==
    LET p == job[s].who
        own == {row[c].mngid : c \in {d \in Customers : row[d].coreid = p}}
    IN
    /\ job[s].step = "manager" /\ job[s].kind # "approve"
    /\ \E m \in own \cup {Unknown} :
         /\ own # {} => m \in own
         /\ \E found \in IF m # Unknown THEN {m}
                         ELSE {Unknown} \cup {Manager[q] : q \in {p} \ Strangers} :
              job' = [job EXCEPT ![s].step = "insert", ![s].mng = found]
    /\ UNCHANGED <<db, post, path, daemon, count>>

(* The insert, or on a duplicate key the update that leaves the status.    *)
Insert(s) ==
    LET c == job[s].customer IN
    /\ job[s].step = "insert"
    /\ row' = [row EXCEPT ![c] =
                 [status |-> IF @.status = "none" THEN "pending" ELSE @.status,
                  queue |-> TRUE, coreid |-> job[s].who, mngid |-> job[s].mng]]
    /\ asked' = [asked EXCEPT ![c] = @ \cup {job[s].who}]
    /\ End(s)
    /\ UNCHANGED <<keys, consent, crossed, post, path, daemon, count>>

(* sql_commandline_approve reads the manager of the row and compares.      *)
ReadManager(s) ==
    LET r == row[job[s].customer] IN
    /\ job[s].step = "manager" /\ job[s].kind = "approve"
    /\ IF r.status # "none" /\ job[s].who \in {r.mngid, Super}
       THEN Goto(s, "approve") ELSE End(s)
    /\ UNCHANGED <<db, post, path, daemon, count>>

(* Its update names the customer only.                                     *)
Approve(s) ==
    LET c == job[s].customer IN
    /\ job[s].step = "approve"
    /\ row' = [row EXCEPT ![c].status = "approved", ![c].queue = TRUE]
    /\ consent' = [consent EXCEPT ![c] = job[s].who]
    /\ End(s)
    /\ UNCHANGED <<keys, asked, crossed, post, path, daemon, count>>

(* The EDC web site, which is not in this repository.                      *)
Decide(c) ==
    /\ count.decisions < MaxDecisions
    /\ row[c].status \in {"pending", "approved"}
    /\ row' = [row EXCEPT ![c].status = IF @ = "pending" THEN "rejected" ELSE "revoked"]
    /\ count' = [count EXCEPT !.decisions = @ + 1]
    /\ UNCHANGED <<keys, job, asked, consent, post, path, daemon, crossed>>
-----------------------------------------------------------------------------
(* Both daemons open the lock file, created if it is not there, ...        *)
Open(d) ==
    LET used == {daemon[e].fd : e \in Daemons}
        file == IF path # 0 THEN path ELSE CHOOSE f \in Files \ ({0} \cup used) : TRUE
    IN
    /\ daemon[d].pc = "off"
    /\ path' = file
    /\ daemon' = [daemon EXCEPT ![d].pc = "open", ![d].fd = file]
    /\ UNCHANGED <<db, job, post, count>>

Holds(d) == daemon[d].pc \notin {"off", "open"}
Asleep   == [pc |-> "off", fd |-> 0, batch |-> <<>>, unseen |-> {}, load |-> Nothing,
             mng |-> Unknown]
Stopped(d) == [daemon EXCEPT ![d] = Asleep]

(* ... and lock it, or leave.  A file may be locked that has no name any   *)
(* more.                                                                   *)
Locked(d) == \E e \in Daemons \ {d} : Holds(e) /\ daemon[e].fd = daemon[d].fd

Lock(d) ==
    /\ daemon[d].pc = "open" /\ ~Locked(d)
    /\ daemon' = [daemon EXCEPT ![d].pc = "run"]
    /\ UNCHANGED <<db, job, post, path, count>>

Refuse(d) ==
    /\ daemon[d].pc = "open" /\ Locked(d)
    /\ daemon' = Stopped(d)
    /\ UNCHANGED <<db, job, post, path, count>>

(* The end of a run unlinks whatever file has that name then.              *)
Finish(d) ==
    /\ \/ d \in Notifiers /\ daemon[d].pc = "mail" /\ daemon[d].batch = <<>>
       \/ d \in Inboxes /\ daemon[d].pc = "read" /\ daemon[d].unseen = {}
    /\ path' = 0
    /\ daemon' = Stopped(d)
    /\ UNCHANGED <<db, job, post, count>>

(* An exception ends a daemon without the unlink, and nothing it had not   *)
(* committed remains.                                                      *)
Crash(d) ==
    /\ Holds(d) /\ count.crashes < MaxCrashes
    /\ daemon' = Stopped(d)
    /\ count' = [count EXCEPT !.crashes = @ + 1]
    /\ UNCHANGED <<db, job, post, path>>
-----------------------------------------------------------------------------
Queued == {c \in Customers : row[c].queue /\ row[c].status \notin Dead}

(* query_user: where LDAP does not list the requester, or the manager it   *)
(* names for an employee, the daemon exits; what it says of an employee    *)
(* and of a manager who is one is kept in a global, and is still there     *)
(* when the next answer does not overwrite it.                             *)
LdapEnds(p) == p \in Strangers \/ (p \in Staff /\ Manager[p] \in Unlisted)

LdapManager(p, before) ==
    IF p \in Staff /\ Manager[p] \notin Visiting THEN Manager[p] ELSE before

Results(order) ==
    {res \in [1..Len(order) -> [cc : Staff \cup {Unknown}, to : Managers \cup {Unknown}]] :
       \A i \in 1..Len(order) :
         LET p == row[order[i]].coreid
             before == IF i = 1 THEN [cc |-> Unknown, to |-> Unknown] ELSE res[i - 1]
         IN  res[i] = [cc |-> IF p \in Staff THEN p ELSE before.cc,
                       to |-> LdapManager(p, before.to)]}

Copy(c, res) ==
    [customer |-> c, status |-> row[c].status, coreid |-> row[c].coreid,
     mngid |-> row[c].mngid, cc |-> res.cc, to |-> res.to]

(* dequeue reads the whole queue and asks LDAP for each row before the     *)
(* first mail.                                                             *)
Dequeue(d) ==
    /\ d \in Notifiers /\ daemon[d].pc = "run"
    /\ IF \E c \in Queued : LdapEnds(row[c].coreid)
       THEN daemon' = Stopped(d)
       ELSE \E order \in SetToSeqs(Queued) : \E res \in Results(order) :
              daemon' = [daemon EXCEPT ![d].pc = "mail",
                           ![d].batch = [i \in 1..Len(order) |-> Copy(order[i], res[i])]]
    /\ UNCHANGED <<db, job, post, path, count>>

SendMail(d) ==
    /\ d \in Notifiers /\ daemon[d].pc = "mail" /\ daemon[d].batch # <<>>
    /\ mails' = mails \cup {Head(daemon[d].batch)}
    /\ daemon' = [daemon EXCEPT ![d].pc = "mark"]
    /\ UNCHANGED <<db, job, replies, path, count>>

(* Mutant: the row stays in the queue.                                     *)
MarkKeepsQueue(d) ==
    /\ d \in Notifiers /\ daemon[d].pc = "mark"
    /\ daemon' = [daemon EXCEPT ![d].pc = "mail", ![d].batch = Tail(@)]
    /\ UNCHANGED <<db, job, post, path, count>>

(* Mutant: the whole queue is marked after the first mail.                 *)
MarkAll(d) ==
    LET cs == {daemon[d].batch[i].customer : i \in DOMAIN daemon[d].batch} IN
    /\ d \in Notifiers /\ daemon[d].pc = "mark"
    /\ row' = [c \in Customers |-> IF c \in cs THEN [row[c] EXCEPT !.queue = FALSE] ELSE row[c]]
    /\ daemon' = [daemon EXCEPT ![d].pc = "mail", ![d].batch = Tail(@)]
    /\ UNCHANGED <<keys, job, asked, consent, crossed, post, path, count>>

(* mark_dequeued writes the copy's manager back and enters the digest.     *)
MarkDequeued(d) ==
    LET q == Head(daemon[d].batch)
        c == q.customer
    IN
    /\ d \in Notifiers /\ daemon[d].pc = "mark"
    /\ row' = [row EXCEPT ![c].queue = FALSE, ![c].mngid = q.mngid]
    /\ keys' = [keys EXCEPT ![c] = @ \cup {<<q.coreid, q.mngid>>}]
    /\ crossed' = (crossed \/ row[c].coreid # q.coreid)
    /\ daemon' = [daemon EXCEPT ![d].pc = "mail", ![d].batch = Tail(@)]
    /\ UNCHANGED <<job, asked, consent, post, path, count>>
-----------------------------------------------------------------------------
(* Someone who got a mail answers it.                                      *)
Reply(m, p) ==
    /\ count.replies < MaxReplies
    /\ p \in {m.to, m.cc} \ {Unknown}
    /\ <<m, p>> \notin replies.sent
    /\ replies' = [replies EXCEPT !.sent = @ \cup {<<m, p>>}]
    /\ count' = [count EXCEPT !.replies = @ + 1]
    /\ UNCHANGED <<db, job, mails, path, daemon>>

(* A run of the inbox lists the unseen answers; where there is none, the   *)
(* fetch of nothing fails and the run exits without the unlink.            *)
Search(d) ==
    LET new == replies.sent \ replies.seen IN
    /\ d \in Inboxes /\ daemon[d].pc = "run"
    /\ daemon' = IF new = {} THEN Stopped(d)
                 ELSE [daemon EXCEPT ![d].pc = "read", ![d].unseen = new]
    /\ UNCHANGED <<db, job, post, path, count>>

(* Mutant: a reply of the requester counts as well.                        *)
ReadAnyReply(d) ==
    /\ d \in Inboxes /\ daemon[d].pc = "read"
    /\ \E a \in daemon[d].unseen :
         LET r == row[a[1].customer] IN
         /\ r.coreid \in Staff /\ a[2] \in {Manager[r.coreid], r.coreid}
         /\ replies' = [replies EXCEPT !.seen = @ \cup {a}]
         /\ daemon' = [daemon EXCEPT ![d].pc = "enqueue", ![d].unseen = @ \ {a},
                         ![d].load = [customer |-> a[1].customer, coreid |-> r.coreid,
                                      mngid |-> r.mngid, by |-> a[2]]]
    /\ UNCHANGED <<db, job, mails, path, count>>

(* The inbox fetches an answer, which marks it as seen, loads the row of   *)
(* its uid if the digest was mailed for that, and compares the sender with *)
(* the manager LDAP names, or named last in this run.                      *)
ReadReply(d) ==
    /\ d \in Inboxes /\ daemon[d].pc = "read"
    /\ \E a \in daemon[d].unseen :
         LET m == a[1]
             r == row[m.customer]
             mng == LdapManager(r.coreid, daemon[d].mng)
             rest == [daemon EXCEPT ![d].unseen = @ \ {a}]
         IN
         /\ replies' = [replies EXCEPT !.seen = @ \cup {a}]
         /\ daemon' =
              IF <<m.coreid, m.mngid>> \notin keys[m.customer] THEN rest
              ELSE IF LdapEnds(r.coreid) THEN Stopped(d)
              ELSE IF a[2] # mng THEN [rest EXCEPT ![d].mng = mng]
              ELSE [rest EXCEPT ![d].mng = mng, ![d].pc = "enqueue",
                      ![d].load = [customer |-> m.customer, coreid |-> r.coreid,
                                   mngid |-> r.mngid, by |-> a[2]]]
    /\ UNCHANGED <<db, job, mails, path, count>>

(* enqueue: the approval, with the manager the row had when it was loaded. *)
Enqueue(d) ==
    LET q == daemon[d].load
        c == q.customer
    IN
    /\ d \in Inboxes /\ daemon[d].pc = "enqueue"
    /\ row' = [row EXCEPT ![c].status = "approved", ![c].queue = TRUE, ![c].mngid = q.mngid]
    /\ consent' = [consent EXCEPT ![c] = q.by]
    /\ crossed' = (crossed \/ row[c].coreid # q.coreid)
    /\ daemon' = [daemon EXCEPT ![d].pc = "read", ![d].load = Nothing]
    /\ UNCHANGED <<keys, job, asked, post, path, count>>
-----------------------------------------------------------------------------
ApInit ==
    /\ row = [c \in Customers |-> NoRow]
    /\ keys = [c \in Customers |-> {}]
    /\ job = [s \in Servers |-> Idle]
    /\ asked = [c \in Customers |-> {}]
    /\ consent = [c \in Customers |-> Unknown]
    /\ mails = {} /\ replies = [sent |-> {}, seen |-> {}]
    /\ path = 0
    /\ daemon = [d \in Daemons |-> Asleep]
    /\ count = [jobs |-> 0, replies |-> 0, decisions |-> 0, crashes |-> 0]
    /\ crossed = FALSE

ServerStep(s) == Look(s) \/ Check(s) \/ FindManager(s) \/ Insert(s) \/ ReadManager(s)
                 \/ Approve(s)
DaemonStep(d) == Dequeue(d) \/ SendMail(d) \/ MarkDequeued(d) \/ Search(d)
                 \/ ReadReply(d) \/ Enqueue(d) \/ Finish(d)

ApNext ==
    \/ \E s \in Servers : Begin(s) \/ ServerStep(s)
    \/ \E c \in Customers : Decide(c)
    \/ \E d \in Daemons : Open(d) \/ Lock(d) \/ Refuse(d) \/ DaemonStep(d) \/ Crash(d)
    \/ \E m \in mails, p \in People : Reply(m, p)

(* A process goes on with its request; cron starts each daemon again and   *)
(* again, not always while another runs, and not always just too late.     *)
ApFairness ==
    /\ \A s \in Servers : WF_apvars(ServerStep(s))
    /\ \A d \in Daemons : /\ WF_apvars(Refuse(d)) /\ SF_apvars(Lock(d))
                          /\ SF_apvars(Open(d) /\ \A e \in Daemons : ~Holds(e))
                          /\ WF_apvars(DaemonStep(d))

ApSpec     == ApInit /\ [][ApNext]_apvars
ApFairSpec == ApSpec /\ ApFairness
-----------------------------------------------------------------------------
(* Some daemon's copy of the row of c is of another requester or status.   *)
Overtaken(c) ==
    \E d \in Notifiers :
      /\ daemon[d].pc = "mark" /\ Head(daemon[d].batch).customer = c
      /\ LET q == Head(daemon[d].batch)
         IN  <<q.status, q.coreid>> # <<row[c].status, row[c].coreid>>

(* The employees whose manager LDAP lists as an employee.                  *)
Led == {p \in Staff : Manager[p] \notin Visiting \cup Unlisted}

(* A request leaves the queue only when a mail about it, in the status it  *)
(* has then, was sent, whichever daemons crash or run at once: the mail    *)
(* goes out before mark_dequeued.  An employee's mail went to him, and to  *)
(* his manager if that one is an employee; any other's may have gone to    *)
(* those of the row before (results, a global).  Not so for a row          *)
(* rewritten while a notifier held a copy of it.                           *)
DequeuedIsMailed ==
    [][\A c \in Customers :
         row[c].queue /\ ~row'[c].queue =>
           \/ \E m \in mails :
                /\ m.customer = c /\ m.status = row[c].status
                /\ row[c].coreid \in Staff => m.cc = row[c].coreid
                /\ row[c].coreid \in Led => m.to = Manager[row[c].coreid]
           \/ Overtaken(c)]_apvars

(* All who asked for anyone, and their managers.                           *)
EverAsked == UNION {asked[c] : c \in Customers}
Heads     == {Manager[p] : p \in EverAsked \ Strangers}

(* A customer is approved only by the manager of someone who asked for him *)
(* or by the login that may approve anything, although the processes       *)
(* compare with rows, copies and globals read earlier.  When the manager   *)
(* of a copy was written over another requester's row, and for a reply     *)
(* about a requester whose manager the answer of LDAP leaves out (results, *)
(* a global), it may be the manager of someone who asked for another       *)
(* customer: never of someone who asked for none.                          *)
ApprovedByManager ==
    [][\A c \in Customers :
         consent'[c] # consent[c] =>
           /\ consent'[c] \in {Super} \cup Heads
           /\ \/ consent'[c] \in {Super} \cup {Manager[p] : p \in asked[c] \ Strangers}
              \/ crossed
              \/ \E d \in Inboxes : /\ daemon[d].load.customer = c
                                    /\ daemon[d].load.coreid \notin Led]_apvars

(* What is queued leaves the queue, even if daemons crash: unless a        *)
(* request stands in it for whose requester, or for whose manager, LDAP    *)
(* has no entry (Poisoned), or the status is one that is never mailed.     *)
Poisoned == \E c \in Queued : LdapEnds(row[c].coreid)

QueueDrains ==
    \A c \in Customers : c \in Queued ~> (c \notin Queued \/ Poisoned)

(* "Will lock previous execution" (edc_daemon_inbox.py:237): at any time   *)
(* one daemon runs.                                                        *)
OneDaemon == \A d, e \in Daemons : Holds(d) /\ Holds(e) => d = e
=============================================================================
