--------------------------- MODULE ApprovalProofs ---------------------------
(***************************************************************************)
(* Only a manager approves, and what leaves the queue was mailed, for any  *)
(* number of customers, requesters, processes, daemons, replies and        *)
(* crashes.                                                                *)
(***************************************************************************)
EXTENDS Approval, FiniteSetTheorems, TLAPS

Listed == Staff \cup Contractors

(* The manager of p, or none found.                                        *)
Fits(m, p) == m = Unknown \/ (p \in Listed /\ m = Manager[p])

(* Who may approve c.                                                      *)
Entitled(c) == {Super} \cup {Manager[p] : p \in asked[c] \ Strangers}

JobRec ==
    [step : {"idle", "look", "check", "manager", "insert", "approve"},
     kind : {"send", "ask", "get", "approve"}, who : People \cup {Unknown},
     customer : Customers \cup {Unknown}, mng : Managers \cup {Unknown}]
LoadRec ==
    [customer : Customers \cup {Unknown}, coreid : Askers \cup {Unknown},
     mngid : Managers \cup {Unknown}, by : People \cup {Unknown}]
DaemonRec ==
    [pc : {"off", "open", "run", "mail", "mark", "read", "enqueue"}, fd : Files,
     batch : Seq(Copies), unseen : SUBSET (Copies \X People), load : LoadRec,
     mng : Managers \cup {Unknown}]

(* A row has a requester from its insert on, one who asked; only then is it *)
(* queued, mailed, and answered.                                            *)
RowSense(c) ==
    /\ row[c].queue \/ keys[c] # {} \/ row[c].status # "none" => row[c].coreid # Unknown
    /\ row[c].queue => row[c].status # "none"
    /\ row[c].coreid # Unknown => row[c].coreid \in asked[c]
    /\ crossed \/ Fits(row[c].mngid, row[c].coreid)

JobSense(s) ==
    /\ job[s].step # "idle" => job[s].customer \in Customers /\ job[s].who \in People
    /\ job[s].step \in {"look", "check", "insert"} => job[s].kind # "approve"
    /\ job[s].step # "idle" /\ job[s].kind # "approve" => job[s].who \in Askers
    /\ job[s].step = "insert" => crossed \/ Fits(job[s].mng, job[s].who)
    /\ job[s].step = "approve" => /\ crossed \/ job[s].who \in Entitled(job[s].customer)
                                  /\ row[job[s].customer].coreid # Unknown

(* What a notifier and an inbox hold was read from a row that was there.   *)
CopySense(q) ==
    /\ row[q.customer].coreid # Unknown /\ row[q.customer].status # "none"
    /\ crossed \/ Fits(q.mngid, q.coreid)

LoadSense(q) ==
    /\ q.customer \in Customers /\ q.by \in People /\ q.coreid \in Listed
    /\ q.coreid \in asked[q.customer]
    /\ row[q.customer].coreid # Unknown
    /\ q.coreid \in Led => q.by = Manager[q.coreid]
    /\ crossed \/ Fits(q.mngid, q.coreid)

DaemonSense(d) ==
    /\ daemon[d].pc = "mark" => daemon[d].batch # <<>>
    /\ \A i \in 1..Len(daemon[d].batch) : CopySense(daemon[d].batch[i])
    /\ daemon[d].pc = "enqueue" => LoadSense(daemon[d].load)

ApprovalInv ==
    /\ ApTypeOK
    /\ \A c \in Customers : RowSense(c)
    /\ \A s \in Servers : JobSense(s)
    /\ \A d \in Daemons : DaemonSense(d)
-----------------------------------------------------------------------------
LEMMA ApprovalFacts ==
    /\ Unknown \notin People /\ Unknown \notin Customers
    /\ \A p \in Listed : Manager[p] \in Managers
    /\ Led \subseteq Staff /\ Staff \subseteq Listed
    /\ Askers \subseteq People /\ Managers \subseteq People /\ Super \in People
    /\ Staff \subseteq Askers /\ Listed \subseteq Askers
    /\ \A p \in Askers : p \notin Strangers <=> p \in Listed
  BY ApprovalAssumption DEF People, Managers, Askers, Listed, Led

(* What LDAP's answer leaves in results.                                   *)
LEMMA ManagerInResults ==
    ASSUME NEW p, NEW before
    PROVE  /\ LdapManager(p, before) \in {before} \cup {Manager[q] : q \in {p} \cap Staff}
           /\ before \in Managers \cup {Unknown} =>
                LdapManager(p, before) \in Managers \cup {Unknown}
           /\ p \in Led => LdapManager(p, before) = Manager[p]
<1>1. LdapManager(p, before) \in {before} \cup {Manager[q] : q \in {p} \cap Staff}
  BY DEF LdapManager
<1>2. p \in Led => LdapManager(p, before) = Manager[p]  BY DEF LdapManager, Led
<1> QED BY <1>1, <1>2, ApprovalFacts

LEMMA ApprovalBounds ==
    /\ MaxJobs \in Nat /\ MaxReplies \in Nat /\ MaxDecisions \in Nat /\ MaxCrashes \in Nat
    /\ IsFiniteSet(Daemons) /\ IsFiniteSet(Customers) /\ Cardinality(Daemons) \in Nat
    /\ 0 \in Files
  BY ApprovalAssumption, FS_CardinalityType DEF Files

LEMMA TypesByName ==
    ApTypeOK <=>
      /\ row \in [Customers -> Rows]
      /\ keys \in [Customers -> SUBSET (Askers \X (Managers \cup {Unknown}))]
      /\ job \in [Servers -> JobRec]
      /\ asked \in [Customers -> SUBSET Askers]
      /\ consent \in [Customers -> People \cup {Unknown}]
      /\ mails \subseteq Copies
      /\ replies \in [sent : SUBSET (Copies \X People), seen : SUBSET (Copies \X People)]
      /\ path \in Files
      /\ daemon \in [Daemons -> DaemonRec]
      /\ count \in [jobs : 0..MaxJobs, replies : 0..MaxReplies,
                    decisions : 0..MaxDecisions, crashes : 0..MaxCrashes]
      /\ crossed \in BOOLEAN
  BY DEF ApTypeOK, JobRec, DaemonRec, LoadRec

(* A new file is never one that a daemon has open.                         *)
LEMMA FileForOpen ==
    ASSUME ApTypeOK
    PROVE  \E f \in Files : f \notin {0} \cup {daemon[e].fd : e \in Daemons}
<1> DEFINE used == {daemon[e].fd : e \in Daemons}
           fds  == [e \in Daemons |-> daemon[e].fd]
           n    == Cardinality(Daemons)
<1>1. fds \in Surjection(Daemons, used)  BY DEF Surjection
<1>2. IsFiniteSet(used) /\ Cardinality(used) <= n
  <2> HIDE DEF fds, used
  <2> QED BY <1>1, ApprovalBounds, FS_Surjection
<1>3. n \in Nat /\ Files = 0..n + 1  BY ApprovalBounds DEF Files
<1>4. Cardinality(1..n + 1) = n + 1 /\ IsFiniteSet(1..n + 1)
  <2>1. 1 \in Int /\ n + 1 \in Int /\ ~(1 > n + 1) /\ (n + 1) - 1 + 1 = n + 1  BY <1>3
  <2> HIDE DEF n
  <2> QED BY <2>1, FS_Interval
<1>5. ~(1..n + 1 \subseteq used)
  <2> SUFFICES ASSUME 1..n + 1 \subseteq used PROVE FALSE  OBVIOUS
  <2>1. Cardinality(1..n + 1) <= Cardinality(used)  BY <1>2, FS_Subset
  <2>2. Cardinality(used) \in Nat  BY <1>2, FS_CardinalityType
  <2> HIDE DEF n, used
  <2> QED BY <2>1, <2>2, <1>2, <1>3, <1>4
<1> HIDE DEF n
<1> QED BY <1>3, <1>5
-----------------------------------------------------------------------------
LEMMA ApprovalInit == ApInit => ApprovalInv
<1> SUFFICES ASSUME ApInit PROVE ApprovalInv  OBVIOUS
<1> USE ApprovalBounds
<1>1. row \in [Customers -> Rows] /\ \A c \in Customers : row[c] = NoRow
  BY DEF ApInit, NoRow, Rows, Statuses
<1>2. job \in [Servers -> JobRec] /\ \A s \in Servers : job[s] = Idle
  BY DEF ApInit, Idle, JobRec
<1>3. daemon \in [Daemons -> DaemonRec] /\ \A d \in Daemons : daemon[d] = Asleep
  BY DEF ApInit, Asleep, DaemonRec, LoadRec, Nothing
<1>4. ApTypeOK
  <2>1. count \in [jobs : 0..MaxJobs, replies : 0..MaxReplies,
                   decisions : 0..MaxDecisions, crashes : 0..MaxCrashes]
    BY DEF ApInit
  <2>2. replies \in [sent : SUBSET (Copies \X People), seen : SUBSET (Copies \X People)]
    BY DEF ApInit
  <2>3. /\ keys \in [Customers -> SUBSET (Askers \X (Managers \cup {Unknown}))]
        /\ asked \in [Customers -> SUBSET Askers]
        /\ consent \in [Customers -> People \cup {Unknown}]
        /\ mails \subseteq Copies
        /\ path \in Files /\ crossed \in BOOLEAN
    BY DEF ApInit
  <2> HIDE DEF Rows
  <2> QED BY <1>1, <1>2, <1>3, <2>1, <2>2, <2>3, TypesByName
<1>5. \A c \in Customers : keys[c] = {}  BY DEF ApInit
<1> QED
  BY <1>1, <1>2, <1>3, <1>4, <1>5
     DEF ApprovalInv, RowSense, JobSense, DaemonSense, NoRow, Idle, Asleep, Fits

(* What the invariant says of a process, a daemon or a row needs only the  *)
(* variables it is about.                                                  *)
LEMMA RowsKept ==
    ASSUME UNCHANGED <<row, keys, asked, crossed>>, \A c \in Customers : RowSense(c)
    PROVE  \A c \in Customers : RowSense(c)'
  BY DEF RowSense

LEMMA JobsKept ==
    ASSUME NEW s, job'[s] = job[s], asked' = asked, crossed' = crossed, row' = row,
           JobSense(s)
    PROVE  JobSense(s)'
  BY DEF JobSense, Entitled

LEMMA DaemonsKept ==
    ASSUME NEW d, daemon'[d] = daemon[d], row' = row, asked' = asked, crossed' = crossed,
           DaemonSense(d)
    PROVE  DaemonSense(d)'
  BY DEF DaemonSense, CopySense, LoadSense

(* A row that keeps its requester or gets another one, and more who asked,  *)
(* leave what the daemons hold as true as it was.                          *)
LEMMA DaemonsFollow ==
    ASSUME ApTypeOK, daemon' = daemon, crossed => crossed',
           \A c \in Customers : /\ row[c].coreid # Unknown => row'[c].coreid # Unknown
                                /\ row[c].status # "none" => row'[c].status # "none"
                                /\ asked[c] \subseteq asked'[c],
           \A d \in Daemons : DaemonSense(d)
    PROVE  \A d \in Daemons : DaemonSense(d)'
<1> SUFFICES ASSUME NEW d \in Daemons PROVE DaemonSense(d)'  OBVIOUS
<1>1. DaemonSense(d)  OBVIOUS
<1>2. daemon[d] \in DaemonRec  BY TypesByName
<1>3. ASSUME NEW i \in 1..Len(daemon[d].batch) PROVE CopySense(daemon[d].batch[i])'
  <2>1. daemon[d].batch[i].customer \in Customers
    <3>1. daemon[d].batch \in Seq(Copies)  BY <1>2 DEF DaemonRec
    <3>2. daemon[d].batch[i] \in Copies  BY <3>1
    <3> QED BY <3>2 DEF Copies
  <2>2. CopySense(daemon[d].batch[i])  BY <1>1 DEF DaemonSense
  <2> QED BY <2>1, <2>2 DEF CopySense
<1>4. daemon[d].pc = "enqueue" => LoadSense(daemon[d].load)'
  BY <1>1 DEF DaemonSense, LoadSense
<1> QED BY <1>1, <1>3, <1>4 DEF DaemonSense

LEMMA StoppedIsFine ==
    ASSUME ApTypeOK, NEW d \in Daemons, daemon' = Stopped(d),
           UNCHANGED <<row, asked, crossed>>, \A e \in Daemons : DaemonSense(e)
    PROVE  daemon' \in [Daemons -> DaemonRec] /\ \A e \in Daemons : DaemonSense(e)'
<1>1. Asleep \in DaemonRec
  BY ApprovalBounds DEF Asleep, DaemonRec, LoadRec, Nothing
<1>2. daemon \in [Daemons -> DaemonRec]  BY TypesByName
<1>3. daemon' \in [Daemons -> DaemonRec] /\ daemon'[d] = Asleep
      /\ \A e \in Daemons \ {d} : daemon'[e] = daemon[e]
  BY <1>1, <1>2 DEF Stopped
<1>4. DaemonSense(d)'  BY <1>3 DEF DaemonSense, Asleep
<1> QED BY <1>3, <1>4, DaemonsKept
-----------------------------------------------------------------------------
(* The steps of the server's processes.                                    *)
LEMMA BeginStep ==
    ASSUME ApprovalInv, NEW s \in Servers, Begin(s) PROVE ApprovalInv'
<1> USE ApprovalFacts, ApprovalBounds
<1>1. PICK kind \in Kinds, c \in Customers :
        \E p \in CASE kind = "get"     -> Strangers
                    [] kind = "approve" -> Managers \cup {Super}
                    [] OTHER            -> Staff \cup Contractors :
          job' = [job EXCEPT ![s] =
                     [step |-> CASE kind = "ask" -> "check"
                                 [] kind = "approve" -> "manager" [] OTHER -> "look",
                      kind |-> kind, who |-> p, customer |-> c, mng |-> Unknown]]
  BY DEF Begin
<1>2. PICK p \in CASE kind = "get"     -> Strangers
                    [] kind = "approve" -> Managers \cup {Super}
                    [] OTHER            -> Staff \cup Contractors :
          job' = [job EXCEPT ![s] =
                     [step |-> CASE kind = "ask" -> "check"
                                 [] kind = "approve" -> "manager" [] OTHER -> "look",
                      kind |-> kind, who |-> p, customer |-> c, mng |-> Unknown]]
  BY <1>1
<1>3. /\ kind \in {"send", "ask", "get", "approve"} /\ p \in People
      /\ kind # "approve" => p \in Askers
  BY <1>2, ApprovalAssumption DEF Askers
<1> DEFINE step == CASE kind = "ask" -> "check"
                      [] kind = "approve" -> "manager" [] OTHER -> "look"
           r == [step |-> step, kind |-> kind, who |-> p, customer |-> c, mng |-> Unknown]
<1>4. /\ step \in {"check", "manager", "look"}
      /\ step \in {"look", "check"} <=> kind # "approve"
  BY <1>3
<1>5. r \in JobRec  BY <1>3, <1>4 DEF JobRec
<1>6. job \in [Servers -> JobRec]  BY TypesByName DEF ApprovalInv
<1>7. job' \in [Servers -> JobRec] /\ job'[s] = r
      /\ \A t \in Servers \ {s} : job'[t] = job[t]
  BY <1>2, <1>5, <1>6
<1>8. count' \in [jobs : 0..MaxJobs, replies : 0..MaxReplies,
                  decisions : 0..MaxDecisions, crashes : 0..MaxCrashes]
  <2>1. count \in [jobs : 0..MaxJobs, replies : 0..MaxReplies,
                   decisions : 0..MaxDecisions, crashes : 0..MaxCrashes]
    BY DEF ApprovalInv, ApTypeOK
  <2>2. count.jobs < MaxJobs /\ count' = [count EXCEPT !.jobs = @ + 1]  BY DEF Begin
  <2> QED BY <2>1, <2>2
<1>9. UNCHANGED <<row, keys, asked, consent, mails, replies, path, daemon, crossed>>
  BY DEF Begin, db, post
<1>10. ApTypeOK'  BY <1>7, <1>8, <1>9 DEF ApprovalInv, ApTypeOK, JobRec
<1>11. JobSense(s)'  BY <1>3, <1>4, <1>7 DEF JobSense
<1>12. \A t \in Servers : JobSense(t)'  BY <1>7, <1>9, <1>11, JobsKept DEF ApprovalInv
<1>13. \A d \in Daemons : DaemonSense(d)'  BY <1>9, DaemonsKept DEF ApprovalInv
<1> QED BY <1>9, <1>10, <1>12, <1>13, RowsKept DEF ApprovalInv

(* A step that changes one process and nothing the daemons or rows need.   *)
LEMMA JobStep ==
    ASSUME ApprovalInv, NEW s \in Servers, NEW r \in JobRec,
           job' = [job EXCEPT ![s] = r],
           UNCHANGED <<db, post, path, daemon, count>>,
           JobSense(s)'
    PROVE  ApprovalInv'
<1>1. job \in [Servers -> JobRec]  BY TypesByName DEF ApprovalInv
<1>2. job' \in [Servers -> JobRec] /\ \A t \in Servers \ {s} : job'[t] = job[t]
  BY <1>1
<1>3. UNCHANGED <<row, keys, asked, consent, crossed, mails, replies, path, daemon, count>>
  BY DEF db, post
<1>4. ApTypeOK'  BY <1>2, <1>3 DEF ApprovalInv, ApTypeOK, JobRec
<1>5. \A t \in Servers : JobSense(t)'  BY <1>2, <1>3, JobsKept DEF ApprovalInv
<1>6. \A d \in Daemons : DaemonSense(d)'  BY <1>3, DaemonsKept DEF ApprovalInv
<1> QED BY <1>3, <1>4, <1>5, <1>6, RowsKept DEF ApprovalInv

LEMMA EndsFine ==
    ASSUME ApprovalInv, NEW s \in Servers, End(s),
           UNCHANGED <<db, post, path, daemon, count>>
    PROVE  ApprovalInv'
<1>1. Idle \in JobRec  BY DEF Idle, JobRec
<1>2. job' = [job EXCEPT ![s] = Idle]  BY DEF End
<1>3. job'[s] = Idle  BY <1>2, TypesByName DEF ApprovalInv
<1>4. JobSense(s)'  BY <1>3 DEF JobSense, Idle
<1> QED BY <1>1, <1>2, <1>4, JobStep

LEMMA LookStep ==
    ASSUME ApprovalInv, NEW s \in Servers, Look(s) \/ Check(s) PROVE ApprovalInv'
<1>1. /\ job[s].step \in {"look", "check"}
      /\ UNCHANGED <<db, post, path, daemon, count>>
      /\ End(s) \/ Goto(s, "check") \/ Goto(s, "manager")
  BY DEF Look, Check
<1>2. CASE End(s)  BY <1>1, <1>2, EndsFine
<1>3. ASSUME NEW step \in {"check", "manager"}, Goto(s, step) PROVE ApprovalInv'
  <2> DEFINE r == [job[s] EXCEPT !.step = step]
  <2>1. job \in [Servers -> JobRec]  BY TypesByName DEF ApprovalInv
  <2>2. r \in JobRec /\ job' = [job EXCEPT ![s] = r]  BY <1>3, <2>1 DEF JobRec, Goto
  <2>3. job'[s] = r  BY <2>1, <2>2
  <2>4. /\ r.step = step /\ r.kind = job[s].kind /\ r.who = job[s].who
        /\ r.customer = job[s].customer
    BY <2>1 DEF JobRec
  <2>5. JobSense(s)  BY DEF ApprovalInv
  <2>6. JobSense(s)'  BY <1>1, <2>3, <2>4, <2>5 DEF JobSense
  <2> QED BY <1>1, <2>2, <2>6, JobStep
<1> QED BY <1>1, <1>2, <1>3

LEMMA FindManagerStep ==
    ASSUME ApprovalInv, NEW s \in Servers, FindManager(s) PROVE ApprovalInv'
<1> USE ApprovalFacts
<1> DEFINE p == job[s].who
           own == {row[c].mngid : c \in {d \in Customers : row[d].coreid = p}}
<1>1. /\ job[s].step = "manager" /\ job[s].kind # "approve"
      /\ UNCHANGED <<db, post, path, daemon, count>>
  BY DEF FindManager
<1>2. PICK m \in own \cup {Unknown} :
        \E found \in IF m # Unknown THEN {m}
                      ELSE {Unknown} \cup {Manager[q] : q \in {p} \ Strangers} :
          job' = [job EXCEPT ![s].step = "insert", ![s].mng = found]
  BY DEF FindManager
<1>3. PICK found \in IF m # Unknown THEN {m}
                      ELSE {Unknown} \cup {Manager[q] : q \in {p} \ Strangers} :
          job' = [job EXCEPT ![s].step = "insert", ![s].mng = found]
  BY <1>2
<1>4. JobSense(s) /\ p \in Askers  BY <1>1 DEF ApprovalInv, JobSense
<1>5. crossed \/ Fits(found, p)
  <2>1. CASE m = Unknown  BY <1>3, <1>4, <2>1 DEF Fits
  <2>2. CASE m # Unknown
    <3>1. PICK c \in Customers : row[c].coreid = p /\ m = row[c].mngid  BY <1>2, <2>2
    <3>2. RowSense(c)  BY DEF ApprovalInv
    <3> QED BY <1>3, <2>2, <3>1, <3>2 DEF RowSense
  <2> QED BY <2>1, <2>2
<1>6. found \in Managers \cup {Unknown}
  <2>1. \A c \in Customers : row[c].mngid \in Managers \cup {Unknown}
    BY TypesByName DEF ApprovalInv, Rows
  <2> QED BY <1>2, <1>3, <1>4, <2>1
<1> DEFINE r == [job[s] EXCEPT !.step = "insert", !.mng = found]
<1>7. job \in [Servers -> JobRec]  BY TypesByName DEF ApprovalInv
<1>8. r \in JobRec /\ job' = [job EXCEPT ![s] = r]  BY <1>3, <1>6, <1>7 DEF JobRec
<1>9. job'[s] = r  BY <1>7, <1>8
<1>10. /\ r.step = "insert" /\ r.kind = job[s].kind /\ r.who = p /\ r.mng = found
       /\ r.customer = job[s].customer
  BY <1>7 DEF JobRec
<1>11. crossed' = crossed  BY <1>1 DEF db
<1> HIDE DEF r
<1>12. JobSense(s)'  BY <1>1, <1>4, <1>5, <1>9, <1>10, <1>11 DEF JobSense
<1> QED BY <1>1, <1>8, <1>12, JobStep

(* Entering a request changes the row, and the job is done; the copies of  *)
(* the daemons stay as true as they were.                                  *)
LEMMA InsertStep ==
    ASSUME ApprovalInv, NEW s \in Servers, Insert(s) PROVE ApprovalInv'
<1> USE ApprovalFacts
<1> DEFINE c == job[s].customer
           p == job[s].who
           r == [status |-> IF row[c].status = "none" THEN "pending" ELSE row[c].status,
                 queue |-> TRUE, coreid |-> p, mngid |-> job[s].mng]
<1>1. /\ JobSense(s) /\ job[s].step = "insert"  BY DEF ApprovalInv, Insert
<1>2. /\ c \in Customers /\ p \in Askers /\ (crossed \/ Fits(job[s].mng, p))
      /\ job[s].mng \in Managers \cup {Unknown}
  BY <1>1, TypesByName DEF JobSense, ApprovalInv, JobRec
<1>3. r \in Rows  BY <1>2, TypesByName DEF ApprovalInv, Rows, Statuses
<1>4. row' = [row EXCEPT ![c] = r]  BY DEF Insert
<1>5. /\ row' \in [Customers -> Rows] /\ row'[c] = r
      /\ \A d \in Customers \ {c} : row'[d] = row[d]
  BY <1>2, <1>3, <1>4, TypesByName DEF ApprovalInv
<1>6. /\ asked' \in [Customers -> SUBSET Askers] /\ asked'[c] = asked[c] \cup {p}
      /\ \A d \in Customers : asked[d] \subseteq asked'[d]
      /\ \A d \in Customers \ {c} : asked'[d] = asked[d]
  BY <1>2, TypesByName DEF ApprovalInv, Insert
<1>7. /\ job' \in [Servers -> JobRec] /\ job'[s] = Idle
      /\ \A t \in Servers \ {s} : job'[t] = job[t]
  BY TypesByName DEF ApprovalInv, Insert, End, Idle, JobRec
<1>9. UNCHANGED <<keys, consent, crossed, mails, replies, path, daemon, count>>
  BY DEF Insert, post
<1>10. ApTypeOK'  BY <1>5, <1>6, <1>7, <1>9 DEF ApprovalInv, ApTypeOK, JobRec
<1>11. \A d \in Customers : RowSense(d)'
  <2>1. \A d \in Customers : d = c => RowSense(d)'
    <3>1. r.coreid = p /\ r.status # "none" /\ r.mngid = job[s].mng  OBVIOUS
    <3> HIDE DEF r
    <3> QED BY <1>2, <1>5, <1>6, <1>9, <3>1 DEF RowSense, Fits
  <2>2. \A d \in Customers \ {c} : RowSense(d)'
    BY <1>5, <1>6, <1>9 DEF ApprovalInv, RowSense, Fits
  <2> QED BY <2>1, <2>2
<1>12. \A t \in Servers : JobSense(t)'
  <2>1. JobSense(s)'  BY <1>7 DEF JobSense, Idle
  <2>2. ASSUME NEW t \in Servers \ {s} PROVE JobSense(t)'
    <3>1. JobSense(t)  BY DEF ApprovalInv
    <3>2. \A d \in Customers : Entitled(d) \subseteq Entitled(d)'
      BY <1>6 DEF Entitled
    <3>3. \A d \in Customers : row[d].coreid # Unknown => row'[d].coreid # Unknown
      <4>1. r.coreid # Unknown  BY <1>2
      <4> HIDE DEF r
      <4> QED BY <1>5, <4>1
    <3> HIDE DEF r
    <3> QED BY <1>7, <1>9, <3>1, <3>2, <3>3 DEF JobSense
  <2> QED BY <2>1, <2>2
<1>13. \A d \in Daemons : DaemonSense(d)'
  <2>1. /\ r.coreid # Unknown /\ r.status # "none"  BY <1>2
  <2> HIDE DEF r
  <2>2. \A d \in Customers : /\ row[d].coreid # Unknown => row'[d].coreid # Unknown
                             /\ row[d].status # "none" => row'[d].status # "none"
    BY <1>5, <2>1
  <2>3. ApTypeOK /\ \A d \in Daemons : DaemonSense(d)  BY DEF ApprovalInv
  <2> QED BY <1>6, <1>9, <2>2, <2>3, DaemonsFollow
<1> QED BY <1>10, <1>11, <1>12, <1>13 DEF ApprovalInv

LEMMA ReadManagerStep ==
    ASSUME ApprovalInv, NEW s \in Servers, ReadManager(s) PROVE ApprovalInv'
<1> USE ApprovalFacts
<1> DEFINE c == job[s].customer
<1>1. /\ job[s].step = "manager" /\ job[s].kind = "approve"
      /\ UNCHANGED <<db, post, path, daemon, count>>
  BY DEF ReadManager
<1>3. CASE End(s)  BY <1>1, <1>3, EndsFine
<1>4. CASE /\ Goto(s, "approve") /\ row[c].status # "none"
           /\ job[s].who \in {row[c].mngid, Super}
  <2>1. JobSense(s) /\ c \in Customers /\ job[s].who \in People
    BY <1>1 DEF ApprovalInv, JobSense
  <2>2. RowSense(c)  BY <2>1 DEF ApprovalInv
  <2>3. crossed \/ job[s].who \in Entitled(c)
    BY <1>4, <2>1, <2>2 DEF RowSense, Fits, Entitled, Listed
  <2> DEFINE r == [job[s] EXCEPT !.step = "approve"]
  <2>4. job \in [Servers -> JobRec]  BY TypesByName DEF ApprovalInv
  <2>5. r \in JobRec /\ job' = [job EXCEPT ![s] = r]  BY <1>4, <2>4 DEF JobRec, Goto
  <2>6. /\ job'[s] = r /\ r.step = "approve" /\ r.kind = "approve" /\ r.who = job[s].who
        /\ r.customer = c
    BY <1>1, <2>4, <2>5 DEF JobRec
  <2>7. asked' = asked /\ crossed' = crossed  BY <1>1 DEF db
  <2>8. Entitled(c)' = Entitled(c)  BY <2>6, <2>7 DEF Entitled
  <2> HIDE DEF r
  <2>9. JobSense(s)'
    <3>1. row' = row /\ row[c].coreid # Unknown  BY <1>1, <1>4, <2>2 DEF db, RowSense
    <3> QED BY <2>1, <2>3, <2>6, <2>7, <3>1 DEF JobSense, Entitled
  <2> QED BY <1>1, <2>5, <2>9, JobStep
<1> QED BY <1>3, <1>4 DEF ReadManager

LEMMA ApproveStep ==
    ASSUME ApprovalInv, NEW s \in Servers, Approve(s) PROVE ApprovalInv'
<1> DEFINE c == job[s].customer
           r == [row[c] EXCEPT !.status = "approved", !.queue = TRUE]
<1>1. JobSense(s) /\ c \in Customers /\ job[s].who \in People
  BY DEF ApprovalInv, JobSense, Approve
<1>2. r \in Rows /\ r.coreid = row[c].coreid /\ r.mngid = row[c].mngid
      /\ r.status = "approved"
  <2>1. row[c] \in Rows  BY <1>1, TypesByName DEF ApprovalInv
  <2> QED BY <2>1 DEF Rows, Statuses
<1>3. /\ row' = [row EXCEPT ![c] = r] /\ consent' = [consent EXCEPT ![c] = job[s].who]
      /\ job' = [job EXCEPT ![s] = Idle]
      /\ UNCHANGED <<keys, asked, crossed, mails, replies, path, daemon, count>>
  BY TypesByName DEF ApprovalInv, Approve, End, post
<1> HIDE DEF r
<1>4. /\ row' \in [Customers -> Rows] /\ row'[c] = r
      /\ \A d \in Customers \ {c} : row'[d] = row[d]
      /\ consent' \in [Customers -> People \cup {Unknown}]
  BY <1>1, <1>2, <1>3, TypesByName DEF ApprovalInv
<1>5. /\ job' \in [Servers -> JobRec] /\ job'[s] = Idle
      /\ \A t \in Servers \ {s} : job'[t] = job[t]
  BY <1>3, TypesByName DEF ApprovalInv, Idle, JobRec
<1>6. ApTypeOK'  BY <1>3, <1>4, <1>5 DEF ApprovalInv, ApTypeOK, JobRec
<1>7. RowSense(c) /\ row[c].coreid # Unknown
  BY <1>1 DEF ApprovalInv, JobSense, Approve
<1>8. \A d \in Customers : RowSense(d)'
  BY <1>2, <1>3, <1>4, <1>7 DEF ApprovalInv, RowSense, Fits
<1>9. \A d \in Customers : /\ row[d].coreid # Unknown => row'[d].coreid # Unknown
                           /\ row[d].status # "none" => row'[d].status # "none"
  BY <1>2, <1>4
<1>10. \A t \in Servers : JobSense(t)'
  <2>1. JobSense(s)'  BY <1>5 DEF JobSense, Idle
  <2>2. \A t \in Servers \ {s} : JobSense(t)'
    BY <1>3, <1>5, <1>9 DEF ApprovalInv, JobSense, Entitled
  <2> QED BY <2>1, <2>2
<1>11. \A d \in Daemons : DaemonSense(d)'
  <2>1. ApTypeOK /\ \A d \in Daemons : DaemonSense(d)  BY DEF ApprovalInv
  <2> QED BY <1>3, <1>9, <2>1, DaemonsFollow
<1> QED BY <1>6, <1>8, <1>10, <1>11 DEF ApprovalInv

LEMMA DecideStep ==
    ASSUME ApprovalInv, NEW c \in Customers, Decide(c) PROVE ApprovalInv'
<1> DEFINE r == [row[c] EXCEPT !.status = IF row[c].status = "pending" THEN "rejected"
                                          ELSE "revoked"]
<1>1. r \in Rows /\ r.coreid = row[c].coreid /\ r.mngid = row[c].mngid
      /\ r.status # "none" /\ r.queue = row[c].queue
  BY TypesByName DEF ApprovalInv, Rows, Statuses, Dead
<1>2. /\ row' = [row EXCEPT ![c] = r] /\ row[c].status # "none"
      /\ UNCHANGED <<keys, job, asked, consent, mails, replies, path, daemon, crossed>>
  BY TypesByName DEF ApprovalInv, Decide, post
<1> HIDE DEF r
<1>3. /\ row' \in [Customers -> Rows] /\ row'[c] = r
      /\ \A d \in Customers \ {c} : row'[d] = row[d]
  BY <1>1, <1>2, TypesByName DEF ApprovalInv
<1>4. count' \in [jobs : 0..MaxJobs, replies : 0..MaxReplies,
                  decisions : 0..MaxDecisions, crashes : 0..MaxCrashes]
  <2>1. count \in [jobs : 0..MaxJobs, replies : 0..MaxReplies,
                   decisions : 0..MaxDecisions, crashes : 0..MaxCrashes]
    BY DEF ApprovalInv, ApTypeOK
  <2>2. count.decisions < MaxDecisions /\ count' = [count EXCEPT !.decisions = @ + 1]
    BY DEF Decide
  <2> QED BY <2>1, <2>2, ApprovalBounds
<1>5. ApTypeOK'  BY <1>2, <1>3, <1>4 DEF ApprovalInv, ApTypeOK
<1>6. \A d \in Customers : RowSense(d)'
  BY <1>1, <1>2, <1>3 DEF ApprovalInv, RowSense, Fits
<1>7. \A d \in Customers : /\ row[d].coreid # Unknown => row'[d].coreid # Unknown
                           /\ row[d].status # "none" => row'[d].status # "none"
  BY <1>1, <1>3
<1>8. \A t \in Servers : JobSense(t)'
  BY <1>2, <1>7 DEF ApprovalInv, JobSense, Entitled
<1>9. \A d \in Daemons : DaemonSense(d)'
  <2>1. ApTypeOK /\ \A d \in Daemons : DaemonSense(d)  BY DEF ApprovalInv
  <2> QED BY <1>2, <1>7, <2>1, DaemonsFollow
<1> QED BY <1>5, <1>6, <1>8, <1>9 DEF ApprovalInv
-----------------------------------------------------------------------------
(* The steps of the daemons.  Most change nothing but the daemon.          *)
LEMMA DaemonOnly ==
    ASSUME ApprovalInv, daemon' \in [Daemons -> DaemonRec],
           \A d \in Daemons : DaemonSense(d)',
           path' \in Files, mails' \subseteq Copies,
           replies' \in [sent : SUBSET (Copies \X People), seen : SUBSET (Copies \X People)],
           count' \in [jobs : 0..MaxJobs, replies : 0..MaxReplies,
                       decisions : 0..MaxDecisions, crashes : 0..MaxCrashes],
           UNCHANGED <<db, job>>
    PROVE  ApprovalInv'
<1>1. UNCHANGED <<row, keys, asked, consent, crossed, job>>  BY DEF db
<1>2. ApTypeOK'
  <2>1. ApTypeOK  BY DEF ApprovalInv
  <2> HIDE DEF Rows, DaemonRec
  <2> QED BY <1>1, <2>1 DEF ApTypeOK, DaemonRec, LoadRec
<1>3. \A s \in Servers : JobSense(s)'  BY <1>1, JobsKept DEF ApprovalInv
<1> QED BY <1>1, <1>2, <1>3, RowsKept DEF ApprovalInv

(* A daemon that keeps what it holds.                                      *)
LEMMA SameLoad ==
    ASSUME ApprovalInv, NEW d \in Daemons, NEW r \in DaemonRec,
           daemon' = [daemon EXCEPT ![d] = r], UNCHANGED <<row, asked, crossed>>,
           \/ r.batch = daemon[d].batch
           \/ r.batch = <<>>,
           r.pc = "mark" => r.batch # <<>>,
           r.pc # "enqueue"
    PROVE  daemon' \in [Daemons -> DaemonRec] /\ \A e \in Daemons : DaemonSense(e)'
<1>1. daemon \in [Daemons -> DaemonRec]  BY TypesByName DEF ApprovalInv
<1>2. /\ daemon' \in [Daemons -> DaemonRec] /\ daemon'[d] = r
      /\ \A e \in Daemons \ {d} : daemon'[e] = daemon[e]
  BY <1>1
<1>3. DaemonSense(d)  BY DEF ApprovalInv
<1>4. DaemonSense(d)'  BY <1>2, <1>3 DEF DaemonSense, CopySense
<1> QED BY <1>2, <1>4, DaemonsKept DEF ApprovalInv

LEMMA LockFileSteps ==
    ASSUME ApprovalInv, NEW d \in Daemons,
           Open(d) \/ Lock(d) \/ Refuse(d) \/ Finish(d) \/ Crash(d)
    PROVE  ApprovalInv'
<1> USE ApprovalBounds
<1>1. /\ daemon \in [Daemons -> DaemonRec] /\ path \in Files /\ mails \subseteq Copies
      /\ replies \in [sent : SUBSET (Copies \X People), seen : SUBSET (Copies \X People)]
      /\ count \in [jobs : 0..MaxJobs, replies : 0..MaxReplies,
                     decisions : 0..MaxDecisions, crashes : 0..MaxCrashes]
      /\ ApTypeOK /\ \A e \in Daemons : DaemonSense(e)
  BY TypesByName DEF ApprovalInv
<1>2. CASE Open(d)
  <2> DEFINE used == {daemon[e].fd : e \in Daemons}
             file == IF path # 0 THEN path ELSE CHOOSE f \in Files \ ({0} \cup used) : TRUE
             r    == [daemon[d] EXCEPT !.pc = "open", !.fd = file]
  <2>1. file \in Files  BY <1>1, FileForOpen
  <2>2. path' = file /\ daemon' = [daemon EXCEPT ![d] = r]
    <3>1. path' = file /\ daemon' = [daemon EXCEPT ![d].pc = "open", ![d].fd = file]
      BY <1>2 DEF Open
    <3> HIDE DEF file
    <3> QED BY <1>1, <3>1
  <2> HIDE DEF file
  <2>3. r \in DaemonRec /\ r.pc = "open" /\ r.batch = daemon[d].batch
    BY <1>1, <2>1 DEF DaemonRec
  <2>4. UNCHANGED <<db, job, mails, replies, count>>  BY <1>2 DEF Open, post
  <2> HIDE DEF r
  <2>5. daemon' \in [Daemons -> DaemonRec] /\ \A e \in Daemons : DaemonSense(e)'
    BY <2>2, <2>3, <2>4, SameLoad DEF db
  <2> QED BY <1>1, <2>1, <2>2, <2>4, <2>5, DaemonOnly
<1>3. CASE Lock(d)
  <2> DEFINE r == [daemon[d] EXCEPT !.pc = "run"]
  <2>1. r \in DaemonRec /\ r.pc = "run" /\ r.batch = daemon[d].batch  BY <1>1 DEF DaemonRec
  <2>2. daemon' = [daemon EXCEPT ![d] = r]  BY <1>1, <1>3 DEF Lock
  <2>3. UNCHANGED <<db, job, mails, replies, count, path>>  BY <1>3 DEF Lock, post
  <2> HIDE DEF r
  <2>4. daemon' \in [Daemons -> DaemonRec] /\ \A e \in Daemons : DaemonSense(e)'
    BY <2>1, <2>2, <2>3, SameLoad DEF db
  <2> QED BY <1>1, <2>3, <2>4, DaemonOnly
<1>4. CASE Refuse(d) \/ Finish(d) \/ Crash(d)
  <2>1. daemon' = Stopped(d) /\ UNCHANGED <<db, job, mails, replies>>
        /\ path' \in {0, path}
    BY <1>4 DEF Refuse, Finish, Crash, post
  <2>2. count' \in [jobs : 0..MaxJobs, replies : 0..MaxReplies,
                    decisions : 0..MaxDecisions, crashes : 0..MaxCrashes]
    <3>1. CASE count' = count  BY <1>1, <3>1
    <3>2. CASE Crash(d)
      <4>1. count.crashes < MaxCrashes /\ count' = [count EXCEPT !.crashes = @ + 1]
        BY <3>2 DEF Crash
      <4> QED BY <1>1, <4>1
    <3> QED BY <1>4, <3>1, <3>2 DEF Refuse, Finish
  <2>3. daemon' \in [Daemons -> DaemonRec] /\ \A e \in Daemons : DaemonSense(e)'
    BY <1>1, <2>1, StoppedIsFine DEF db
  <2> QED BY <1>1, <2>1, <2>2, <2>3, DaemonOnly
<1> QED BY <1>2, <1>3, <1>4

LEMMA NewBatch ==
    ASSUME NEW x \in DaemonRec, NEW b \in Seq(Copies)
    PROVE  /\ [x EXCEPT !.pc = "mail", !.batch = b] \in DaemonRec
           /\ [x EXCEPT !.pc = "mail", !.batch = b].pc = "mail"
           /\ [x EXCEPT !.pc = "mail", !.batch = b].batch = b
           /\ [x EXCEPT !.pc = "mail", !.batch = b].load = x.load
  BY DEF DaemonRec

LEMMA DequeueStep ==
    ASSUME ApprovalInv, NEW d \in Daemons, Dequeue(d) PROVE ApprovalInv'
<1> USE ApprovalFacts, ApprovalBounds
<1>1. /\ daemon \in [Daemons -> DaemonRec] /\ row \in [Customers -> Rows]
      /\ path \in Files /\ mails \subseteq Copies
      /\ replies \in [sent : SUBSET (Copies \X People), seen : SUBSET (Copies \X People)]
      /\ count \in [jobs : 0..MaxJobs, replies : 0..MaxReplies,
                     decisions : 0..MaxDecisions, crashes : 0..MaxCrashes]
      /\ ApTypeOK /\ \A e \in Daemons : DaemonSense(e)
  BY TypesByName DEF ApprovalInv
<1>2. UNCHANGED <<db, job, path, mails, replies, count>>  BY DEF Dequeue, post
<1>3. UNCHANGED <<row, asked, crossed>>  BY <1>2 DEF db
<1>4. CASE daemon' = Stopped(d)
  <2>1. daemon' \in [Daemons -> DaemonRec] /\ \A e \in Daemons : DaemonSense(e)'
    BY <1>1, <1>3, <1>4, StoppedIsFine
  <2> QED BY <1>1, <1>2, <2>1, DaemonOnly
<1>5. CASE \E order \in SetToSeqs(Queued) : \E res \in Results(order) :
             daemon' = [daemon EXCEPT ![d].pc = "mail",
                          ![d].batch = [i \in 1..Len(order) |-> Copy(order[i], res[i])]]
  <2>1. PICK order \in SetToSeqs(Queued) : \E res \in Results(order) :
             daemon' = [daemon EXCEPT ![d].pc = "mail",
                          ![d].batch = [i \in 1..Len(order) |-> Copy(order[i], res[i])]]
    BY <1>5
  <2>2. PICK res \in Results(order) :
             daemon' = [daemon EXCEPT ![d].pc = "mail",
                          ![d].batch = [i \in 1..Len(order) |-> Copy(order[i], res[i])]]
    BY <2>1
  <2>3. order \in Seq(Queued) /\ Len(order) \in Nat
        /\ \A i \in 1..Len(order) : order[i] \in Queued
    <3>1. IsFiniteSet(Queued)  BY FS_Subset DEF Queued
    <3>2. Cardinality(Queued) \in Nat  BY <3>1, FS_CardinalityType
    <3>3. order \in [1..Cardinality(Queued) -> Queued]  BY DEF SetToSeqs
    <3> QED BY <3>2, <3>3
  <2>4. \A i \in 1..Len(order) : /\ res[i].cc \in Staff \cup {Unknown}
                                 /\ res[i].to \in Managers \cup {Unknown}
    BY DEF Results
  <2> DEFINE b == [i \in 1..Len(order) |-> Copy(order[i], res[i])]
             r == [daemon[d] EXCEPT !.pc = "mail", !.batch = b]
  <2>5. ASSUME NEW i \in 1..Len(order)
        PROVE  Copy(order[i], res[i]) \in Copies /\ CopySense(Copy(order[i], res[i]))
    <3> DEFINE c == order[i]
    <3>1. c \in Customers /\ row[c].queue /\ row[c].status \notin Dead
          /\ row[c] \in Rows /\ RowSense(c)
      BY <1>1, <2>3 DEF Queued, ApprovalInv
    <3>2. /\ row[c].status \in {"pending", "approved"} /\ row[c].coreid \in Askers
          /\ row[c].mngid \in Managers \cup {Unknown} /\ row[c].coreid # Unknown
          /\ crossed \/ Fits(row[c].mngid, row[c].coreid)
      BY <3>1 DEF Rows, Statuses, Dead, RowSense
    <3> HIDE DEF c
    <3>4. Copy(c, res[i]) \in Copies  BY <2>4, <3>1, <3>2 DEF Copy, Copies
    <3>5. /\ Copy(c, res[i]).customer = c /\ Copy(c, res[i]).coreid = row[c].coreid
          /\ Copy(c, res[i]).mngid = row[c].mngid
      BY DEF Copy
    <3>6. CopySense(Copy(c, res[i]))  BY <3>2, <3>5 DEF CopySense
    <3> QED BY <3>4, <3>6 DEF c
  <2>6. b \in Seq(Copies) /\ Len(b) = Len(order)
        /\ \A i \in 1..Len(order) : b[i] = Copy(order[i], res[i])
    BY <2>3, <2>5
  <2>7. daemon' = [daemon EXCEPT ![d] = r]
    <3>1. daemon' = [daemon EXCEPT ![d].pc = "mail", ![d].batch = b]  BY <2>2
    <3> HIDE DEF b
    <3> QED BY <1>1, <3>1
  <2> HIDE DEF b
  <2>8. r \in DaemonRec /\ r.pc = "mail" /\ r.batch = b
    <3>1. daemon[d] \in DaemonRec  BY <1>1
    <3> QED BY <2>6, <3>1, NewBatch
  <2> HIDE DEF r
  <2>9. /\ daemon' \in [Daemons -> DaemonRec] /\ daemon'[d] = r
        /\ \A e \in Daemons \ {d} : daemon'[e] = daemon[e]
    BY <1>1, <2>7, <2>8
  <2>10. \A q : (\E i \in 1..Len(b) : q = b[i]) => CopySense(q)'
    BY <1>3, <2>5, <2>6 DEF CopySense
  <2>11. DaemonSense(d)'
    <3>1. daemon'[d].pc = "mail" /\ daemon'[d].batch = b  BY <2>8, <2>9
    <3> QED BY <2>10, <3>1 DEF DaemonSense
  <2>12. \A e \in Daemons : DaemonSense(e)'  BY <1>1, <1>3, <2>9, <2>11, DaemonsKept
  <2> QED BY <1>1, <1>2, <2>9, <2>12, DaemonOnly
<1> QED BY <1>4, <1>5 DEF Dequeue

LEMMA SendMailStep ==
    ASSUME ApprovalInv, NEW d \in Daemons, SendMail(d) PROVE ApprovalInv'
<1>1. /\ daemon \in [Daemons -> DaemonRec] /\ path \in Files /\ mails \subseteq Copies
      /\ replies \in [sent : SUBSET (Copies \X People), seen : SUBSET (Copies \X People)]
      /\ count \in [jobs : 0..MaxJobs, replies : 0..MaxReplies,
                     decisions : 0..MaxDecisions, crashes : 0..MaxCrashes]
  BY TypesByName DEF ApprovalInv
<1>2. daemon[d].batch \in Seq(Copies) /\ daemon[d].batch # <<>>
  BY <1>1 DEF DaemonRec, SendMail
<1>3. mails' \subseteq Copies  BY <1>1, <1>2 DEF SendMail
<1> DEFINE r == [daemon[d] EXCEPT !.pc = "mark"]
<1>4. r \in DaemonRec /\ r.pc = "mark" /\ r.batch = daemon[d].batch  BY <1>1 DEF DaemonRec
<1>5. daemon' = [daemon EXCEPT ![d] = r]  BY <1>1 DEF SendMail
<1>6. UNCHANGED <<db, job, replies, count, path>>  BY DEF SendMail
<1> HIDE DEF r
<1>7. daemon' \in [Daemons -> DaemonRec] /\ \A e \in Daemons : DaemonSense(e)'
  BY <1>2, <1>4, <1>5, <1>6, SameLoad DEF db
<1> QED BY <1>1, <1>3, <1>6, <1>7, DaemonOnly

(* mark_dequeued writes the copy's manager; where the row has another      *)
(* requester by then, the managers are crossed from then on.               *)
LEMMA MarkDequeuedStep ==
    ASSUME ApprovalInv, NEW d \in Daemons, MarkDequeued(d) PROVE ApprovalInv'
<1> DEFINE q == Head(daemon[d].batch)
           r == [row[q.customer] EXCEPT !.queue = FALSE, !.mngid = q.mngid]
           n == [daemon[d] EXCEPT !.pc = "mail", !.batch = Tail(daemon[d].batch)]
<1>1. /\ daemon \in [Daemons -> DaemonRec] /\ row \in [Customers -> Rows]
      /\ keys \in [Customers -> SUBSET (Askers \X (Managers \cup {Unknown}))]
      /\ DaemonSense(d) /\ daemon[d].pc = "mark" /\ ApTypeOK
  BY TypesByName DEF ApprovalInv, MarkDequeued
<1>2. /\ daemon[d].batch \in Seq(Copies) /\ daemon[d].batch # <<>>
      /\ q = daemon[d].batch[1] /\ 1 \in 1..Len(daemon[d].batch)
  BY <1>1 DEF DaemonRec, DaemonSense
<1>3. q \in Copies /\ CopySense(q)  BY <1>1, <1>2 DEF DaemonSense
<1>4. PICK c \in Customers : c = q.customer  BY <1>3 DEF Copies
<1>5. /\ row' = [row EXCEPT ![c] = r] /\ keys' = [keys EXCEPT ![c] = @ \cup {<<q.coreid, q.mngid>>}]
      /\ crossed' = (crossed \/ row[c].coreid # q.coreid)
      /\ UNCHANGED <<job, asked, consent, mails, replies, path, count>>
  <2>1. row' = [row EXCEPT ![q.customer].queue = FALSE, ![q.customer].mngid = q.mngid]
    BY DEF MarkDequeued
  <2>2. row' = [row EXCEPT ![c] = r]
    <3> HIDE DEF q
    <3> QED BY <1>1, <1>4, <2>1
  <2> QED BY <1>4, <2>2 DEF MarkDequeued, post
<1>6. daemon' = [daemon EXCEPT ![d] = n]  BY <1>1 DEF MarkDequeued
<1>7. /\ Tail(daemon[d].batch) \in Seq(Copies)
      /\ \A i \in 1..Len(Tail(daemon[d].batch)) :
           i + 1 \in 1..Len(daemon[d].batch) /\ Tail(daemon[d].batch)[i] = daemon[d].batch[i + 1]
  BY <1>2
<1>8. /\ n \in DaemonRec /\ n.pc = "mail" /\ n.batch = Tail(daemon[d].batch)
      /\ n.load = daemon[d].load
  <2>1. daemon[d] \in DaemonRec  BY <1>1
  <2> QED BY <1>7, <2>1, NewBatch
<1>9. /\ r \in Rows /\ r.coreid = row[c].coreid /\ r.status = row[c].status
      /\ r.queue = FALSE /\ r.mngid = q.mngid
  BY <1>1, <1>3, <1>4 DEF Rows, Copies
<1>10. q.coreid \in Askers /\ q.mngid \in Managers \cup {Unknown}  BY <1>3 DEF Copies
<1> HIDE DEF q, r, n
<1>11. /\ row' \in [Customers -> Rows] /\ row'[c] = r
       /\ \A e \in Customers \ {c} : row'[e] = row[e] /\ keys'[e] = keys[e]
       /\ keys' \in [Customers -> SUBSET (Askers \X (Managers \cup {Unknown}))]
       /\ daemon' \in [Daemons -> DaemonRec] /\ daemon'[d] = n
       /\ \A e \in Daemons \ {d} : daemon'[e] = daemon[e]
       /\ crossed' \in BOOLEAN /\ (crossed => crossed')
  <2>1. /\ row' \in [Customers -> Rows] /\ row'[c] = r
        /\ \A e \in Customers \ {c} : row'[e] = row[e]
    BY <1>1, <1>5, <1>9
  <2>2. /\ keys' \in [Customers -> SUBSET (Askers \X (Managers \cup {Unknown}))]
        /\ \A e \in Customers \ {c} : keys'[e] = keys[e]
    BY <1>1, <1>5, <1>10
  <2>3. /\ daemon' \in [Daemons -> DaemonRec] /\ daemon'[d] = n
        /\ \A e \in Daemons \ {d} : daemon'[e] = daemon[e]
    BY <1>1, <1>6, <1>8
  <2>4. crossed' \in BOOLEAN /\ (crossed => crossed')  BY <1>1, <1>5 DEF ApTypeOK
  <2> QED BY <2>1, <2>2, <2>3, <2>4
<1>12. ApTypeOK'  BY <1>1, <1>5, <1>11 DEF ApTypeOK, DaemonRec, LoadRec
<1>13. /\ row[c].coreid # Unknown /\ row[c].status # "none"
       /\ crossed' \/ Fits(r.mngid, r.coreid)
  BY <1>3, <1>4, <1>5, <1>9 DEF CopySense
<1>14. \A e \in Customers : RowSense(e)'
  BY <1>5, <1>9, <1>11, <1>13 DEF ApprovalInv, RowSense, Fits
<1>15. \A e \in Customers : /\ row[e].coreid # Unknown => row'[e].coreid # Unknown
                            /\ row[e].status # "none" => row'[e].status # "none"
  BY <1>9, <1>11
<1>16. \A t \in Servers : JobSense(t)'
  BY <1>5, <1>11, <1>15 DEF ApprovalInv, JobSense, Entitled
<1>17. \A e \in Daemons : DaemonSense(e)'
  <2>1. ASSUME NEW k \in Copies, CopySense(k) PROVE CopySense(k)'
    <3>1. k.customer \in Customers  BY DEF Copies
    <3> QED BY <1>11, <1>15, <2>1, <3>1 DEF CopySense
  <2>2. ASSUME NEW e \in Daemons \ {d} PROVE DaemonSense(e)'
    <3>1. DaemonSense(e) /\ daemon'[e] = daemon[e]  BY <1>11 DEF ApprovalInv
    <3>2. daemon[e].pc = "enqueue" => LoadSense(daemon[e].load)'
      BY <1>5, <1>11, <1>15, <3>1 DEF DaemonSense, LoadSense
    <3>3. daemon[e].batch \in Seq(Copies)  BY <1>1 DEF DaemonRec
    <3>4. \A i \in 1..Len(daemon[e].batch) : daemon[e].batch[i] \in Copies  BY <3>3
    <3>5. \A k : (\E i \in 1..Len(daemon[e].batch) : k = daemon[e].batch[i]) => CopySense(k)'
      <4>1. \A i \in 1..Len(daemon[e].batch) : CopySense(daemon[e].batch[i])
        BY <3>1 DEF DaemonSense
      <4> QED BY <2>1, <3>4, <4>1
    <3> QED BY <3>1, <3>2, <3>5 DEF DaemonSense
  <2>3. DaemonSense(d)'
    <3> DEFINE b == Tail(daemon[d].batch)
    <3>1. \A i \in 1..Len(b) : b[i] \in Copies  BY <1>7
    <3>2. \A i \in 1..Len(b) : CopySense(b[i])  BY <1>1, <1>7 DEF DaemonSense
    <3>3. \A k : (\E i \in 1..Len(b) : k = b[i]) => CopySense(k)'  BY <2>1, <3>1, <3>2
    <3>4. daemon'[d].pc = "mail" /\ daemon'[d].batch = b  BY <1>8, <1>11
    <3> HIDE DEF b
    <3> QED BY <3>3, <3>4 DEF DaemonSense
  <2> QED BY <2>2, <2>3
<1> QED BY <1>12, <1>14, <1>16, <1>17 DEF ApprovalInv

LEMMA ReplyStep ==
    ASSUME ApprovalInv, NEW m \in mails, NEW p \in People, Reply(m, p)
    PROVE  ApprovalInv'
<1>1. /\ daemon \in [Daemons -> DaemonRec] /\ path \in Files /\ mails \subseteq Copies
      /\ replies \in [sent : SUBSET (Copies \X People), seen : SUBSET (Copies \X People)]
      /\ count \in [jobs : 0..MaxJobs, replies : 0..MaxReplies,
                     decisions : 0..MaxDecisions, crashes : 0..MaxCrashes]
  BY TypesByName DEF ApprovalInv
<1>2. UNCHANGED <<db, job, mails, path, daemon>>  BY DEF Reply
<1>3. <<m, p>> \in Copies \X People  BY <1>1
<1>4. replies' \in [sent : SUBSET (Copies \X People), seen : SUBSET (Copies \X People)]
  <2> HIDE DEF Copies, People
  <2>1. replies' = [replies EXCEPT !.sent = @ \cup {<<m, p>>}]  BY DEF Reply
  <2> QED BY <1>1, <1>3, <2>1
<1>5. count' \in [jobs : 0..MaxJobs, replies : 0..MaxReplies,
                  decisions : 0..MaxDecisions, crashes : 0..MaxCrashes]
  <2>1. count.replies < MaxReplies /\ count' = [count EXCEPT !.replies = @ + 1]  BY DEF Reply
  <2> QED BY <1>1, <2>1, ApprovalBounds
<1>6. \A d \in Daemons : DaemonSense(d)'
  BY <1>2, DaemonsKept DEF ApprovalInv, db
<1> QED BY <1>1, <1>2, <1>4, <1>5, <1>6, DaemonOnly

LEMMA SearchStep ==
    ASSUME ApprovalInv, NEW d \in Daemons, Search(d) PROVE ApprovalInv'
<1> DEFINE new == replies.sent \ replies.seen
           r   == [daemon[d] EXCEPT !.pc = "read", !.unseen = new]
<1>1. /\ daemon \in [Daemons -> DaemonRec] /\ path \in Files /\ mails \subseteq Copies
      /\ replies \in [sent : SUBSET (Copies \X People), seen : SUBSET (Copies \X People)]
      /\ count \in [jobs : 0..MaxJobs, replies : 0..MaxReplies,
                     decisions : 0..MaxDecisions, crashes : 0..MaxCrashes]
      /\ ApTypeOK /\ \A e \in Daemons : DaemonSense(e)
  BY TypesByName DEF ApprovalInv
<1>2. UNCHANGED <<db, job, path, mails, replies, count>>  BY DEF Search, post
<1>3. UNCHANGED <<row, asked, crossed>>  BY <1>2 DEF db
<1>4. CASE daemon' = Stopped(d)
  <2>1. daemon' \in [Daemons -> DaemonRec] /\ \A e \in Daemons : DaemonSense(e)'
    BY <1>1, <1>3, <1>4, StoppedIsFine
  <2> QED BY <1>1, <1>2, <2>1, DaemonOnly
<1>5. CASE daemon' = [daemon EXCEPT ![d].pc = "read", ![d].unseen = new]
  <2>1. new \in SUBSET (Copies \X People) /\ daemon[d] \in DaemonRec
    <3> HIDE DEF Copies, People
    <3> QED BY <1>1
  <2> HIDE DEF new
  <2>2. r \in DaemonRec /\ r.pc = "read" /\ r.batch = daemon[d].batch
    BY <2>1 DEF DaemonRec
  <2>3. daemon' = [daemon EXCEPT ![d] = r]  BY <1>1, <1>5
  <2> HIDE DEF r
  <2>4. daemon' \in [Daemons -> DaemonRec] /\ \A e \in Daemons : DaemonSense(e)'
    BY <1>3, <2>2, <2>3, SameLoad
  <2> QED BY <1>1, <1>2, <2>4, DaemonOnly
<1> QED BY <1>4, <1>5 DEF Search

(* What the inbox loads was asked for, and the sender is the manager of     *)
(* an employee who asked.                                                  *)
LEMMA ReadReplyStep ==
    ASSUME ApprovalInv, NEW d \in Daemons, ReadReply(d) PROVE ApprovalInv'
<1> USE ApprovalFacts, ApprovalBounds
<1>1. /\ daemon \in [Daemons -> DaemonRec] /\ row \in [Customers -> Rows]
      /\ path \in Files /\ mails \subseteq Copies
      /\ replies \in [sent : SUBSET (Copies \X People), seen : SUBSET (Copies \X People)]
      /\ count \in [jobs : 0..MaxJobs, replies : 0..MaxReplies,
                     decisions : 0..MaxDecisions, crashes : 0..MaxCrashes]
      /\ ApTypeOK /\ \A e \in Daemons : DaemonSense(e)
  BY TypesByName DEF ApprovalInv
<1>2. UNCHANGED <<db, job, mails, path, count>>  BY DEF ReadReply
<1>3. UNCHANGED <<row, asked, crossed>>  BY <1>2 DEF db
<1> DEFINE Mng(c) == LdapManager(row[c].coreid, daemon[d].mng)
           Load(c, by) == [customer |-> c, coreid |-> row[c].coreid, mngid |-> row[c].mngid,
                           by |-> by]
           Rest(a) == [daemon EXCEPT ![d].unseen = @ \ {a}]
           After(a, c, by) == [Rest(a) EXCEPT ![d].mng = Mng(c), ![d].pc = "enqueue",
                                 ![d].load = Load(c, by)]
<1>4. PICK a \in daemon[d].unseen :
        /\ replies' = [replies EXCEPT !.seen = @ \cup {a}]
        /\ daemon' =
             IF <<a[1].coreid, a[1].mngid>> \notin keys[a[1].customer] THEN Rest(a)
             ELSE IF LdapEnds(row[a[1].customer].coreid) THEN Stopped(d)
             ELSE IF a[2] # Mng(a[1].customer)
                  THEN [Rest(a) EXCEPT ![d].mng = Mng(a[1].customer)]
             ELSE After(a, a[1].customer, a[2])
  BY DEF ReadReply
<1>5. a \in Copies \X People /\ a[1].customer \in Customers /\ a[2] \in People
  <2>1. a \in Copies \X People  BY <1>1, <1>4 DEF DaemonRec
  <2> QED BY <2>1 DEF Copies
<1>6. replies' \in [sent : SUBSET (Copies \X People), seen : SUBSET (Copies \X People)]
  <2> HIDE DEF Copies, People
  <2> QED BY <1>1, <1>4, <1>5
<1>7. PICK c \in Customers, by \in People : c = a[1].customer /\ by = a[2]  BY <1>5
<1> DEFINE u == daemon[d].unseen \ {a}
<1>8. \/ daemon' = Rest(a)
      \/ daemon' = Stopped(d)
      \/ keys[c] # {} /\ row[c].coreid \notin Strangers
         /\ daemon' = [Rest(a) EXCEPT ![d].mng = Mng(c)]
      \/ keys[c] # {} /\ row[c].coreid \notin Strangers
         /\ by = Mng(c) /\ daemon' = After(a, c, by)
  <2> HIDE DEF Mng, After, Rest
  <2> QED BY <1>4, <1>7 DEF LdapEnds
<1> SUFFICES daemon' \in [Daemons -> DaemonRec] /\ \A e \in Daemons : DaemonSense(e)'
  <2> HIDE DEF Mng, After, Rest, DaemonRec
  <2> QED BY <1>1, <1>2, <1>6, DaemonOnly
<1>9. Mng(c) \in Managers \cup {Unknown} /\ row[c] \in Rows /\ daemon[d] \in DaemonRec
      /\ u \in SUBSET (Copies \X People) /\ daemon[d].mng \in Managers \cup {Unknown}
  BY <1>1, ManagerInResults DEF DaemonRec
<1>10. ASSUME NEW m \in Managers \cup {Unknown},
              daemon' = [daemon EXCEPT ![d] = [daemon[d] EXCEPT !.unseen = u, !.mng = m]]
       PROVE  daemon' \in [Daemons -> DaemonRec] /\ \A e \in Daemons : DaemonSense(e)'
  <2> DEFINE r == [daemon[d] EXCEPT !.unseen = u, !.mng = m]
  <2> HIDE DEF u
  <2>1. r \in DaemonRec /\ r.batch = daemon[d].batch /\ r.pc = daemon[d].pc
    BY <1>9 DEF DaemonRec
  <2>2. daemon[d].pc = "read"  BY DEF ReadReply
  <2> HIDE DEF r
  <2>3. daemon' = [daemon EXCEPT ![d] = r]  BY <1>10 DEF r
  <2> QED BY <1>3, <2>1, <2>2, <2>3, SameLoad
<1>11. CASE daemon' = Rest(a)
  <2>1. daemon[d] = [daemon[d] EXCEPT !.mng = daemon[d].mng]  BY <1>9 DEF DaemonRec
  <2>2. [daemon[d] EXCEPT !.unseen = u] = [daemon[d] EXCEPT !.unseen = u, !.mng = daemon[d].mng]
    <3> HIDE DEF u
    <3> QED BY <1>9 DEF DaemonRec
  <2>3. daemon' = [daemon EXCEPT ![d] = [daemon[d] EXCEPT !.unseen = u]]  BY <1>11
  <2> HIDE DEF Rest, u
  <2> QED BY <1>9, <1>10, <2>2, <2>3
<1>12. CASE daemon' = [Rest(a) EXCEPT ![d].mng = Mng(c)] \/ daemon' = Stopped(d)
  <2>1. CASE daemon' = Stopped(d)  BY <1>1, <1>3, <2>1, StoppedIsFine
  <2>2. CASE daemon' = [Rest(a) EXCEPT ![d].mng = Mng(c)]
    <3> HIDE DEF Mng
    <3>1. daemon' = [daemon EXCEPT ![d] = [daemon[d] EXCEPT !.unseen = u, !.mng = Mng(c)]]
      BY <1>1, <2>2
    <3> HIDE DEF Rest, u
    <3> QED BY <1>9, <1>10, <3>1
  <2> QED BY <1>12, <2>1, <2>2
<1>13. CASE keys[c] # {} /\ row[c].coreid \notin Strangers
            /\ by = Mng(c) /\ daemon' = After(a, c, by)
  <2> DEFINE l == Load(c, by)
             r == [daemon[d] EXCEPT !.unseen = u, !.mng = Mng(c), !.pc = "enqueue", !.load = l]
  <2>1. RowSense(c) /\ row[c].coreid # Unknown /\ row[c].coreid \in asked[c]
        /\ (crossed \/ Fits(row[c].mngid, row[c].coreid))
        /\ row[c].coreid \in Listed /\ row[c].coreid \in Askers
        /\ row[c].mngid \in Managers \cup {Unknown}
    <3>1. RowSense(c)  BY DEF ApprovalInv
    <3>2. row[c].coreid \in Askers \cup {Unknown} /\ row[c].mngid \in Managers \cup {Unknown}
      BY <1>9 DEF Rows
    <3> QED BY <1>13, <3>1, <3>2 DEF RowSense
  <2>2. l \in LoadRec  BY <2>1 DEF LoadRec
  <2>3. LoadSense(l)
    <3>1. row[c].coreid \in Led => by = Manager[row[c].coreid]  BY <1>13, ManagerInResults
    <3>2. /\ l.customer = c /\ l.by = by /\ l.coreid = row[c].coreid
          /\ l.mngid = row[c].mngid
      OBVIOUS
    <3> HIDE DEF l
    <3> QED BY <2>1, <3>1, <3>2 DEF LoadSense
  <2>4. daemon' = [daemon EXCEPT ![d] = r]
    <3>1. daemon' = [Rest(a) EXCEPT ![d].mng = Mng(c), ![d].pc = "enqueue", ![d].load = l]
      BY <1>13
    <3> HIDE DEF Mng, l
    <3> QED BY <1>1, <3>1
  <2> HIDE DEF Mng, l, u, Rest
  <2>5. r \in DaemonRec /\ r.batch = daemon[d].batch /\ r.pc = "enqueue" /\ r.load = l
    BY <1>9, <2>2 DEF DaemonRec
  <2> HIDE DEF r
  <2>6. /\ daemon' \in [Daemons -> DaemonRec] /\ daemon'[d] = r
        /\ \A e \in Daemons \ {d} : daemon'[e] = daemon[e]
    BY <1>1, <2>4, <2>5
  <2>7. \A k : LoadSense(k) => LoadSense(k)'  BY <1>3 DEF LoadSense
  <2>8. \A k : CopySense(k) => CopySense(k)'  BY <1>3 DEF CopySense
  <2>9. DaemonSense(d)'
    <3>1. DaemonSense(d)  BY <1>1
    <3>2. \A i \in 1..Len(daemon[d].batch) : CopySense(daemon[d].batch[i])
      BY <3>1 DEF DaemonSense
    <3>3. \A k : (\E i \in 1..Len(daemon[d].batch) : k = daemon[d].batch[i]) => CopySense(k)'
      BY <2>8, <3>2
    <3>4. \A k : k = l => LoadSense(k)'  BY <2>3, <2>7
    <3>5. daemon'[d].pc = "enqueue" /\ daemon'[d].batch = daemon[d].batch
          /\ daemon'[d].load = l
      BY <2>5, <2>6
    <3> QED BY <3>3, <3>4, <3>5 DEF DaemonSense
  <2> QED BY <1>1, <1>3, <2>6, <2>9, DaemonsKept
<1> QED BY <1>8, <1>11, <1>12, <1>13

LEMMA Unloaded ==
    ASSUME NEW x \in DaemonRec, NEW l \in LoadRec
    PROVE  LET y == [x EXCEPT !.pc = "read", !.load = l]
           IN  y \in DaemonRec /\ y.pc = "read" /\ y.batch = x.batch
  BY DEF DaemonRec

LEMMA EnqueueStep ==
    ASSUME ApprovalInv, NEW d \in Daemons, Enqueue(d) PROVE ApprovalInv'
<1> USE ApprovalFacts, ApprovalBounds
<1> DEFINE q == daemon[d].load
           r == [row[q.customer] EXCEPT !.status = "approved", !.queue = TRUE, !.mngid = q.mngid]
           n == [daemon[d] EXCEPT !.pc = "read", !.load = Nothing]
<1>1. /\ daemon \in [Daemons -> DaemonRec] /\ row \in [Customers -> Rows]
      /\ consent \in [Customers -> People \cup {Unknown}]
      /\ DaemonSense(d) /\ daemon[d].pc = "enqueue" /\ ApTypeOK
      /\ \A e \in Daemons : DaemonSense(e)
  BY TypesByName DEF ApprovalInv, Enqueue
<1>2. q \in LoadRec /\ LoadSense(q)  BY <1>1 DEF DaemonRec, DaemonSense
<1>3. PICK c \in Customers : c = q.customer  BY <1>2 DEF LoadSense
<1>4. /\ row' = [row EXCEPT ![c] = r] /\ consent' = [consent EXCEPT ![c] = q.by]
      /\ crossed' = (crossed \/ row[c].coreid # q.coreid)
      /\ daemon' = [daemon EXCEPT ![d] = n]
      /\ UNCHANGED <<keys, job, asked, mails, replies, path, count>>
  <2>1. row' = [row EXCEPT ![q.customer].status = "approved", ![q.customer].queue = TRUE,
                           ![q.customer].mngid = q.mngid]
    BY DEF Enqueue
  <2>2. row' = [row EXCEPT ![c] = r]
    <3> HIDE DEF q
    <3> QED BY <1>1, <1>3, <2>1
  <2>3. daemon' = [daemon EXCEPT ![d] = n]  BY <1>1 DEF Enqueue
  <2> QED BY <1>3, <2>2, <2>3 DEF Enqueue, post
<1>5. r \in Rows /\ r.coreid = row[c].coreid /\ r.status = "approved" /\ r.mngid = q.mngid
  <2>1. q.mngid \in Managers \cup {Unknown} /\ row[q.customer] \in Rows
    BY <1>1, <1>2, <1>3 DEF LoadRec
  <2>2. PICK x \in Rows, m \in Managers \cup {Unknown} : x = row[q.customer] /\ m = q.mngid
    BY <2>1
  <2> HIDE DEF q
  <2>3. r = [x EXCEPT !.status = "approved", !.queue = TRUE, !.mngid = m]  BY <2>2
  <2>4. row[c] = x  BY <1>3, <2>2
  <2> HIDE DEF r
  <2>5. r \in Rows /\ r.coreid = x.coreid /\ r.status = "approved" /\ r.mngid = m
    BY <2>3 DEF Rows, Statuses
  <2> QED BY <2>2, <2>4, <2>5
<1>6. n \in DaemonRec /\ n.pc = "read" /\ n.batch = daemon[d].batch
  <2>1. Nothing \in LoadRec  BY DEF LoadRec, Nothing
  <2>2. daemon[d] \in DaemonRec  BY <1>1
  <2> QED BY <2>1, <2>2, Unloaded
<1>7. q.by \in People  BY <1>2 DEF LoadSense
<1> HIDE DEF q, r, n
<1>8. /\ row' \in [Customers -> Rows] /\ row'[c] = r
      /\ \A e \in Customers \ {c} : row'[e] = row[e]
  BY <1>1, <1>4, <1>5
<1>9. consent' \in [Customers -> People \cup {Unknown}]  BY <1>1, <1>4, <1>7
<1>10. /\ daemon' \in [Daemons -> DaemonRec] /\ daemon'[d] = n
       /\ \A e \in Daemons \ {d} : daemon'[e] = daemon[e]
  BY <1>1, <1>4, <1>6
<1>11. crossed' \in BOOLEAN /\ (crossed => crossed')  BY <1>1, <1>4 DEF ApTypeOK
<1>12. ApTypeOK'
  BY <1>1, <1>4, <1>8, <1>9, <1>10, <1>11 DEF ApTypeOK, DaemonRec, LoadRec
<1>13. /\ row[c].coreid # Unknown /\ r.coreid \in asked[c]
       /\ crossed' \/ Fits(r.mngid, r.coreid)
  <2>1. RowSense(c)  BY DEF ApprovalInv
  <2> QED BY <1>2, <1>3, <1>4, <1>5, <2>1 DEF LoadSense, RowSense
<1>14. \A e \in Customers : RowSense(e)'
  <2>1. ASSUME NEW e \in Customers \ {c} PROVE RowSense(e)'
    <3>1. RowSense(e) /\ row'[e] = row[e]  BY <1>8 DEF ApprovalInv
    <3> QED BY <1>4, <1>11, <3>1 DEF RowSense
  <2>2. RowSense(c)'  BY <1>4, <1>5, <1>8, <1>13 DEF RowSense
  <2> QED BY <2>1, <2>2
<1>15. \A e \in Customers : /\ row[e].coreid # Unknown => row'[e].coreid # Unknown
                            /\ row[e].status # "none" => row'[e].status # "none"
  BY <1>5, <1>8
<1>16. \A t \in Servers : JobSense(t)'
  BY <1>4, <1>11, <1>15 DEF ApprovalInv, JobSense, Entitled
<1>17. \A e \in Daemons : DaemonSense(e)'
  <2>1. ASSUME NEW k \in Copies, CopySense(k) PROVE CopySense(k)'
    <3>1. k.customer \in Customers  BY DEF Copies
    <3> QED BY <1>11, <1>15, <2>1, <3>1 DEF CopySense
  <2>2. ASSUME NEW e \in Daemons
        PROVE  \A k : (\E i \in 1..Len(daemon[e].batch) : k = daemon[e].batch[i]) => CopySense(k)'
    <3>1. daemon[e].batch \in Seq(Copies)  BY <1>1 DEF DaemonRec
    <3>2. \A i \in 1..Len(daemon[e].batch) : daemon[e].batch[i] \in Copies  BY <3>1
    <3>3. \A i \in 1..Len(daemon[e].batch) : CopySense(daemon[e].batch[i])
      BY <1>1 DEF DaemonSense
    <3> QED BY <2>1, <3>2, <3>3
  <2>3. ASSUME NEW e \in Daemons \ {d} PROVE DaemonSense(e)'
    <3>1. DaemonSense(e) /\ daemon'[e] = daemon[e]  BY <1>1, <1>10
    <3>2. daemon[e].pc = "enqueue" => LoadSense(daemon[e].load)'
      BY <1>4, <1>11, <1>15, <3>1 DEF DaemonSense, LoadSense
    <3> QED BY <2>2, <3>1, <3>2 DEF DaemonSense
  <2>4. DaemonSense(d)'
    <3>1. daemon'[d].pc = "read" /\ daemon'[d].batch = daemon[d].batch  BY <1>6, <1>10
    <3> QED BY <2>2, <3>1 DEF DaemonSense
  <2> QED BY <2>3, <2>4
<1> QED BY <1>12, <1>14, <1>16, <1>17 DEF ApprovalInv

LEMMA ApprovalStep == ApprovalInv /\ [ApNext]_apvars => ApprovalInv'
<1> SUFFICES ASSUME ApprovalInv, [ApNext]_apvars PROVE ApprovalInv'  OBVIOUS
<1>1. CASE UNCHANGED apvars
  <2>1. UNCHANGED <<row, keys, job, asked, consent, mails, replies, path, daemon,
                    count, crossed>>
    BY <1>1 DEF apvars
  <2>2. ApTypeOK'  BY <2>1 DEF ApprovalInv, ApTypeOK
  <2>3. \A s \in Servers : JobSense(s)'  BY <2>1, JobsKept DEF ApprovalInv
  <2>4. \A d \in Daemons : DaemonSense(d)'  BY <2>1, DaemonsKept DEF ApprovalInv
  <2> QED BY <2>1, <2>2, <2>3, <2>4, RowsKept DEF ApprovalInv
<1>2. ASSUME NEW s \in Servers, Begin(s) \/ ServerStep(s) PROVE ApprovalInv'
  BY <1>2, BeginStep, LookStep, FindManagerStep, InsertStep, ReadManagerStep, ApproveStep
     DEF ServerStep
<1>3. ASSUME NEW c \in Customers, Decide(c) PROVE ApprovalInv'  BY <1>3, DecideStep
<1>4. ASSUME NEW d \in Daemons, Open(d) \/ Lock(d) \/ Refuse(d) \/ DaemonStep(d) \/ Crash(d)
      PROVE  ApprovalInv'
  BY <1>4, LockFileSteps, DequeueStep, SendMailStep, MarkDequeuedStep, SearchStep,
     ReadReplyStep, EnqueueStep
     DEF DaemonStep
<1>5. ASSUME NEW m \in mails, NEW p \in People, Reply(m, p) PROVE ApprovalInv'
  BY <1>5, ReplyStep
<1> QED BY <1>1, <1>2, <1>3, <1>4, <1>5 DEF ApNext

(* Whatever the processes read and overwrite, the variables keep their      *)
(* types and a row, a job, a copy and a load their sense.                  *)
THEOREM ApprovalIsTyped == ApSpec => []ApTypeOK
<1>1. ApprovalInv => ApTypeOK  BY DEF ApprovalInv
<1> QED BY <1>1, ApprovalInit, ApprovalStep, PTL DEF ApSpec
-----------------------------------------------------------------------------
(* Managers never come from nowhere: whoever stands in a row, a job, a     *)
(* copy, a load or results is the manager of someone who asked, or of the  *)
(* one whose request is being entered, although all are overwritten with   *)
(* one another.                                                            *)
OfHead(m) == m = Unknown \/ m \in Heads

HeadJob(s) ==
    /\ job[s].step = "insert" => OfHead(job[s].mng) \/ Fits(job[s].mng, job[s].who)
    /\ job[s].step = "approve" => job[s].who \in Heads \cup {Super}

HeadDaemon(d) ==
    /\ OfHead(daemon[d].mng)
    /\ \A i \in 1..Len(daemon[d].batch) : OfHead(daemon[d].batch[i].mngid)
    /\ daemon[d].pc = "enqueue" => OfHead(daemon[d].load.mngid) /\ daemon[d].load.by \in Heads

HeadInv ==
    /\ \A c \in Customers : OfHead(row[c].mngid)
    /\ \A s \in Servers : HeadJob(s)
    /\ \A d \in Daemons : HeadDaemon(d)

LEMMA HeadOfAsker ==
    \A m : m \in Heads <=> \E c \in Customers : \E p \in asked[c] \ Strangers : m = Manager[p]
<1>1. \A p : p \in EverAsked <=> \E c \in Customers : p \in asked[c]  BY DEF EverAsked
<1>2. \A m : m \in Heads <=> \E p \in EverAsked \ Strangers : m = Manager[p]  BY DEF Heads
<1> QED BY <1>1, <1>2

LEMMA NextHeads ==
    \A m : m \in Heads' <=> \E c \in Customers : \E p \in asked'[c] \ Strangers : m = Manager[p]
<1>1. \A p : p \in EverAsked' <=> \E c \in Customers : p \in asked'[c]  BY DEF EverAsked
<1>2. \A m : m \in Heads' <=> \E p \in EverAsked' \ Strangers : m = Manager[p]  BY DEF Heads
<1> QED BY <1>1, <1>2

LEMMA HeadsGrow ==
    ASSUME \A c \in Customers : asked[c] \subseteq asked'[c]
    PROVE  \A m : (m \in Heads => m \in Heads') /\ (OfHead(m) => OfHead(m)')
<1>1. \A m : m \in Heads => m \in Heads'  BY HeadOfAsker, NextHeads
<1> QED BY <1>1 DEF OfHead

LEMMA AskedGrows ==
    ASSUME ApprovalInv, [ApNext]_apvars
    PROVE  \A c \in Customers : asked[c] \subseteq asked'[c]
<1>1. asked \in [Customers -> SUBSET Askers]  BY TypesByName DEF ApprovalInv
<1>2. ASSUME NEW s \in Servers, Insert(s) PROVE \A c \in Customers : asked[c] \subseteq asked'[c]
  <2>1. PICK k, p : asked' = [asked EXCEPT ![k] = @ \cup {p}]  BY <1>2 DEF Insert
  <2> QED BY <1>1, <2>1
<1>3. CASE asked' = asked  BY <1>3
<1> QED
  BY <1>2, <1>3
     DEF ApNext, apvars, db, Begin, ServerStep, Look, Check, FindManager, ReadManager, Approve,
         Decide, Open, Lock, Refuse, DaemonStep, Crash, Finish, Dequeue, SendMail,
         MarkDequeued, Search, ReadReply, Enqueue, Reply

(* The manager of a requester who stands in a row heads someone who asked.  *)
LEMMA RequesterHasHead ==
    ASSUME ApprovalInv, NEW c \in Customers, row[c].coreid \in Listed
    PROVE  Manager[row[c].coreid] \in Heads
<1>1. row[c].coreid # Unknown /\ row[c].coreid \notin Strangers  BY ApprovalFacts
<1>2. row[c].coreid \in asked[c]  BY <1>1 DEF ApprovalInv, RowSense
<1> QED BY <1>1, <1>2, HeadOfAsker

LEMMA HeadKept ==
    ASSUME NEW d, HeadDaemon(d), \A m : (m \in Heads => m \in Heads') /\ (OfHead(m) => OfHead(m)'),
           \/ daemon'[d] = Asleep
           \/ /\ daemon'[d].batch = daemon[d].batch /\ daemon'[d].mng = daemon[d].mng
              /\ daemon'[d].pc = "enqueue" =>
                   daemon[d].pc = "enqueue" /\ daemon'[d].load = daemon[d].load
    PROVE  HeadDaemon(d)'
<1>1. CASE daemon'[d] = Asleep  BY <1>1 DEF HeadDaemon, Asleep, OfHead
<1>2. CASE daemon'[d] # Asleep  BY <1>2 DEF HeadDaemon, OfHead
<1> QED BY <1>1, <1>2

(* The server's processes: the manager found is a row's or the requester's *)
(* own, who has asked once he is inserted; who approves is a row's.        *)
LEMMA HeadServer ==
    ASSUME ApprovalInv, HeadInv, NEW s \in Servers, Begin(s) \/ ServerStep(s),
           \A m : (m \in Heads => m \in Heads') /\ (OfHead(m) => OfHead(m)')
    PROVE  HeadInv'
<1>1. /\ job \in [Servers -> JobRec] /\ row \in [Customers -> Rows] /\ JobSense(s)
      /\ asked \in [Customers -> SUBSET Askers]
  BY TypesByName DEF ApprovalInv
<1>2. /\ UNCHANGED daemon
      /\ \A t \in Servers \ {s} : job'[t] = job[t]
  BY <1>1 DEF Begin, ServerStep, Look, Check, FindManager, Insert, ReadManager, Approve,
              Goto, End
<1>3. \A d \in Daemons : HeadDaemon(d)'
  <2> SUFFICES ASSUME NEW d \in Daemons PROVE HeadDaemon(d)'  OBVIOUS
  <2>1. HeadDaemon(d)  BY DEF HeadInv
  <2> QED BY <1>2, <2>1, HeadKept
<1>4. \A t \in Servers \ {s} : HeadJob(t)'
  <2> SUFFICES ASSUME NEW t \in Servers \ {s} PROVE HeadJob(t)'  OBVIOUS
  <2>1. HeadJob(t) /\ job'[t] = job[t]  BY <1>2 DEF HeadInv
  <2> QED BY <2>1 DEF HeadJob, Fits, OfHead
<1> SUFFICES HeadJob(s)' /\ \A c \in Customers : OfHead(row[c].mngid)'
  BY <1>3, <1>4 DEF HeadInv
<1>5. \A c \in Customers : OfHead(row[c].mngid)  BY DEF HeadInv
<1>6. row' = row => \A c \in Customers : OfHead(row[c].mngid)'  BY <1>5
<1>7. CASE Begin(s) \/ Look(s) \/ Check(s)
  <2>1. row' = row  BY <1>7 DEF Begin, Look, Check, db
  <2>2. job'[s].step \in {"idle", "look", "check", "manager"}
    <3>1. CASE Begin(s)
      <4>1. PICK kind, c, p :
              job' = [job EXCEPT ![s] =
                        [step |-> CASE kind = "ask" -> "check"
                                    [] kind = "approve" -> "manager" [] OTHER -> "look",
                         kind |-> kind, who |-> p, customer |-> c, mng |-> Unknown]]
        BY <3>1 DEF Begin
      <4> QED BY <1>1, <4>1
    <3>2. CASE Look(s) \/ Check(s)
      BY <1>1, <3>2 DEF Look, Check, Goto, End, Idle, JobRec
    <3> QED BY <1>7, <3>1, <3>2
  <2> QED BY <1>6, <2>1, <2>2 DEF HeadJob
<1>8. CASE FindManager(s)
  <2> DEFINE p == job[s].who
             own == {row[c].mngid : c \in {e \in Customers : row[e].coreid = p}}
  <2>1. PICK m \in own \cup {Unknown} :
          \E found \in IF m # Unknown THEN {m}
                        ELSE {Unknown} \cup {Manager[q] : q \in {p} \ Strangers} :
            job' = [job EXCEPT ![s].step = "insert", ![s].mng = found]
    BY <1>8 DEF FindManager
  <2>2. PICK found \in IF m # Unknown THEN {m}
                        ELSE {Unknown} \cup {Manager[q] : q \in {p} \ Strangers} :
            job' = [job EXCEPT ![s].step = "insert", ![s].mng = found]
    BY <2>1
  <2>3. p \in Askers  BY <1>1, <1>8 DEF JobSense, FindManager
  <2>4. OfHead(found) \/ Fits(found, p)
    <3>1. CASE m # Unknown  BY <1>5, <2>1, <2>2, <3>1
    <3>2. CASE m = Unknown  BY <2>2, <2>3, <3>2, ApprovalFacts DEF Fits
    <3> QED BY <3>1, <3>2
  <2>5. job'[s].step = "insert" /\ job'[s].mng = found /\ job'[s].who = p
    <3> HIDE DEF p
    <3> QED BY <1>1, <2>2 DEF JobRec, p
  <2>6. row' = row  BY <1>8 DEF FindManager, db
  <2> QED BY <1>6, <2>4, <2>5, <2>6 DEF HeadJob, Fits
<1>9. CASE Insert(s)
  <2>1. HeadJob(s) /\ job[s].step = "insert"  BY <1>9 DEF HeadInv, Insert
  <2>2. PICK k \in Customers : k = job[s].customer  BY <1>1, <2>1 DEF JobSense
  <2>3. PICK p \in Askers, m \in Managers \cup {Unknown} : p = job[s].who /\ m = job[s].mng
    BY <1>1, <2>1 DEF JobSense, JobRec
  <2>4. \E l : row' = [row EXCEPT ![k] = [status |-> l, queue |-> TRUE, coreid |-> p,
                                          mngid |-> m]]
    BY <1>9, <2>2, <2>3 DEF Insert
  <2>5. p \in asked'[k]  BY <1>1, <1>9, <2>2, <2>3 DEF Insert
  <2>6. OfHead(m)'
    <3>1. CASE OfHead(m)  BY <3>1
    <3>2. CASE Fits(m, p)
      <4>1. p \in Listed => p \notin Strangers  BY ApprovalFacts
      <4>2. p \in Listed /\ m = Manager[p] => m \in Heads'
        BY <2>5, <4>1, NextHeads
      <4> QED BY <3>2, <4>2 DEF Fits, OfHead
    <3> QED BY <2>1, <2>3, <3>1, <3>2 DEF HeadJob
  <2>7. \A c \in Customers : OfHead(row[c].mngid)'
    <3>1. \A c \in Customers : row'[c].mngid \in {m, row[c].mngid}  BY <1>1, <2>4
    <3> QED BY <1>5, <2>6, <3>1 DEF OfHead
  <2>8. job'[s].step = "idle"  BY <1>1, <1>9 DEF Insert, End, Idle
  <2> QED BY <2>7, <2>8 DEF HeadJob
<1>10. CASE ReadManager(s)
  <2> DEFINE c == job[s].customer
  <2>1. row' = row  BY <1>10 DEF ReadManager, db
  <2>2. CASE End(s)  BY <1>1, <1>6, <2>1, <2>2 DEF End, Idle, HeadJob
  <2>3. CASE Goto(s, "approve") /\ job[s].who \in {row[c].mngid, Super}
    <3>1. c \in Customers /\ job[s].who \in People
      BY <1>1, <1>10 DEF JobSense, ReadManager
    <3>2. job[s].who \in Heads \cup {Super}
      BY <1>5, <2>3, <3>1, ApprovalFacts DEF OfHead
    <3>3. job'[s].step = "approve" /\ job'[s].who = job[s].who
      BY <1>1, <2>3 DEF Goto, JobRec
    <3> QED BY <1>6, <2>1, <3>2, <3>3 DEF HeadJob
  <2> QED BY <1>10, <2>2, <2>3 DEF ReadManager
<1>11. CASE Approve(s)
  <2> DEFINE k == job[s].customer
  <2>1. row' = [row EXCEPT ![k].status = "approved", ![k].queue = TRUE]
    BY <1>11 DEF Approve
  <2> HIDE DEF k
  <2>2. \A c \in Customers : row'[c].mngid = row[c].mngid  BY <1>1, <2>1 DEF Rows
  <2>3. job'[s].step = "idle"  BY <1>1, <1>11 DEF Approve, End, Idle
  <2> QED BY <1>5, <2>2, <2>3 DEF HeadJob
<1> QED BY <1>7, <1>8, <1>9, <1>10, <1>11 DEF ServerStep

(* The notifier's copies are rows it read.                                 *)
LEMMA HeadDequeue ==
    ASSUME ApprovalInv, HeadInv, NEW d \in Daemons, Dequeue(d) PROVE HeadDaemon(d)'
<1>1. /\ daemon \in [Daemons -> DaemonRec] /\ daemon[d] \in DaemonRec
      /\ HeadDaemon(d) /\ UNCHANGED asked
  BY TypesByName DEF ApprovalInv, HeadInv, Dequeue, db
<1>2. \A m : (m \in Heads => m \in Heads') /\ (OfHead(m) => OfHead(m)')
  BY <1>1, HeadsGrow
<1>3. CASE daemon' = Stopped(d)
  <2>1. daemon'[d] = Asleep  BY <1>1, <1>3 DEF Stopped
  <2> QED BY <1>1, <1>2, <2>1, HeadKept
<1>4. CASE daemon' # Stopped(d)
  <2>1. PICK order \in SetToSeqs(Queued) : \E res \in Results(order) :
             daemon' = [daemon EXCEPT ![d].pc = "mail",
                          ![d].batch = [i \in 1..Len(order) |-> Copy(order[i], res[i])]]
    BY <1>4 DEF Dequeue
  <2>2. PICK res \in Results(order) :
             daemon' = [daemon EXCEPT ![d].pc = "mail",
                          ![d].batch = [i \in 1..Len(order) |-> Copy(order[i], res[i])]]
    BY <2>1
  <2>3. Len(order) \in Nat /\ \A i \in 1..Len(order) : order[i] \in Queued
    <3>1. IsFiniteSet(Queued)  BY ApprovalBounds, FS_Subset DEF Queued
    <3>2. Cardinality(Queued) \in Nat  BY <3>1, FS_CardinalityType
    <3>3. order \in [1..Cardinality(Queued) -> Queued]  BY DEF SetToSeqs
    <3> QED BY <3>2, <3>3
  <2> DEFINE b == [i \in 1..Len(order) |-> Copy(order[i], res[i])]
  <2>4. \A i \in 1..Len(order) : OfHead(Copy(order[i], res[i]).mngid)
    BY <2>3 DEF Copy, Queued, HeadInv
  <2>5. Len(b) = Len(order) /\ \A i \in 1..Len(order) : b[i] = Copy(order[i], res[i])
    BY <2>3
  <2>6. \A i \in 1..Len(b) : OfHead(b[i].mngid)  BY <2>4, <2>5
  <2>7. daemon'[d].pc = "mail" /\ daemon'[d].batch = b /\ daemon'[d].mng = daemon[d].mng
    <3>1. daemon' = [daemon EXCEPT ![d].pc = "mail", ![d].batch = b]  BY <2>2
    <3> HIDE DEF b
    <3> QED BY <1>1, <3>1 DEF DaemonRec
  <2> HIDE DEF b
  <2>8. \A m : OfHead(m) => m = Unknown \/ m \in Heads'  BY <1>2 DEF OfHead
  <2>9. \A i \in 1..Len(b) : b[i].mngid = Unknown \/ b[i].mngid \in Heads'
    BY <2>6, <2>8
  <2>10. daemon[d].mng = Unknown \/ daemon[d].mng \in Heads'  BY <1>1, <2>8 DEF HeadDaemon
  <2> QED BY <2>7, <2>9, <2>10 DEF HeadDaemon, OfHead
<1> QED BY <1>3, <1>4

(* How an inbox leaves off reading a reply.                                *)
LEMMA ReadReplyEnds ==
    ASSUME NEW d, ReadReply(d)
    PROVE  LET Rest(a) == [daemon EXCEPT ![d].unseen = @ \ {a}]
               Mng(c) == LdapManager(row[c].coreid, daemon[d].mng)
               Load(c, by) == [customer |-> c, coreid |-> row[c].coreid,
                               mngid |-> row[c].mngid, by |-> by]
           IN  \E a \in daemon[d].unseen :
                 daemon' = IF <<a[1].coreid, a[1].mngid>> \notin keys[a[1].customer] THEN Rest(a)
                           ELSE IF LdapEnds(row[a[1].customer].coreid) THEN Stopped(d)
                           ELSE IF a[2] # Mng(a[1].customer)
                                THEN [Rest(a) EXCEPT ![d].mng = Mng(a[1].customer)]
                           ELSE [Rest(a) EXCEPT ![d].mng = Mng(a[1].customer),
                                   ![d].pc = "enqueue", ![d].load = Load(a[1].customer, a[2])]
  BY Zenon DEF ReadReply

(* What an inbox takes from LDAP or from results before.                   *)
LEMMA HeadRead ==
    ASSUME ApprovalInv, HeadInv, NEW d \in Daemons, ReadReply(d) PROVE HeadDaemon(d)'
<1>1. /\ daemon \in [Daemons -> DaemonRec] /\ daemon[d] \in DaemonRec
      /\ HeadDaemon(d) /\ UNCHANGED asked /\ daemon[d].pc = "read"
  BY TypesByName DEF ApprovalInv, HeadInv, ReadReply, db
<1>2. \A m : (m \in Heads => m \in Heads') /\ (OfHead(m) => OfHead(m)')
  BY <1>1, HeadsGrow
<1> DEFINE Rest(a) == [daemon EXCEPT ![d].unseen = @ \ {a}]
           Mng(c) == LdapManager(row[c].coreid, daemon[d].mng)
           Load(c, by) == [customer |-> c, coreid |-> row[c].coreid,
                           mngid |-> row[c].mngid, by |-> by]
<1>3. PICK a \in daemon[d].unseen :
        daemon' = IF <<a[1].coreid, a[1].mngid>> \notin keys[a[1].customer] THEN Rest(a)
                  ELSE IF LdapEnds(row[a[1].customer].coreid) THEN Stopped(d)
                  ELSE IF a[2] # Mng(a[1].customer)
                       THEN [Rest(a) EXCEPT ![d].mng = Mng(a[1].customer)]
                  ELSE [Rest(a) EXCEPT ![d].mng = Mng(a[1].customer), ![d].pc = "enqueue",
                          ![d].load = Load(a[1].customer, a[2])]
  BY ReadReplyEnds, Zenon
<1>4. PICK c \in Customers, by \in People : c = a[1].customer /\ by = a[2]
  <2>1. a \in Copies \X People  BY <1>1 DEF DaemonRec
  <2> QED BY <2>1 DEF Copies
<1>5. OfHead(Mng(c)) /\ OfHead(row[c].mngid) /\ OfHead(daemon[d].mng)
  <2>1. OfHead(daemon[d].mng) /\ OfHead(row[c].mngid)  BY <1>1 DEF HeadInv, HeadDaemon
  <2>2. row[c].coreid \in Staff => Manager[row[c].coreid] \in Heads
    BY ApprovalFacts, RequesterHasHead
  <2> QED BY <2>1, <2>2, ManagerInResults DEF OfHead
<1> DEFINE u == daemon[d].unseen \ {a}
<1>6. Rest(a) = [daemon EXCEPT ![d].unseen = u]  OBVIOUS
<1> HIDE DEF Rest, Mng, u
<1>7. CASE daemon' = Stopped(d)
  <2>1. daemon'[d] = Asleep  BY <1>1, <1>7 DEF Stopped
  <2> QED BY <1>1, <1>2, <2>1, HeadKept
<1>8. CASE daemon' = Rest(a)
  <2>1. /\ daemon'[d].pc = "read" /\ daemon'[d].batch = daemon[d].batch
        /\ daemon'[d].mng = daemon[d].mng
    BY <1>1, <1>6, <1>8 DEF DaemonRec
  <2> QED BY <1>1, <1>2, <2>1, HeadKept
<1>9. ASSUME NEW m, NEW pc, NEW l, OfHead(m),
             /\ daemon'[d].batch = daemon[d].batch /\ daemon'[d].mng = m
             /\ daemon'[d].pc = pc,
             pc = "enqueue" => /\ daemon'[d].load = l
                               /\ OfHead(l.mngid) /\ l.by \in Heads
      PROVE  HeadDaemon(d)'
  <2> DEFINE Next(k) == k = Unknown \/ k \in Heads'
  <2>1. \A k : OfHead(k) => Next(k)  BY <1>2 DEF OfHead
  <2>2. \A i \in 1..Len(daemon[d].batch) : Next(daemon[d].batch[i].mngid)
    BY <1>1, <2>1 DEF HeadDaemon
  <2>3. Next(m) /\ (pc = "enqueue" => Next(l.mngid) /\ l.by \in Heads')
    BY <1>2, <1>9, <2>1
  <2> QED BY <1>9, <2>2, <2>3 DEF HeadDaemon, OfHead
<1>10. CASE daemon' = [Rest(a) EXCEPT ![d].mng = Mng(c)]
  <2>1. /\ daemon'[d].pc = "read" /\ daemon'[d].batch = daemon[d].batch
        /\ daemon'[d].mng = Mng(c)
    BY <1>1, <1>6, <1>10 DEF DaemonRec
  <2> QED BY <1>5, <1>9, <2>1
<1>11. CASE /\ by = Mng(c)
            /\ daemon' = [Rest(a) EXCEPT ![d].mng = Mng(c), ![d].pc = "enqueue",
                            ![d].load = Load(c, by)]
  <2> DEFINE l == Load(c, by)
  <2>1. l.mngid = row[c].mngid /\ l.by = by  OBVIOUS
  <2>2. by \in Heads  BY <1>5, <1>11, ApprovalFacts DEF OfHead
  <2> HIDE DEF l
  <2>3. /\ daemon'[d].pc = "enqueue" /\ daemon'[d].batch = daemon[d].batch
        /\ daemon'[d].mng = Mng(c) /\ daemon'[d].load = l
    <3>1. daemon' = [Rest(a) EXCEPT ![d].mng = Mng(c), ![d].pc = "enqueue", ![d].load = l]
      BY <1>11 DEF l
    <3> QED BY <1>1, <1>6, <3>1 DEF DaemonRec
  <2> QED BY <1>5, <1>9, <2>1, <2>2, <2>3
<1> HIDE DEF Load
<1> QED BY <1>3, <1>4, <1>7, <1>8, <1>10, <1>11

(* What a daemon writes into a row is what it holds.                       *)
LEMMA HeadWritten ==
    ASSUME ApprovalInv, HeadInv, NEW d \in Daemons, DaemonStep(d)
    PROVE  \A c \in Customers : OfHead(row'[c].mngid)
<1>1. /\ daemon \in [Daemons -> DaemonRec] /\ row \in [Customers -> Rows]
      /\ HeadDaemon(d) /\ DaemonSense(d)
      /\ \A c \in Customers : OfHead(row[c].mngid)
  BY TypesByName DEF ApprovalInv, HeadInv
<1>2. CASE MarkDequeued(d)
  <2> DEFINE q == Head(daemon[d].batch)
  <2>1. q = daemon[d].batch[1] /\ 1 \in 1..Len(daemon[d].batch)
    <3>1. daemon[d].batch \in Seq(Copies) /\ daemon[d].batch # <<>>
      BY <1>1, <1>2 DEF DaemonRec, DaemonSense, MarkDequeued
    <3> QED BY <3>1
  <2>2. OfHead(q.mngid)  BY <1>1, <2>1 DEF HeadDaemon
  <2>3. row' = [row EXCEPT ![q.customer].queue = FALSE, ![q.customer].mngid = q.mngid]
    BY <1>2 DEF MarkDequeued
  <2> HIDE DEF q
  <2>4. \A c \in Customers : row'[c].mngid \in {q.mngid, row[c].mngid}
    BY <1>1, <2>3 DEF Rows
  <2> QED BY <1>1, <2>2, <2>4
<1>3. CASE Enqueue(d)
  <2> DEFINE q == daemon[d].load
  <2>1. OfHead(q.mngid)  BY <1>1, <1>3 DEF HeadDaemon, Enqueue
  <2>2. row' = [row EXCEPT ![q.customer].status = "approved", ![q.customer].queue = TRUE,
                           ![q.customer].mngid = q.mngid]
    BY <1>3 DEF Enqueue
  <2> HIDE DEF q
  <2>3. \A c \in Customers : row'[c].mngid \in {q.mngid, row[c].mngid}
    BY <1>1, <2>2 DEF Rows
  <2> QED BY <1>1, <2>1, <2>3
<1>4. CASE row' = row  BY <1>1, <1>4
<1>5. CASE Dequeue(d) \/ Search(d) \/ Finish(d)  BY <1>4, <1>5 DEF Dequeue, Search, Finish, db
<1>6. CASE SendMail(d)  BY <1>4, <1>6 DEF SendMail, db
<1>7. CASE ReadReply(d)  BY <1>4, <1>7 DEF ReadReply, db
<1> QED BY <1>2, <1>3, <1>5, <1>6, <1>7 DEF DaemonStep

(* One daemon moves and the others stay.                                   *)
LEMMA OneMoves ==
    ASSUME ApTypeOK, NEW d \in Daemons,
           Open(d) \/ Lock(d) \/ Refuse(d) \/ DaemonStep(d) \/ Crash(d)
    PROVE  \A e \in Daemons \ {d} : daemon'[e] = daemon[e]
<1>1. daemon \in [Daemons -> DaemonRec]  BY TypesByName
<1>2. CASE Open(d)  BY <1>1, <1>2 DEF Open
<1>3. CASE Lock(d) \/ Refuse(d) \/ Crash(d) \/ Finish(d)
  BY <1>1, <1>3 DEF Lock, Refuse, Crash, Finish, Stopped
<1>4. CASE Dequeue(d)  BY <1>1, <1>4 DEF Dequeue, Stopped
<1>5. CASE SendMail(d) \/ MarkDequeued(d)  BY <1>1, <1>5 DEF SendMail, MarkDequeued
<1>6. CASE Search(d) \/ Enqueue(d)  BY <1>1, <1>6 DEF Search, Enqueue, Stopped
<1>7. CASE ReadReply(d)  BY <1>1, <1>7 DEF ReadReply, Stopped
<1> QED BY <1>2, <1>3, <1>4, <1>5, <1>6, <1>7 DEF DaemonStep

(* The steps by which a daemon gets no manager it did not hold.            *)
LEMMA HeadsStay ==
    ASSUME ApprovalInv, NEW d \in Daemons,
           \/ Open(d) \/ Lock(d) \/ Refuse(d) \/ Crash(d) \/ Finish(d)
           \/ Search(d) \/ SendMail(d) \/ Enqueue(d)
    PROVE  \/ daemon'[d] = Asleep
           \/ /\ daemon'[d].batch = daemon[d].batch /\ daemon'[d].mng = daemon[d].mng
              /\ daemon'[d].pc # "enqueue"
<1>1. daemon \in [Daemons -> DaemonRec] /\ daemon[d] \in DaemonRec
  BY TypesByName DEF ApprovalInv
<1>2. CASE Open(d)
  <2>1. PICK f : daemon' = [daemon EXCEPT ![d].pc = "open", ![d].fd = f]  BY <1>2 DEF Open
  <2> QED BY <1>1, <2>1 DEF DaemonRec
<1>3. CASE Lock(d)  BY <1>1, <1>3 DEF Lock, DaemonRec
<1>4. CASE Refuse(d) \/ Crash(d) \/ Finish(d)
  BY <1>1, <1>4 DEF Refuse, Crash, Finish, Stopped
<1>5. CASE Search(d)
  <2>1. CASE daemon' = Stopped(d)  BY <1>1, <2>1 DEF Stopped
  <2>2. CASE daemon' # Stopped(d)
    <3>1. PICK u : daemon' = [daemon EXCEPT ![d].pc = "read", ![d].unseen = u]
      BY <1>5, <2>2 DEF Search
    <3> QED BY <1>1, <3>1 DEF DaemonRec
  <2> QED BY <2>1, <2>2
<1>6. CASE SendMail(d)
  <2>1. daemon' = [daemon EXCEPT ![d].pc = "mark"]  BY <1>6 DEF SendMail
  <2> QED BY <1>1, <2>1 DEF DaemonRec
<1>7. CASE Enqueue(d)
  <2>1. daemon' = [daemon EXCEPT ![d].pc = "read", ![d].load = Nothing]  BY <1>7 DEF Enqueue
  <2> QED BY <1>1, <2>1 DEF DaemonRec
<1> QED BY <1>2, <1>3, <1>4, <1>5, <1>6, <1>7

LEMMA HeadMarked ==
    ASSUME ApprovalInv, HeadInv, NEW d \in Daemons, MarkDequeued(d) PROVE HeadDaemon(d)'
<1>1. /\ daemon \in [Daemons -> DaemonRec] /\ daemon[d] \in DaemonRec
      /\ HeadDaemon(d) /\ DaemonSense(d) /\ UNCHANGED asked
  BY TypesByName DEF ApprovalInv, HeadInv, MarkDequeued
<1>2. \A m : (m \in Heads => m \in Heads') /\ (OfHead(m) => OfHead(m)')
  BY <1>1, HeadsGrow
<1> DEFINE b == Tail(daemon[d].batch)
<1>3. daemon[d].batch \in Seq(Copies) /\ daemon[d].batch # <<>>
  BY <1>1 DEF MarkDequeued, DaemonSense, DaemonRec
<1>4. \A i \in 1..Len(b) : i + 1 \in 1..Len(daemon[d].batch) /\ b[i] = daemon[d].batch[i + 1]
  BY <1>3
<1>5. \A i \in 1..Len(b) : OfHead(b[i].mngid)  BY <1>1, <1>4 DEF HeadDaemon
<1>6. daemon' = [daemon EXCEPT ![d].pc = "mail", ![d].batch = b]  BY <1>1 DEF MarkDequeued
<1> HIDE DEF b
<1>7. daemon'[d].pc = "mail" /\ daemon'[d].batch = b /\ daemon'[d].mng = daemon[d].mng
  BY <1>1, <1>6 DEF DaemonRec
<1>8. \A m : OfHead(m) => m = Unknown \/ m \in Heads'  BY <1>2 DEF OfHead
<1>9. \A i \in 1..Len(b) : b[i].mngid = Unknown \/ b[i].mngid \in Heads'  BY <1>5, <1>8
<1>10. daemon[d].mng = Unknown \/ daemon[d].mng \in Heads'  BY <1>1, <1>8 DEF HeadDaemon
<1> QED BY <1>7, <1>9, <1>10 DEF HeadDaemon, OfHead

LEMMA HeadStep == ApprovalInv /\ HeadInv /\ [ApNext]_apvars => HeadInv'
<1> SUFFICES ASSUME ApprovalInv, HeadInv, [ApNext]_apvars PROVE HeadInv'  OBVIOUS
<1>1. \A m : (m \in Heads => m \in Heads') /\ (OfHead(m) => OfHead(m)')
  BY AskedGrows, HeadsGrow
<1>2. \A m : OfHead(m) => m = Unknown \/ m \in Heads'  BY <1>1 DEF OfHead
<1>3. /\ \A c \in Customers : OfHead(row[c].mngid)
      /\ \A s \in Servers : HeadJob(s)
      /\ \A d \in Daemons : HeadDaemon(d)
  BY DEF HeadInv
<1>4. job' = job => \A s \in Servers : HeadJob(s)'
  <2> SUFFICES ASSUME job' = job, NEW s \in Servers PROVE HeadJob(s)'  OBVIOUS
  <2>1. HeadJob(s)  BY <1>3
  <2>2. job[s].step = "insert" =>
          (job[s].mng = Unknown \/ job[s].mng \in Heads') \/ Fits(job[s].mng, job[s].who)
    BY <1>2, <2>1 DEF HeadJob
  <2>3. job[s].step = "approve" => job[s].who \in Heads' \cup {Super}
    BY <1>1, <2>1 DEF HeadJob
  <2> QED BY <2>2, <2>3 DEF HeadJob, OfHead, Fits
<1>5. (\A c \in Customers : OfHead(row'[c].mngid)) => \A c \in Customers : OfHead(row[c].mngid)'
  BY <1>2 DEF OfHead
<1>6. daemon' = daemon => \A d \in Daemons : HeadDaemon(d)'  BY <1>1, <1>3, HeadKept
<1>7. ASSUME NEW s \in Servers, Begin(s) \/ ServerStep(s) PROVE HeadInv'
  BY <1>1, <1>7, HeadServer
<1>8. ASSUME NEW d \in Daemons, Open(d) \/ Lock(d) \/ Refuse(d) \/ DaemonStep(d) \/ Crash(d)
      PROVE  HeadInv'
  <2>1. job' = job
    <3>1. CASE Open(d) \/ Lock(d) \/ Refuse(d) \/ Crash(d) \/ Finish(d)
      BY <3>1 DEF Open, Lock, Refuse, Crash, Finish
    <3>2. CASE Dequeue(d)  BY <3>2 DEF Dequeue
    <3>3. CASE SendMail(d)  BY <3>3 DEF SendMail
    <3>4. CASE MarkDequeued(d)  BY <3>4 DEF MarkDequeued
    <3>5. CASE Search(d) \/ Enqueue(d)  BY <3>5 DEF Search, Enqueue
    <3>6. CASE ReadReply(d)  BY <3>6 DEF ReadReply
    <3> QED BY <1>8, <3>1, <3>2, <3>3, <3>4, <3>5, <3>6 DEF DaemonStep
  <2>2. \A c \in Customers : OfHead(row'[c].mngid)
    <3>1. CASE DaemonStep(d)  BY <3>1, HeadWritten
    <3>2. CASE Open(d) \/ Lock(d) \/ Refuse(d) \/ Crash(d)
      <4>1. row' = row  BY <3>2 DEF Open, Lock, Refuse, Crash, db
      <4> QED BY <1>3, <4>1
    <3> QED BY <1>8, <3>1, <3>2
  <2>3. \A e \in Daemons \ {d} : HeadDaemon(e)'
    <3>1. \A e \in Daemons \ {d} : daemon'[e] = daemon[e]  BY <1>8, OneMoves DEF ApprovalInv
    <3> QED BY <1>1, <1>3, <3>1, HeadKept
  <2>4. HeadDaemon(d)'
    <3>1. CASE Dequeue(d)  BY <3>1, HeadDequeue
    <3>2. CASE ReadReply(d)  BY <3>2, HeadRead
    <3>3. CASE MarkDequeued(d)  BY <3>3, HeadMarked
    <3>4. CASE \/ Open(d) \/ Lock(d) \/ Refuse(d) \/ Crash(d) \/ Finish(d)
               \/ Search(d) \/ SendMail(d) \/ Enqueue(d)
      BY <1>1, <1>3, <3>4, HeadsStay, HeadKept
    <3> QED BY <1>8, <3>1, <3>2, <3>3, <3>4 DEF DaemonStep
  <2>5. \A s \in Servers : HeadJob(s)'  BY <1>4, <2>1
  <2>6. \A c \in Customers : OfHead(row[c].mngid)'  BY <1>5, <2>2
  <2> QED BY <2>3, <2>4, <2>5, <2>6 DEF HeadInv
<1>9. ASSUME UNCHANGED <<job, daemon>>, \A c \in Customers : OfHead(row'[c].mngid)
      PROVE  HeadInv'
  <2>1. \A s \in Servers : HeadJob(s)'  BY <1>4, <1>9
  <2>2. \A c \in Customers : OfHead(row[c].mngid)'  BY <1>5, <1>9
  <2>3. \A d \in Daemons : HeadDaemon(d)'  BY <1>6, <1>9
  <2> QED BY <2>1, <2>2, <2>3 DEF HeadInv
<1>10. ASSUME NEW k \in Customers, Decide(k) PROVE HeadInv'
  <2>1. row \in [Customers -> Rows]  BY TypesByName DEF ApprovalInv
  <2>2. PICK l : row' = [row EXCEPT ![k].status = l]  BY <1>10 DEF Decide
  <2>3. \A c \in Customers : row'[c].mngid = row[c].mngid  BY <2>1, <2>2 DEF Rows
  <2>4. UNCHANGED <<job, daemon>>  BY <1>10 DEF Decide
  <2> QED BY <1>3, <1>9, <2>3, <2>4
<1>11. CASE UNCHANGED apvars \/ \E m \in mails, p \in People : Reply(m, p)
  <2>1. UNCHANGED <<job, daemon, row>>  BY <1>11 DEF apvars, Reply, db
  <2> QED BY <1>3, <1>9, <2>1
<1> QED BY <1>7, <1>8, <1>10, <1>11 DEF ApNext

LEMMA HeadInit == ApInit => HeadInv
<1> SUFFICES ASSUME ApInit PROVE HeadInv  OBVIOUS
<1>1. \A c \in Customers : row[c].mngid = Unknown  BY DEF ApInit, NoRow
<1>2. \A s \in Servers : job[s].step = "idle"  BY DEF ApInit, Idle
<1>3. \A d \in Daemons : daemon[d] = Asleep  BY DEF ApInit
<1> QED BY <1>1, <1>2, <1>3 DEF HeadInv, HeadJob, HeadDaemon, OfHead, Asleep

(* Only two steps record an approval; by what they hold, it is given by    *)
(* someone entitled.                                                       *)
LEMMA ConsentIsEntitled ==
    ASSUME ApprovalInv, HeadInv, [ApNext]_apvars, NEW c \in Customers,
           consent'[c] # consent[c]
    PROVE  /\ consent'[c] \in {Super} \cup Heads
           /\ \/ consent'[c] \in Entitled(c)
              \/ crossed
              \/ \E d \in Inboxes : /\ daemon[d].load.customer = c
                                    /\ daemon[d].load.coreid \notin Led
<1>1. \/ \E s \in Servers : Approve(s)
      \/ \E d \in Daemons : Enqueue(d)
  <2>1. ASSUME NEW s \in Servers, Begin(s) \/ ServerStep(s), ~Approve(s)
        PROVE  consent' = consent
    BY <2>1 DEF db, Begin, ServerStep, Look, Check, FindManager, Insert, ReadManager
  <2>2. ASSUME NEW d \in Daemons, ~Enqueue(d),
               Open(d) \/ Lock(d) \/ Refuse(d) \/ DaemonStep(d) \/ Crash(d)
        PROVE  consent' = consent
    <3>1. CASE Open(d) \/ Lock(d) \/ Refuse(d) \/ Crash(d) \/ Finish(d)
      BY <3>1 DEF Open, Lock, Refuse, Crash, Finish, db
    <3>2. CASE Dequeue(d) \/ Search(d)  BY <3>2 DEF Dequeue, Search, db
    <3>3. CASE SendMail(d)  BY <3>3 DEF SendMail, db
    <3>4. CASE MarkDequeued(d)  BY <3>4 DEF MarkDequeued
    <3>5. CASE ReadReply(d)  BY <3>5 DEF ReadReply, db
    <3> QED BY <2>2, <3>1, <3>2, <3>3, <3>4, <3>5 DEF DaemonStep
  <2>3. ASSUME NEW k \in Customers, Decide(k) PROVE consent' = consent  BY <2>3 DEF Decide
  <2>4. ASSUME NEW m \in mails, NEW p \in People, Reply(m, p) PROVE consent' = consent
    BY <2>4 DEF Reply, db
  <2>5. UNCHANGED apvars => consent' = consent  BY DEF apvars
  <2> QED BY <2>1, <2>2, <2>3, <2>4, <2>5 DEF ApNext
<1>2. consent \in [Customers -> People \cup {Unknown}]  BY DEF ApprovalInv, ApTypeOK
<1>3. CASE \E s \in Servers : Approve(s)
  <2>1. PICK s \in Servers : Approve(s)  BY <1>3
  <2>2. c = job[s].customer /\ consent'[c] = job[s].who  BY <1>2, <2>1 DEF Approve
  <2>3. JobSense(s) /\ job[s].step = "approve"  BY <2>1 DEF ApprovalInv, Approve
  <2>4. HeadJob(s)  BY DEF HeadInv
  <2> QED BY <2>2, <2>3, <2>4 DEF JobSense, HeadJob
<1>4. CASE \E d \in Daemons : Enqueue(d)
  <2>1. PICK d \in Daemons : Enqueue(d)  BY <1>4
  <2> DEFINE q == daemon[d].load
  <2>2. c = q.customer /\ consent'[c] = q.by /\ d \in Inboxes  BY <1>2, <2>1 DEF Enqueue
  <2>3. LoadSense(q)  BY <2>1 DEF ApprovalInv, DaemonSense, Enqueue
  <2>4. q.by \in Heads  BY <2>1 DEF HeadInv, HeadDaemon, Enqueue
  <2>5. CASE q.coreid \notin Led  BY <2>2, <2>4, <2>5
  <2>6. CASE q.coreid \in Led
    <3>1. q.by = Manager[q.coreid] /\ q.coreid \in asked[c] \ Strangers
      BY <2>2, <2>3, <2>6, ApprovalFacts DEF LoadSense
    <3> QED BY <2>2, <2>4, <3>1 DEF Entitled
  <2> QED BY <2>5, <2>6
<1> QED BY <1>1, <1>3, <1>4

(* A customer is approved only by the manager of someone who asked for him *)
(* or by the login that may approve anything, although sql_commandline_-   *)
(* approve and the inbox compare with what they read earlier: a manager    *)
(* that stands in a row is, until one is written across requesters, the    *)
(* one of the row's requester, and whoever was requester once has asked.   *)
(* Beyond that, and where LDAP's answer left an earlier manager in results,*)
(* it is still the manager of someone who asked.                           *)
THEOREM OnlyManagersApprove == ApSpec => ApprovedByManager
<1>1. ApprovalInv /\ HeadInv /\ [ApNext]_apvars =>
        [\A c \in Customers :
           consent'[c] # consent[c] =>
             /\ consent'[c] \in {Super} \cup Heads
             /\ \/ consent'[c] \in {Super} \cup {Manager[p] : p \in asked[c] \ Strangers}
                \/ crossed
                \/ \E d \in Inboxes : /\ daemon[d].load.customer = c
                                      /\ daemon[d].load.coreid \notin Led]_apvars
  BY ConsentIsEntitled DEF Entitled
<1> QED
  BY <1>1, ApprovalInit, ApprovalStep, HeadInit, HeadStep, PTL DEF ApSpec, ApprovedByManager
-----------------------------------------------------------------------------
(* What a notifier holds of an employee's request leads to him, and to his *)
(* manager if LDAP lists that one as an employee, whoever stood in results *)
(* for the row before (query_user).                                        *)
LedHome(q) ==
    /\ q.coreid \in Staff => q.cc = q.coreid
    /\ q.coreid \in Led => q.to = Manager[q.coreid]

(* It marks a row as mailed only after it sent the mail about it.          *)
MailSense(d) ==
    /\ daemon[d].pc = "mark" => Head(daemon[d].batch) \in mails
    /\ \A i \in 1..Len(daemon[d].batch) : LedHome(daemon[d].batch[i])

(* A daemon that keeps its copies, or drops them.                          *)
LEMMA MailKept ==
    ASSUME NEW d, MailSense(d), mails \subseteq mails',
           \/ /\ daemon'[d].batch = daemon[d].batch
              /\ daemon'[d].pc = "mark" => daemon[d].pc = "mark"
           \/ daemon'[d] = Asleep
    PROVE  MailSense(d)'
<1>1. CASE daemon'[d] = Asleep  BY <1>1 DEF MailSense, Asleep
<1>2. CASE /\ daemon'[d].batch = daemon[d].batch
           /\ daemon'[d].pc = "mark" => daemon[d].pc = "mark"
  BY <1>2 DEF MailSense, LedHome
<1> QED BY <1>1, <1>2

(* The steps by which a daemon keeps its copies, or drops them.            *)
LEMMA CopiesStay ==
    ASSUME ApTypeOK, NEW d \in Daemons,
           \/ Open(d) \/ Lock(d) \/ Refuse(d) \/ Crash(d) \/ Finish(d)
           \/ Search(d) \/ ReadReply(d) \/ Enqueue(d)
    PROVE  /\ mails' = mails
           /\ \/ /\ daemon'[d].batch = daemon[d].batch
                 /\ daemon'[d].pc = "mark" => daemon[d].pc = "mark"
              \/ daemon'[d] = Asleep
<1>1. daemon \in [Daemons -> DaemonRec] /\ daemon[d] \in DaemonRec  BY TypesByName
<1>2. mails' = mails
  BY DEF Open, Lock, Refuse, Crash, Finish, Search, ReadReply, Enqueue, post
<1>3. CASE Open(d)
  <2>1. PICK f : daemon' = [daemon EXCEPT ![d].pc = "open", ![d].fd = f]  BY <1>3 DEF Open
  <2> QED BY <1>1, <1>2, <2>1 DEF DaemonRec
<1>4. CASE Lock(d)  BY <1>1, <1>2, <1>4 DEF Lock, DaemonRec
<1>5. CASE Refuse(d) \/ Crash(d) \/ Finish(d)
  BY <1>1, <1>2, <1>5 DEF Refuse, Crash, Finish, Stopped
<1>6. CASE Search(d)
  <2>1. CASE daemon' = Stopped(d)  BY <1>1, <1>2, <2>1 DEF Stopped
  <2>2. CASE daemon' # Stopped(d)
    <3>1. PICK u : daemon' = [daemon EXCEPT ![d].pc = "read", ![d].unseen = u]
      BY <1>6, <2>2 DEF Search
    <3> QED BY <1>1, <1>2, <3>1 DEF DaemonRec
  <2> QED BY <2>1, <2>2
<1>7. CASE ReadReply(d)
  <2>1. daemon[d].pc = "read"  BY <1>7 DEF ReadReply
  <2> DEFINE Rest(a) == [daemon EXCEPT ![d].unseen = @ \ {a}]
             Mng(c) == LdapManager(row[c].coreid, daemon[d].mng)
             Load(c, by) == [customer |-> c, coreid |-> row[c].coreid,
                             mngid |-> row[c].mngid, by |-> by]
  <2>2. PICK a \in daemon[d].unseen :
          daemon' = IF <<a[1].coreid, a[1].mngid>> \notin keys[a[1].customer] THEN Rest(a)
                    ELSE IF LdapEnds(row[a[1].customer].coreid) THEN Stopped(d)
                    ELSE IF a[2] # Mng(a[1].customer)
                         THEN [Rest(a) EXCEPT ![d].mng = Mng(a[1].customer)]
                    ELSE [Rest(a) EXCEPT ![d].mng = Mng(a[1].customer), ![d].pc = "enqueue",
                            ![d].load = Load(a[1].customer, a[2])]
    BY <1>7, ReadReplyEnds
  <2> DEFINE u == daemon[d].unseen \ {a}
  <2>3. Rest(a) = [daemon EXCEPT ![d].unseen = u]  OBVIOUS
  <2> HIDE DEF Rest, Mng, Load, u
  <2>4. CASE daemon' = Stopped(d)  BY <1>1, <1>2, <2>4 DEF Stopped
  <2>5. CASE daemon' = Rest(a)  BY <1>1, <1>2, <2>3, <2>5 DEF DaemonRec
  <2>6. ASSUME NEW m, daemon' = [Rest(a) EXCEPT ![d].mng = m]
        PROVE  daemon'[d].batch = daemon[d].batch /\ daemon'[d].pc = daemon[d].pc
    BY <1>1, <2>3, <2>6 DEF DaemonRec
  <2>7. ASSUME NEW m, NEW l,
               daemon' = [Rest(a) EXCEPT ![d].mng = m, ![d].pc = "enqueue", ![d].load = l]
        PROVE  daemon'[d].batch = daemon[d].batch /\ daemon'[d].pc = "enqueue"
    BY <1>1, <2>3, <2>7 DEF DaemonRec
  <2> QED BY <1>2, <2>1, <2>2, <2>4, <2>5, <2>6, <2>7
<1>8. CASE Enqueue(d)
  <2>1. daemon' = [daemon EXCEPT ![d].pc = "read", ![d].load = Nothing]  BY <1>8 DEF Enqueue
  <2> QED BY <1>1, <1>2, <2>1 DEF DaemonRec
<1> QED BY <1>3, <1>4, <1>5, <1>6, <1>7, <1>8

(* dequeue: an employee's answer replaces what results held.               *)
LEMMA DequeueLeadsHome ==
    ASSUME ApprovalInv, NEW d \in Daemons, Dequeue(d), MailSense(d) PROVE MailSense(d)'
<1>1. /\ daemon \in [Daemons -> DaemonRec] /\ daemon[d] \in DaemonRec
      /\ row \in [Customers -> Rows]
  BY TypesByName DEF ApprovalInv
<1>2. CASE daemon' = Stopped(d)
  <2>1. daemon'[d] = Asleep  BY <1>1, <1>2 DEF Stopped
  <2> QED BY <2>1, MailKept DEF Dequeue, post
<1>3. CASE daemon' # Stopped(d)
  <2>1. PICK order \in SetToSeqs(Queued) : \E res \in Results(order) :
             daemon' = [daemon EXCEPT ![d].pc = "mail",
                          ![d].batch = [i \in 1..Len(order) |-> Copy(order[i], res[i])]]
    BY <1>3 DEF Dequeue
  <2>2. PICK res \in Results(order) :
             daemon' = [daemon EXCEPT ![d].pc = "mail",
                          ![d].batch = [i \in 1..Len(order) |-> Copy(order[i], res[i])]]
    BY <2>1
  <2>3. Len(order) \in Nat /\ \A i \in 1..Len(order) : order[i] \in Queued
    <3>1. IsFiniteSet(Queued)  BY ApprovalBounds, FS_Subset DEF Queued
    <3>2. Cardinality(Queued) \in Nat  BY <3>1, FS_CardinalityType
    <3>3. order \in [1..Cardinality(Queued) -> Queued]  BY DEF SetToSeqs
    <3> QED BY <3>2, <3>3
  <2> DEFINE b == [i \in 1..Len(order) |-> Copy(order[i], res[i])]
  <2>5. ASSUME NEW i \in 1..Len(order) PROVE LedHome(Copy(order[i], res[i]))
    <3> DEFINE c == order[i]
    <3>1. c \in Customers /\ row[c].queue /\ RowSense(c) /\ row[c] \in Rows
      BY <1>1, <2>3 DEF Queued, ApprovalInv
    <3>2. /\ row[c].coreid \in Staff => res[i].cc = row[c].coreid
          /\ row[c].coreid \in Led => res[i].to = Manager[row[c].coreid]
      BY ManagerInResults DEF Results
    <3> HIDE DEF c
    <3>3. /\ Copy(c, res[i]).coreid = row[c].coreid /\ Copy(c, res[i]).cc = res[i].cc
          /\ Copy(c, res[i]).to = res[i].to
      BY DEF Copy
    <3>4. LedHome(Copy(c, res[i]))  BY <3>2, <3>3 DEF LedHome
    <3> QED BY <3>4 DEF c
  <2>6. Len(b) = Len(order) /\ \A i \in 1..Len(order) : b[i] = Copy(order[i], res[i])
    BY <2>3
  <2>7. daemon'[d].pc = "mail" /\ daemon'[d].batch = b
    <3>1. daemon' = [daemon EXCEPT ![d].pc = "mail", ![d].batch = b]  BY <2>2
    <3> HIDE DEF b
    <3> QED BY <1>1, <3>1 DEF DaemonRec
  <2> HIDE DEF b
  <2>8. \A q : (\E i \in 1..Len(b) : q = b[i]) => LedHome(q)  BY <2>5, <2>6
  <2> QED BY <2>7, <2>8 DEF MailSense, LedHome
<1> QED BY <1>2, <1>3

(* The mail goes out, and then the copy goes.                              *)
LEMMA MailThenMark ==
    ASSUME ApprovalInv, NEW d \in Daemons, SendMail(d) \/ MarkDequeued(d), MailSense(d)
    PROVE  MailSense(d)'
<1>1. /\ daemon \in [Daemons -> DaemonRec] /\ daemon[d] \in DaemonRec
      /\ DaemonSense(d)
  BY TypesByName DEF ApprovalInv
<1>2. daemon[d].batch \in Seq(Copies)  BY <1>1 DEF DaemonRec
<1>3. CASE SendMail(d)
  <2>1. daemon' = [daemon EXCEPT ![d].pc = "mark"]  BY <1>3 DEF SendMail
  <2>2. daemon'[d].batch = daemon[d].batch  BY <1>1, <2>1 DEF DaemonRec
  <2>3. Head(daemon[d].batch) \in mails'  BY <1>3 DEF SendMail
  <2> QED BY <2>2, <2>3 DEF MailSense, LedHome
<1>4. CASE MarkDequeued(d)
  <2> DEFINE b == Tail(daemon[d].batch)
  <2>1. daemon[d].batch # <<>>  BY <1>1, <1>4 DEF MarkDequeued, DaemonSense
  <2>2. \A i \in 1..Len(b) : i + 1 \in 1..Len(daemon[d].batch) /\ b[i] = daemon[d].batch[i + 1]
    BY <1>2, <2>1
  <2>3. daemon' = [daemon EXCEPT ![d].pc = "mail", ![d].batch = b]
    BY <1>1, <1>4 DEF MarkDequeued
  <2>4. \A i \in 1..Len(b) : LedHome(b[i])  BY <2>2 DEF MailSense
  <2> HIDE DEF b
  <2>5. daemon'[d].pc = "mail" /\ daemon'[d].batch = b  BY <1>1, <2>3 DEF DaemonRec
  <2> QED BY <2>4, <2>5 DEF MailSense, LedHome
<1> QED BY <1>3, <1>4

LEMMA MailStep ==
    ASSUME ApprovalInv, [ApNext]_apvars, \A d \in Daemons : MailSense(d)
    PROVE  \A d \in Daemons : MailSense(d)'
<1> SUFFICES ASSUME NEW e \in Daemons PROVE MailSense(e)'  OBVIOUS
<1>1. MailSense(e) /\ ApTypeOK  BY DEF ApprovalInv
<1>2. ASSUME NEW d \in Daemons, Open(d) \/ Lock(d) \/ Refuse(d) \/ DaemonStep(d) \/ Crash(d)
      PROVE  MailSense(e)'
  <2>1. mails \subseteq mails'
    BY <1>2 DEF DaemonStep, Open, Lock, Refuse, Crash, Finish, Dequeue, SendMail,
                MarkDequeued, Search, ReadReply, Enqueue, post
  <2>2. CASE e # d
    <3>1. daemon'[e] = daemon[e]  BY <1>1, <1>2, <2>2, OneMoves
    <3> QED BY <1>1, <2>1, <3>1, MailKept
  <2>3. CASE e = d
    <3>1. CASE Dequeue(d)  BY <1>1, <2>3, <3>1, DequeueLeadsHome
    <3>2. CASE SendMail(d) \/ MarkDequeued(d)  BY <1>1, <2>3, <3>2, MailThenMark
    <3>3. CASE \/ Open(d) \/ Lock(d) \/ Refuse(d) \/ Crash(d) \/ Finish(d)
               \/ Search(d) \/ ReadReply(d) \/ Enqueue(d)
      BY <1>1, <2>1, <2>3, <3>3, CopiesStay, MailKept
    <3> QED BY <1>2, <3>1, <3>2, <3>3 DEF DaemonStep
  <2> QED BY <2>2, <2>3
<1>3. ASSUME UNCHANGED daemon, mails \subseteq mails' PROVE MailSense(e)'
  BY <1>1, <1>3, MailKept
<1>4. CASE \/ \E s \in Servers : Begin(s) \/ ServerStep(s)
           \/ \E c \in Customers : Decide(c)
           \/ \E m \in mails, p \in People : Reply(m, p)
           \/ UNCHANGED apvars
  <2>1. UNCHANGED daemon /\ mails' = mails
    BY <1>4 DEF Begin, ServerStep, Look, Check, FindManager, Insert, ReadManager, Approve,
                Decide, Reply, post, apvars
  <2> QED BY <1>3, <2>1
<1> QED BY <1>2, <1>4 DEF ApNext

(* Only mark_dequeued takes a row out of the queue.                        *)
LEMMA DequeuedWasMailed ==
    ASSUME ApprovalInv, \A d \in Daemons : MailSense(d), [ApNext]_apvars,
           NEW c \in Customers, row[c].queue, ~row'[c].queue
    PROVE  \/ \E m \in mails :
                /\ m.customer = c /\ m.status = row[c].status
                /\ row[c].coreid \in Staff => m.cc = row[c].coreid
                /\ row[c].coreid \in Led => m.to = Manager[row[c].coreid]
           \/ Overtaken(c)
<1>1. /\ daemon \in [Daemons -> DaemonRec] /\ row \in [Customers -> Rows]
      /\ row[c] \in Rows
  BY TypesByName DEF ApprovalInv
<1>2. ASSUME NEW k, NEW r, row' = [row EXCEPT ![k] = r], r.queue \/ (k = c => r.queue = row[c].queue)
      PROVE  FALSE
  BY <1>1, <1>2
<1>3. ~(\E s \in Servers : Insert(s) \/ Approve(s))
  <2> SUFFICES ASSUME NEW s \in Servers, Insert(s) \/ Approve(s) PROVE FALSE  OBVIOUS
  <2> DEFINE k == job[s].customer
  <2>1. CASE Insert(s)
    <3>1. \E r : row' = [row EXCEPT ![k] = r] /\ r.queue  BY <2>1 DEF Insert
    <3> QED BY <1>2, <3>1
  <2>2. CASE Approve(s)
    <3>1. row' = [row EXCEPT ![k].status = "approved", ![k].queue = TRUE]
      BY <2>2 DEF Approve
    <3> HIDE DEF k
    <3> QED BY <1>1, <3>1 DEF Rows
  <2> QED BY <2>1, <2>2
<1>4. ~(\E k \in Customers : Decide(k))
  <2> SUFFICES ASSUME NEW k \in Customers, Decide(k) PROVE FALSE  OBVIOUS
  <2>1. \E l : row' = [row EXCEPT ![k].status = l]  BY DEF Decide
  <2> QED BY <1>1, <2>1 DEF Rows
<1>5. ~(\E d \in Daemons : Enqueue(d))
  <2> SUFFICES ASSUME NEW d \in Daemons, Enqueue(d) PROVE FALSE  OBVIOUS
  <2>1. \E k, m : row' = [row EXCEPT ![k].status = "approved", ![k].queue = TRUE, ![k].mngid = m]
    BY DEF Enqueue
  <2> QED BY <1>1, <2>1 DEF Rows
<1>6. PICK d \in Daemons : MarkDequeued(d)
  <2>1. row' # row  OBVIOUS
  <2> QED
    BY <1>3, <1>4, <1>5, <2>1
       DEF ApNext, apvars, db, Begin, ServerStep, Look, Check, FindManager, ReadManager,
           Open, Lock, Refuse, DaemonStep, Crash, Finish, Dequeue, SendMail, Search,
           ReadReply, Reply
<1> DEFINE q == Head(daemon[d].batch)
<1>7. /\ daemon[d].pc = "mark" /\ d \in Notifiers /\ q \in mails
      /\ row' = [row EXCEPT ![q.customer].queue = FALSE, ![q.customer].mngid = q.mngid]
  BY <1>6 DEF MarkDequeued, MailSense
<1>8. q = daemon[d].batch[1] /\ 1 \in 1..Len(daemon[d].batch)
  <2>1. daemon[d].batch \in Seq(Copies) /\ daemon[d].batch # <<>>
    BY <1>1, <1>7 DEF DaemonRec, ApprovalInv, DaemonSense
  <2> QED BY <2>1
<1>9. LedHome(q)  BY <1>8 DEF MailSense
<1>10. q.customer = c
  <2> SUFFICES ASSUME q.customer # c PROVE FALSE  OBVIOUS
  <2> HIDE DEF q
  <2> QED BY <1>1, <1>7
<1>11. CASE <<q.status, q.coreid>> # <<row[c].status, row[c].coreid>>
  BY <1>7, <1>10, <1>11 DEF Overtaken
<1>12. CASE q.status = row[c].status /\ q.coreid = row[c].coreid
  BY <1>7, <1>9, <1>10, <1>12 DEF LedHome
<1> QED BY <1>11, <1>12

(* A request leaves the queue only when a mail about it was sent, and an   *)
(* employee's to him and his manager, however many notifiers run at once   *)
(* or crash: a copy leads an employee home, and is marked after it was     *)
(* mailed.                                                                 *)
THEOREM MailsComeFirst == ApSpec => DequeuedIsMailed
<1> DEFINE Sense == \A d \in Daemons : MailSense(d)
<1>1. ApInit => Sense  BY DEF ApInit, MailSense, Asleep
<1>2. ApprovalInv /\ Sense /\ [ApNext]_apvars => Sense'  BY MailStep
<1>3. ApprovalInv /\ Sense /\ [ApNext]_apvars =>
        [\A c \in Customers :
           row[c].queue /\ ~row'[c].queue =>
             \/ \E m \in mails :
                  /\ m.customer = c /\ m.status = row[c].status
                  /\ row[c].coreid \in Staff => m.cc = row[c].coreid
                  /\ row[c].coreid \in Led => m.to = Manager[row[c].coreid]
             \/ Overtaken(c)]_apvars
  BY DequeuedWasMailed
<1> HIDE DEF Sense
<1> QED BY <1>1, <1>2, <1>3, ApprovalInit, ApprovalStep, PTL DEF ApSpec, DequeuedIsMailed
=============================================================================
