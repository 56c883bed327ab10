------------------------- MODULE TransferFormProofs -------------------------
(***************************************************************************)
(* The agreement of client and server on the form of a transfer and on its *)
(* deletion, for files of every size and every configuration of the server.*)
(***************************************************************************)
EXTENDS TransferForm, TLAPS

Asked == ask \in Uploads \cup Downloads

(* Where a request may be, and what a download's says.                     *)
Course ==
    /\ req.pc \in {"option", "name", "dispatch", "refused", "mail", "serve", "take", "ack", "end"}
    /\ req.pc \in {"name", "mail", "serve", "ack"} => ask.dir = "put"
    /\ ask.dir = "get" /\ req.pc # "option" => req.form = GetForm /\ req.delete = ask.delete

(* What the server has chosen, and what the client made of it.             *)
Served == IF ask.dir = "put" THEN PutServed ELSE GetServed

Chosen ==
    /\ req.pc \in {"take", "ack", "end"} <=> chosen # "none"
    /\ chosen # "none" => chosen = Served
    /\ taken # "none" => req.pc \in {"ack", "end"} /\ chosen # "none" /\ taken = Understood

FormInv == Asked /\ Course /\ Chosen
-----------------------------------------------------------------------------
LEMMA FormInvInit == FormInit => FormInv
  BY DEF FormInit, FormInv, Asked, Course, Chosen

LEMMA FormInvStep == ASSUME FormInv, [FormNext]_formVars PROVE FormInv'
<1> USE DEF FormInv
<1>1. ask' = ask
  BY DEF FormNext, formVars, PutType, PutName, GetType, Refuse, PutMetadata,
         Recipients, ServePut, PutAck, ServeGet, Take
<1>2. Asked'
  BY <1>1 DEF Asked
<1>3. GetForm' = GetForm
  BY <1>1 DEF GetForm
<1>4. (ask.dir = "put") \/ (ask.dir = "get")
  BY DEF Asked, Uploads, Downloads
<1>5. CASE PutType
  BY <1>5, <1>1, <1>2, <1>4 DEF PutType, Course, Chosen
<1>6. CASE PutName
  <2>1. ask.dir = "put" /\ req.pc = "name"
    BY <1>6 DEF PutName, Course
  <2>2. chosen' = chosen /\ taken' = taken
    BY <1>6 DEF PutName
  <2>3. req'.pc = "dispatch"
    BY <1>6 DEF PutName, RawRequest
  <2> QED BY <1>1, <1>2, <2>1, <2>2, <2>3 DEF Course, Chosen
<1>7. CASE GetType
  BY <1>7, <1>1, <1>2, <1>3, <1>4 DEF GetType, Course, Chosen
<1>8. CASE Refuse
  BY <1>8, <1>1, <1>2, <1>3, <1>4 DEF Refuse, Course, Chosen
<1>9. CASE PutMetadata
  BY <1>9, <1>1, <1>2, <1>3, <1>4 DEF PutMetadata, Course, Chosen
<1>10. CASE Recipients
  BY <1>10, <1>1, <1>2, <1>3, <1>4 DEF Recipients, Course, Chosen
<1>11. CASE ServePut
  <2>1. ask.dir = "put" /\ req.pc = "serve" /\ req' = [req EXCEPT !.pc = "take"]
        /\ chosen' = PutServed /\ taken' = taken
    BY <1>11 DEF ServePut, Course
  <2>2. PutServed' = PutServed
    BY <1>1, <2>1 DEF PutServed
  <2>3. taken' = "none" /\ PutServed # "none"
    BY <2>1 DEF Chosen, PutServed
  <2> QED BY <1>1, <1>2, <2>1, <2>2, <2>3 DEF Course, Chosen, Served
<1>12. CASE PutAck
  <2>1. ask.dir = "put" /\ req.pc = "ack" /\ req' = [req EXCEPT !.pc = "end"]
        /\ chosen' = chosen /\ taken' = taken
    BY <1>12 DEF PutAck, Course
  <2>2. PutServed' = PutServed
    BY <1>1, <2>1 DEF PutServed
  <2>3. Understood' = Understood
    BY <1>1, <2>1 DEF Understood
  <2> QED BY <1>1, <1>2, <2>1, <2>2, <2>3 DEF Course, Chosen, Served
<1>13. CASE ServeGet
  <2>1. ask.dir = "get" /\ req.pc = "dispatch" /\ req' = [req EXCEPT !.pc = "take"]
        /\ chosen' = GetServed /\ taken' = taken
    BY <1>13 DEF ServeGet
  <2>2. GetServed' = GetServed
    BY <1>1, <2>1 DEF GetServed, AskedSerial, StoredSize, SupportsParallel
  <2>3. taken' = "none" /\ GetServed # "none"
    BY <2>1 DEF Chosen, GetServed
  <2> QED BY <1>1, <1>2, <1>3, <2>1, <2>2, <2>3 DEF Course, Chosen, Served
<1>14. CASE Take
  <2>1. req.pc = "take" /\ chosen' = chosen /\ taken' = Understood
        /\ req' = [req EXCEPT !.pc = IF chosen = "parallel" /\ ask.dir = "put" THEN "ack" ELSE "end"]
    BY <1>14 DEF Take
  <2>2. /\ req'.pc \in {"ack", "end"} /\ (req'.pc = "ack" => ask.dir = "put")
        /\ req'.form = req.form /\ req'.delete = req.delete /\ req'.type = req.type
    BY <2>1
  <2>3. Served' = Served /\ Understood' = Understood
    <3>1. PutServed' = PutServed
      BY <1>1, <2>2 DEF PutServed
    <3>2. GetServed' = GetServed
      BY <1>1, <2>2 DEF GetServed, AskedSerial, StoredSize, SupportsParallel
    <3> QED BY <1>1, <2>1, <3>1, <3>2 DEF Served, Understood
  <2> QED BY <1>1, <1>2, <1>3, <2>1, <2>2, <2>3 DEF Course, Chosen
<1>15. CASE UNCHANGED formVars
  <2>1. req' = req /\ chosen' = chosen /\ taken' = taken
    BY <1>15 DEF formVars
  <2>2. PutServed' = PutServed
    BY <1>1, <2>1 DEF PutServed
  <2>3. GetServed' = GetServed
    BY <1>1, <2>1 DEF GetServed, AskedSerial, StoredSize, SupportsParallel
  <2>4. Served' = Served /\ Understood' = Understood
    BY <1>1, <2>1, <2>2, <2>3 DEF Served, Understood
  <2> QED BY <1>2, <1>1, <1>3, <2>1, <2>4 DEF Course, Chosen
<1> QED BY <1>5, <1>6, <1>7, <1>8, <1>9, <1>10, <1>11, <1>12, <1>13, <1>14, <1>15 DEF FormNext
-----------------------------------------------------------------------------
(* Client and server carry out the same form of a transfer, outside the    *)
(* known misreadings.                                                      *)
LEMMA InvAgrees == FormInv => FormsAgree
<1> SUFFICES ASSUME FormInv, taken # "none", ~KnownMisreading PROVE taken = chosen
  BY DEF FormsAgree
<1>1. chosen # "none" /\ chosen = Served /\ taken = Understood
  BY DEF FormInv, Chosen
<1>2. CASE ask.dir = "put"
  <2>1. ask.platform = "windows" => chosen = "serial"
    BY <1>1, <1>2 DEF Served, PutServed
  <2> QED BY <1>1, <1>2, <2>1 DEF Understood
<1>3. CASE ask.dir # "put"
  <2>1. ask \in Downloads /\ ask.dir = "get"
    BY <1>3 DEF FormInv, Asked, Uploads, Downloads
  <2>2. chosen = GetServed /\ req.form = GetForm /\ req.delete = ask.delete
    BY <1>1, <2>1, <1>3 DEF Served, FormInv, Course, Chosen
  <2>3. chosen \in {"serial", "parallel", "separate"}
    BY <2>2 DEF GetServed
  <2>4. ask.platform \in {"unix", "windows", "web"} /\ ask.build \in {"TRANSCEND", "INTERCOM"}
        /\ ask.delete \in BOOLEAN /\ ask.size \in Nat
    BY <2>1, FormAssumption DEF Downloads
  <2>5. CASE ask.platform = "windows"
    BY <1>1, <2>2, <2>3, <2>5 DEF GetServed, SupportsParallel, Understood, KnownMisreading
  <2>6. CASE ask.option = "r" /\ ask.platform # "windows"
    BY <1>1, <2>2, <2>3, <2>4, <2>6, FormAssumption
       DEF GetServed, GetForm, SupportsParallel, StoredSize, AskedSerial, Understood, KnownMisreading
  <2>7. CASE ask.option # "r" /\ ask.platform # "windows"
    BY <1>1, <2>2, <2>3, <2>7, <1>3 DEF GetServed, GetForm, Understood, KnownMisreading
  <2> QED BY <2>5, <2>6, <2>7
<1> QED BY <1>2, <1>3

(* For every request of either program, client and server run the same form*)
(* of transfer, but in the misreadings named (trans_request_type_set).     *)
THEOREM SidesAgree == FormSpec => []FormsAgree
<1>1. FormInv /\ [FormNext]_formVars => FormInv'
  BY FormInvStep
<1> QED BY <1>1, FormInvInit, InvAgrees, PTL DEF FormSpec

(* No parallel transfer of a file that its ten blocks would not cover.     *)
LEMMA InvIsLarge == FormInv => ParallelIsLarge
<1> SUFFICES ASSUME FormInv, chosen = "parallel" PROVE ask.size >= LeastTiled
  BY DEF ParallelIsLarge
<1>1. chosen = Served
  BY DEF FormInv, Chosen
<1>2. ask.size \in Nat
  BY FormAssumption DEF FormInv, Asked, Uploads, Downloads
<1>3. {LeastServer, LeastTiled, ParSize} \subseteq Nat /\ LeastTiled <= LeastServer /\ LeastTiled <= ParSize
  BY FormAssumption
<1>4. CASE ask.dir = "put"
  <2>1. ~(ask.size < LeastServer)
    BY <1>1, <1>4 DEF Served, PutServed
  <2> QED BY <2>1, <1>2, <1>3
<1>5. CASE ask.dir # "put"
  <2>1. ask.size > ParSize \/ ~(ask.size < LeastServer)
    BY <1>1, <1>5 DEF Served, GetServed
  <2> QED BY <2>1, <1>2, <1>3
<1> QED BY <1>4, <1>5

(* A parallel transfer is chosen only for a file that its ten blocks cover *)
(* (transfer_type_set, open_big_file).                                     *)
THEOREM ParallelOnlyIfCovered == FormSpec => []ParallelIsLarge
<1>1. FormInv /\ [FormNext]_formVars => FormInv'
  BY FormInvStep
<1> QED BY <1>1, FormInvInit, InvIsLarge, PTL DEF FormSpec
-----------------------------------------------------------------------------
(* The deletion on its way: an upload's request keeps what the user asked  *)
(* for unless the request type lost it; the metadata file gets what the    *)
(* request says, the memory loses it to several recipients, and only a     *)
(* serial upload carries that loss into the file.                          *)
Flag == req.delete /\ (ask.build = "INTERCOM" => ~ask.several)

Deletion ==
    /\ req.delete \in BOOLEAN /\ ask.delete \in BOOLEAN /\ ask.several \in BOOLEAN
    /\ mark \in [file : BOOLEAN, memory : BOOLEAN]
    /\ ask.dir = "put" =>
         /\ req.pc = "name" => req.delete = ask.delete /\ (req.form = "data" <=> req.type # "large")
         /\ req.pc \notin {"option", "name", "refused"} =>
              (req.delete = ask.delete \/ (~req.delete /\ (ForgetsDeletion \/ req.form = "random")))
         /\ req.pc \in {"mail", "serve", "take", "ack", "end"} => req.form # "random"
         /\ req.pc = "mail" => mark.file = Flag /\ mark.memory = Flag
         /\ req.pc = "serve" => mark.file = Flag /\ mark.memory = (Flag /\ ~ask.several)
         /\ req.pc \in {"take", "ack", "end"} =>
              mark.file = (Flag /\ (chosen = "serial" => ~ask.several))

LEMMA DeletionInit == FormInit => Deletion
<1> SUFFICES ASSUME FormInit PROVE Deletion
  OBVIOUS
<1>1. ask.delete \in BOOLEAN /\ ask.several \in BOOLEAN
  <2>1. CASE ask \in Uploads
    BY <2>1 DEF Uploads
  <2>2. CASE ask \in Downloads
    <3>1. ask.delete \in BOOLEAN /\ ask.several \in {FALSE}
      BY <2>2 DEF Downloads
    <3> QED BY <3>1
  <2> QED BY <2>1, <2>2 DEF FormInit
<1>2. req.pc = "option" /\ req.delete \in BOOLEAN
  BY DEF FormInit
<1>3. mark \in [file : BOOLEAN, memory : BOOLEAN]
  BY DEF FormInit
<1> QED BY <1>1, <1>2, <1>3 DEF Deletion

LEMMA DeletionStep == ASSUME FormInv, FormInv', Deletion, [FormNext]_formVars PROVE Deletion'
<1>1. ask' = ask
  BY DEF FormNext, formVars, PutType, PutName, GetType, Refuse, PutMetadata,
         Recipients, ServePut, PutAck, ServeGet, Take
<1>2. /\ req.delete \in BOOLEAN /\ ask.delete \in BOOLEAN /\ ask.several \in BOOLEAN
      /\ mark \in [file : BOOLEAN, memory : BOOLEAN]
  BY DEF Deletion
<1>3. CASE PutType
  <2>1. \/ ask.option \in {"l", "r"} /\ ask.kind # "files"
        \/ ~(ask.option \in {"l", "r"} /\ ask.kind # "files")
    OBVIOUS
  <2> QED BY <1>1, <1>2, <1>3 DEF PutType, Deletion
<1>4. CASE PutName
  <2>1. req.pc = "name" /\ mark' = mark /\ ask.dir = "put"
    BY <1>4 DEF PutName, FormInv, Course
  <2>2. req.delete = ask.delete /\ (req.form = "data" <=> req.type # "large")
    BY <2>1 DEF Deletion
  <2>3. \/ req' = [req EXCEPT !.pc = "dispatch"]
        \/ req' = RawRequest
        \/ req' = [req EXCEPT !.pc = "dispatch", !.delete = FALSE,
                               !.form = IF ask.zipped THEN "parallel" ELSE "random"]
           /\ req.type = "large"
    BY <1>4 DEF PutName
  <2>4. /\ req'.pc = "dispatch" /\ req'.type = req.type
        /\ \/ req'.delete = req.delete
           \/ req'.delete = FALSE /\ req.type = "large" /\ req'.form \in {"parallel", "random"}
    <3>1. CASE req' = [req EXCEPT !.pc = "dispatch"]
      BY <3>1
    <3>2. CASE req' = RawRequest
      <4>1. CASE req.form = "data"
        BY <3>2, <4>1, <1>2 DEF RawRequest
      <4>2. CASE req.form # "data"
        <5>1. /\ req'.pc = "dispatch" /\ req'.type = req.type /\ req'.form = "parallel"
              /\ req'.delete = (req.delete /\ req.form = "data")
          BY <3>2 DEF RawRequest
        <5>2. req'.delete = FALSE
          BY <5>1, <4>2
        <5> QED BY <5>1, <5>2, <4>2, <2>2
      <4> QED BY <4>1, <4>2
    <3>3. CASE req' = [req EXCEPT !.pc = "dispatch", !.delete = FALSE,
                                  !.form = IF ask.zipped THEN "parallel" ELSE "random"]
               /\ req.type = "large"
      BY <3>3
    <3> QED BY <2>3, <3>1, <3>2, <3>3
  <2> QED BY <1>1, <1>2, <2>1, <2>2, <2>4 DEF Deletion, ForgetsDeletion
<1>5. CASE GetType
  BY <1>1, <1>2, <1>5 DEF GetType, Deletion
<1>6. CASE Refuse
  BY <1>1, <1>2, <1>6 DEF Refuse, Deletion
<1>7. CASE PutMetadata
  BY <1>1, <1>2, <1>7 DEF PutMetadata, Deletion, ForgetsDeletion, Unknown, Flag
<1>8. CASE Recipients
  <2>1. /\ req.pc = "mail" /\ req' = [req EXCEPT !.pc = "serve"]
        /\ mark' = [mark EXCEPT !.memory = mark.memory /\ ~ask.several]
        /\ ask.dir = "put"
    BY <1>8 DEF Recipients, FormInv, Course
  <2>2. /\ mark' \in [file : BOOLEAN, memory : BOOLEAN]
        /\ mark'.file = mark.file /\ mark'.memory = (mark.memory /\ ~ask.several)
    BY <2>1, <1>2
  <2>3. /\ req'.pc = "serve" /\ req'.delete = req.delete
        /\ req'.form = req.form /\ req'.type = req.type
    BY <2>1
  <2>4. Flag' = Flag /\ ForgetsDeletion' = ForgetsDeletion
    BY <1>1, <2>3 DEF Flag, ForgetsDeletion
  <2> QED BY <1>1, <1>2, <2>1, <2>2, <2>3, <2>4 DEF Deletion
<1>9. CASE ServePut
  BY <1>1, <1>2, <1>9 DEF ServePut, PutServed, Deletion, ForgetsDeletion, Flag
<1>10. CASE PutAck
  BY <1>1, <1>2, <1>10 DEF PutAck, Deletion, ForgetsDeletion, Flag
<1>11. CASE ServeGet
  BY <1>1, <1>2, <1>11 DEF ServeGet, Deletion
<1>12. CASE Take
  BY <1>1, <1>2, <1>12 DEF Take, Deletion, ForgetsDeletion, Flag
<1>13. CASE UNCHANGED formVars
  BY <1>1, <1>2, <1>13 DEF formVars, Deletion, ForgetsDeletion, Flag
<1> QED BY <1>3, <1>4, <1>5, <1>6, <1>7, <1>8, <1>9, <1>10, <1>11, <1>12, <1>13 DEF FormNext

LEMMA InvDeletes == FormInv /\ Deletion => DeletionAsAsked
<1> SUFFICES ASSUME FormInv, Deletion, req.pc = "end", ask.dir = "put",
                    ~ForgetsDeletion, ~RestoresDeletion
             PROVE  mark.file = (ask.delete /\ ~ask.several)
  BY DEF DeletionAsAsked
<1>1. chosen \in {"serial", "parallel"}
  BY DEF FormInv, Chosen, Served, PutServed
<1>2. /\ mark.file = (Flag /\ (chosen = "serial" => ~ask.several))
      /\ req.delete = ask.delete /\ req.delete \in BOOLEAN /\ ask.several \in BOOLEAN
  BY DEF Deletion
<1>3. ask.build \in {"TRANSCEND", "INTERCOM"}
  BY DEF FormInv, Asked, Uploads, Downloads
<1> QED BY <1>1, <1>2, <1>3 DEF Flag, RestoresDeletion

(* What an upload leaves in the metadata file about the deletion is what   *)
(* the user asked for, outside the two known cases.                        *)
THEOREM DeletionIsAsAsked == FormSpec => []DeletionAsAsked
<1>1. FormInv /\ [FormNext]_formVars => FormInv'
  BY FormInvStep
<1>2. FormInv /\ FormInv' /\ Deletion /\ [FormNext]_formVars => Deletion'
  BY DeletionStep
<1> QED BY <1>1, <1>2, FormInvInit, DeletionInit, InvDeletes, PTL DEF FormSpec
-----------------------------------------------------------------------------
RequestForms == {"data", "large", "random", "serial", "serial_zipped", "zipped",
                 "parallel", "separate"}
RequestPos == {"option", "name", "dispatch", "refused", "mail", "serve", "take", "ack", "end"}
RequestRec == [pc : RequestPos, form : RequestForms, delete : BOOLEAN,
               type : {"U", "serial", "large"}]
MarkRec == [file : BOOLEAN, memory : BOOLEAN]

FormType ==
    /\ ask \in Uploads \cup Downloads
    /\ req \in RequestRec /\ mark \in MarkRec
    /\ chosen \in Forms /\ taken \in Forms \cup {"random"}

(* A request whose position, form and deletion are set.                    *)
LEMMA RequestSet ==
    ASSUME req \in RequestRec
    PROVE  /\ \A l \in RequestPos : [req EXCEPT !.pc = l] \in RequestRec
           /\ \A l \in RequestPos, f \in RequestForms, d \in BOOLEAN :
                /\ [req EXCEPT !.pc = l, !.form = f, !.delete = d] \in RequestRec
                /\ [req EXCEPT !.pc = l, !.delete = d, !.form = f] \in RequestRec
BY DEF RequestRec

LEMMA FormTypeStep == ASSUME FormType, [FormNext]_formVars PROVE FormType'
<1> USE DEF FormType
<1>0. /\ ask.dir \in {"put", "get"} /\ ask.delete \in BOOLEAN /\ ask.several \in BOOLEAN
      /\ ask.zipped \in BOOLEAN
  BY DEF Uploads, Downloads
<1>1. req.delete \in BOOLEAN /\ mark.file \in BOOLEAN /\ mark.memory \in BOOLEAN
  BY DEF RequestRec, MarkRec
<1>2. \A l \in RequestPos : [req EXCEPT !.pc = l] \in RequestRec  BY RequestSet
<1>3. CASE PutType
  BY <1>0, <1>3 DEF PutType, RequestRec, RequestPos, RequestForms
<1>4. CASE PutName
  <2>1. (req.delete /\ req.form = "data") \in BOOLEAN  OBVIOUS
  <2>2. RawRequest \in RequestRec
    <3> DEFINE d == req.delete /\ req.form = "data"
    <3>1. RawRequest = [req EXCEPT !.pc = "dispatch", !.form = "parallel", !.delete = d]
      BY DEF RawRequest
    <3>2. d \in BOOLEAN /\ "parallel" \in RequestForms /\ "dispatch" \in RequestPos
      BY DEF RequestForms, RequestPos
    <3> HIDE DEF d
    <3> QED BY <3>1, <3>2, RequestSet
  <2>3. [req EXCEPT !.pc = "dispatch"] \in RequestRec  BY <1>2 DEF RequestPos
  <2>4. [req EXCEPT !.pc = "dispatch", !.delete = FALSE,
                    !.form = IF ask.zipped THEN "parallel" ELSE "random"] \in RequestRec
    <3> DEFINE f == IF ask.zipped THEN "parallel" ELSE "random"
    <3>1. f \in RequestForms /\ "dispatch" \in RequestPos BY DEF RequestForms, RequestPos
    <3>2. \A g \in RequestForms :
            [req EXCEPT !.pc = "dispatch", !.delete = FALSE, !.form = g] \in RequestRec
      BY <3>1, RequestSet
    <3> HIDE DEF RequestForms
    <3> QED BY <3>1, <3>2
  <2> DEFINE A == [req EXCEPT !.pc = "dispatch"]
             B == [req EXCEPT !.pc = "dispatch", !.delete = FALSE,
                              !.form = IF ask.zipped THEN "parallel" ELSE "random"]
  <2>5. req' = A \/ req' = RawRequest \/ req' = B
    BY <1>4, Zenon DEF PutName
  <2> HIDE DEF A, B
  <2>6. req' \in RequestRec  BY <2>2, <2>3, <2>4, <2>5 DEF A, B
  <2>7. UNCHANGED <<ask, mark, chosen, taken>>  BY <1>4 DEF PutName
  <2> QED BY <2>6, <2>7
<1>5. CASE GetType
  <2>1. GetForm \in RequestForms /\ "dispatch" \in RequestPos
    BY DEF GetForm, RequestForms, RequestPos
  <2> QED BY <1>0, <1>5, <2>1, RequestSet DEF GetType
<1>6. CASE Refuse
  BY <1>2, <1>6 DEF Refuse, RequestPos
<1>7. CASE PutMetadata
  <2> DEFINE flag == req.delete /\ (ask.build = "INTERCOM" => ~ask.several)
  <2>1. flag \in BOOLEAN /\ mark' = [file |-> flag, memory |-> flag]
    BY <1>7 DEF PutMetadata
  <2> HIDE DEF flag
  <2> QED BY <1>2, <1>7, <2>1 DEF PutMetadata, MarkRec, RequestPos
<1>8. CASE Recipients
  <2> DEFINE m == mark.memory /\ ~ask.several
  <2>1. m \in BOOLEAN /\ mark' = [mark EXCEPT !.memory = m]
    BY <1>8 DEF Recipients
  <2> HIDE DEF m
  <2>2. mark' \in MarkRec  BY <2>1 DEF MarkRec
  <2> QED BY <1>2, <1>8, <2>2 DEF Recipients, RequestPos
<1>9. CASE ServePut
  <2>1. PutServed \in Forms  BY DEF PutServed, Forms
  <2>2. mark' \in MarkRec  BY <1>1, <1>9 DEF ServePut, MarkRec
  <2> QED BY <1>2, <1>9, <2>1, <2>2 DEF ServePut, RequestPos
<1>10. CASE PutAck
  BY <1>1, <1>2, <1>10 DEF PutAck, MarkRec, RequestPos
<1>11. CASE ServeGet
  <2>1. GetServed \in Forms  BY DEF GetServed, Forms
  <2> QED BY <1>2, <1>11, <2>1 DEF ServeGet, RequestPos
<1>12. CASE Take
  <2>1. Understood \in Forms \cup {"random"}  BY DEF Understood, Forms
  <2>2. req' \in RequestRec
    BY <1>2, <1>12 DEF Take, RequestPos
  <2> QED BY <1>12, <2>1, <2>2 DEF Take
<1>13. CASE UNCHANGED formVars  BY <1>13 DEF formVars
<1> QED
  BY <1>3, <1>4, <1>5, <1>6, <1>7, <1>8, <1>9, <1>10, <1>11, <1>12, <1>13 DEF FormNext

(* A request stays within the types, forms and positions of the two        *)
(* programs (trans_request_type_set, transfer_type_set).                   *)
THEOREM FormIsTyped == FormSpec => []FormTypeOK
<1>1. FormInit => FormType
  BY DEF FormInit, FormType, RequestRec, RequestPos, RequestForms, MarkRec, Forms
<1>2. FormType /\ [FormNext]_formVars => FormType'  BY FormTypeStep
<1>3. FormType => FormTypeOK
  BY DEF FormType, FormTypeOK, RequestRec, RequestPos, RequestForms, MarkRec
<1> QED BY <1>1, <1>2, <1>3, PTL DEF FormSpec
=============================================================================
