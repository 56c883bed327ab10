---------------------------- MODULE TransferForm ----------------------------
(***************************************************************************)
(* How client and server settle the form of a transfer: serial, parallel   *)
(* or separate blocks, and whether the data is deleted after its first     *)
(* retrieval.  The client turns its option into a request type, the server *)
(* chooses a form from the request, the sizes and the stored file, and the *)
(* client follows the server's word as it understands it.                  *)
(***************************************************************************)
EXTENDS Naturals

CONSTANTS
    FileSizes,      \* sizes of the files, in any unit
    LeastServer,    \* the least size the servers treat as large: 5,000,000
    LeastClient,    \* the client's least size: 5 * 1024 * 1024
    LeastRaw,       \* above it an uncompressed file asks for parallel: 100,000,000
    ParSize,        \* parallel_configured_size
    SepSize,        \* separate_configured_size
    LeastTiled      \* 90 pages of 4096 (BlockLayout)

ASSUME FormAssumption ==
    /\ FileSizes \subseteq Nat
    /\ {LeastServer, LeastClient, LeastRaw, ParSize, SepSize, LeastTiled} \subseteq Nat
    /\ LeastTiled <= LeastServer /\ LeastServer <= LeastClient
    /\ LeastTiled <= ParSize

VARIABLES
    ask,    \* what the user asks for, and of which file
    req,    \* position, request type: form and deletion, transfer type in par5
    mark,   \* the deletion flag: in the metadata file and in the server's memory
    chosen, \* the form the server carries out
    taken   \* the form the client carries out

formVars == <<ask, req, mark, chosen, taken>>

Forms == {"none", "serial", "parallel", "separate"}

Uploads ==
    [dir : {"put"}, option : {"none", "s", "l", "r", "u"}, delete : BOOLEAN,
     kind : {"file", "directory", "files"}, zipped : BOOLEAN, several : BOOLEAN,
     size : FileSizes, plain : {TRUE}, platform : {"unix", "windows"},
     build : {"TRANSCEND", "INTERCOM"}, stray : {FALSE}]

(* plain: stored as it is, not compressed; stray: the value trans_get_data *)
(* finds in its unset variable is the code of a random parallel transfer.  *)
Downloads ==
    [dir : {"get"}, option : {"none", "s", "l", "r", "z"}, delete : BOOLEAN,
     kind : {"file", "directory"}, zipped : {FALSE}, several : {FALSE},
     size : FileSizes, plain : BOOLEAN, platform : {"unix", "windows", "web"},
     build : {"TRANSCEND", "INTERCOM"}, stray : BOOLEAN]

FormInit ==
    /\ ask \in Uploads \cup Downloads
    /\ ask.zipped => ask.kind = "file"
    /\ req = [pc |-> "option", form |-> "data", delete |-> FALSE, type |-> "U"]
    /\ mark = [file |-> FALSE, memory |-> FALSE]
    /\ chosen = "none" /\ taken = "none"
-----------------------------------------------------------------------------
(***************************************************************************)
(* The client.                                                             *)
(***************************************************************************)
PutType ==
    /\ req.pc = "option" /\ ask.dir = "put"
    /\ req' = [pc |-> "name",
               form |-> IF ask.option \in {"l", "r"} /\ ask.kind # "files" THEN "large" ELSE "data",
               delete |-> ask.delete,
               type |-> IF ask.option \in {"l", "r"} /\ ask.kind # "files" THEN "large"
                        ELSE IF ask.option = "s" THEN "serial" ELSE "U"]
    /\ UNCHANGED <<ask, mark, chosen, taken>>

(* A compressed file is not compressed again on its way.                   *)
SentRaw == ask.option = "u" \/ ask.zipped

(* The request type for a raw file; the type with the deletion is kept     *)
(* only by a request that was not yet changed by an option.                *)
RawRequest == [req EXCEPT !.pc = "dispatch", !.form = "parallel",
                          !.delete = req.delete /\ req.form = "data"]

(* trans_request_type_set.                                                 *)
PutName ==
    /\ req.pc = "name"
    /\ req' =
         IF \/ req.type = "serial" \/ ask.platform = "windows"
            \/ ask.kind = "directory" /\ req.type = "large"
            \/ ask.kind = "files" \/ ask.size < LeastClient
           THEN [req EXCEPT !.pc = "dispatch"]
         ELSE IF SentRaw /\ ask.size > LeastRaw
           THEN RawRequest
         ELSE IF req.type = "large"
           THEN [req EXCEPT !.pc = "dispatch", !.delete = FALSE,
                            !.form = IF ask.zipped THEN "parallel" ELSE "random"]
         ELSE [req EXCEPT !.pc = "dispatch"]
    /\ UNCHANGED <<ask, mark, chosen, taken>>

(* trans_get_transfer_type_set.                                            *)
GetForm ==
    CASE ask.platform = "web" -> IF ask.option = "z" THEN "serial_zipped" ELSE "serial"
      [] ask.option = "l" -> "parallel"
      [] ask.option = "s" -> "serial"
      [] ask.option = "r" -> "separate"
      [] ask.option = "z" -> "zipped"
      [] OTHER -> "data"

GetType ==
    /\ req.pc = "option" /\ ask.dir = "get"
    /\ req' = [req EXCEPT !.pc = "dispatch", !.form = GetForm, !.delete = ask.delete]
    /\ UNCHANGED <<ask, mark, chosen, taken>>

(* Mutant: the client goes by its own option.                              *)
UnderstoodByOption ==
    CASE ask.platform = "windows" -> "serial"
      [] ask.option = "l" -> "parallel"
      [] ask.option = "r" -> "separate"
      [] OTHER -> "serial"

(* The client does what the server's word means to it: an upload is sent   *)
(* as the server says, a download's "parallel" is taken as separate blocks *)
(* by a client that asked for them, and a Windows client knows only serial *)
(* transfers.                                                              *)
Understood ==
    IF ask.platform = "windows" THEN "serial"
    ELSE IF ask.dir = "put" THEN chosen
    ELSE IF chosen \in {"parallel", "separate"}
           THEN IF ask.option = "r" THEN "separate" ELSE "parallel"
    ELSE IF ask.stray THEN "random" ELSE "serial"

Take ==
    /\ req.pc = "take"
    /\ taken' = Understood
    /\ req' = [req EXCEPT !.pc = IF chosen = "parallel" /\ ask.dir = "put" THEN "ack" ELSE "end"]
    /\ UNCHANGED <<ask, mark, chosen>>
-----------------------------------------------------------------------------
(***************************************************************************)
(* The server.                                                             *)
(***************************************************************************)
(* process_request has no case for these request types.                    *)
Unknown ==
    \/ ask.dir = "put" /\ req.form = "random"
    \/ ask.dir = "get" /\ req.form = "parallel" /\ req.delete

Refuse ==
    /\ req.pc = "dispatch" /\ Unknown
    /\ req' = [req EXCEPT !.pc = "refused"]
    /\ UNCHANGED <<ask, mark, chosen, taken>>

(* put_big_file writes the metadata file; Transcend does so before it      *)
(* reads the recipients, InterCom knows them already.                      *)
PutMetadata ==
    /\ req.pc = "dispatch" /\ ~Unknown /\ ask.dir = "put"
    /\ LET flag == req.delete /\ (ask.build = "INTERCOM" => ~ask.several) IN
         mark' = [file |-> flag, memory |-> flag]
    /\ req' = [req EXCEPT !.pc = "mail"]
    /\ UNCHANGED <<ask, chosen, taken>>

(* Mutant: the recipients are not looked at.                               *)
RecipientsIgnored ==
    /\ req.pc = "mail"
    /\ req' = [req EXCEPT !.pc = "serve"]
    /\ UNCHANGED <<ask, mark, chosen, taken>>

(* No deletion after the first retrieval for more than one recipient.      *)
Recipients ==
    /\ req.pc = "mail"
    /\ mark' = [mark EXCEPT !.memory = @ /\ ~ask.several]
    /\ req' = [req EXCEPT !.pc = "serve"]
    /\ UNCHANGED <<ask, chosen, taken>>

(* transfer_type_set.                                                      *)
PutServed ==
    IF \/ ask.size < LeastServer \/ ask.kind # "file"
       \/ ask.platform = "windows" \/ req.type = "serial"
      THEN "serial"
    ELSE IF req.type = "large" \/ (ask.size >= ParSize /\ ask.zipped)
      THEN "parallel"
    ELSE "serial"

(* big_file_put.  A serial upload ends with the metadata file written      *)
(* again, a parallel one leaves the process with what is in the file.      *)
ServePut ==
    /\ req.pc = "serve"
    /\ chosen' = PutServed
    /\ mark' = IF PutServed = "serial" THEN [mark EXCEPT !.file = mark.memory] ELSE mark
    /\ req' = [req EXCEPT !.pc = "take"]
    /\ UNCHANGED <<ask, taken>>

(* put_ack, in a process of its own, reads the file and writes it again.   *)
PutAck ==
    /\ req.pc = "ack"
    /\ mark' = [mark EXCEPT !.memory = mark.file]
    /\ req' = [req EXCEPT !.pc = "end"]
    /\ UNCHANGED <<ask, chosen, taken>>

SupportsParallel == ask.kind = "file" /\ ask.platform # "windows"
StoredSize == IF ask.plain THEN ask.size ELSE ask.size \div 2
AskedSerial == req.form \in {"serial", "serial_zipped"}

(* get_big_file of either program; a get-delete as separate blocks is not  *)
(* a DBGET_SEPARATE for Transcend.  Its branch on par5 is never taken: the *)
(* client sends there the transfer type of an upload, never that of a      *)
(* parallel get (transapi.c:756).                                          *)
GetServed ==
    IF ask.build = "TRANSCEND"
      THEN IF req.form = "separate" /\ ~req.delete /\ StoredSize > SepSize THEN "separate"
           ELSE IF ask.size > ParSize /\ ~AskedSerial /\ ask.plain /\ SupportsParallel
             THEN "parallel"
           ELSE "serial"
      ELSE IF req.form = "separate" /\ ask.size > SepSize THEN "separate"
           ELSE IF \/ AskedSerial \/ ask.platform = "windows"
                   \/ ~ask.plain \/ ask.size < LeastServer
             THEN "serial"
           ELSE IF ask.size >= ParSize \/ req.form = "parallel" THEN "parallel"
           ELSE "serial"

ServeGet ==
    /\ req.pc = "dispatch" /\ ~Unknown /\ ask.dir = "get"
    /\ chosen' = GetServed
    /\ req' = [req EXCEPT !.pc = "take"]
    /\ UNCHANGED <<ask, mark, taken>>

FormNext ==
    \/ PutType \/ PutName \/ GetType \/ Refuse \/ PutMetadata
    \/ Recipients \/ ServePut \/ PutAck \/ ServeGet \/ Take

FormSpec == FormInit /\ [][FormNext]_formVars
-----------------------------------------------------------------------------
FormTypeOK ==
    /\ ask \in Uploads \cup Downloads
    /\ req.pc \in {"option", "name", "dispatch", "refused", "mail", "serve", "take", "ack", "end"}
    /\ req.form \in {"data", "large", "random", "serial", "serial_zipped", "zipped",
                     "parallel", "separate"}
    /\ req.delete \in BOOLEAN /\ req.type \in {"U", "serial", "large"}
    /\ mark \in [file : BOOLEAN, memory : BOOLEAN]
    /\ chosen \in Forms /\ taken \in Forms \cup {"random"}

(* Where the code is known to let the two sides differ: a Windows client   *)
(* that asks for separate blocks, Transcend's answer to a get-delete as    *)
(* separate blocks of a file large enough for a parallel download, a server*)
(* configured with a size for separate blocks that is not below the one for*)
(* parallel transfers, and the unset variable of trans_get_data.           *)
KnownMisreading ==
    \/ ask.platform = "windows" /\ chosen = "separate"
    \/ ask.build = "TRANSCEND" /\ ask.option = "r" /\ ask.delete /\ chosen = "parallel"
    \/ ask.option = "r" /\ SepSize >= ParSize
    \/ ask.stray /\ chosen = "serial"

(* Once both sides have begun, they carry out the same form: no client     *)
(* waits for blocks that a server does not send, or takes a list of blocks *)
(* for another (get_big_file.c:87, trans_get.c:366).                       *)
FormsAgree == taken # "none" /\ ~KnownMisreading => taken = chosen

(* A parallel transfer is never chosen for a file so small that its ten    *)
(* blocks would leave its end out (BlockLayout), whichever of client,      *)
(* Transcend and InterCom decides, each with a limit of its own.           *)
ParallelIsLarge == chosen = "parallel" => ask.size >= LeastTiled

(* The client forgets the deletion when -l or -r meets a compressed file,  *)
(* and Transcend's parallel upload puts back the flag that several         *)
(* recipients had cleared.                                                 *)
ForgetsDeletion == ask.delete /\ req.type = "large" /\ req.form = "parallel"
RestoresDeletion ==
    ask.build = "TRANSCEND" /\ ask.delete /\ ask.several /\ chosen = "parallel"

(* At the end of an upload its data is to be deleted after the first       *)
(* retrieval exactly when the user asked for it and there is one recipient *)
(* (put_big_file.c:212 and :306, put_ack).                                 *)
DeletionAsAsked ==
    req.pc = "end" /\ ask.dir = "put" /\ ~ForgetsDeletion /\ ~RestoresDeletion
      => mark.file = (ask.delete /\ ~ask.several)
=============================================================================
