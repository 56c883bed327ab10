------------------------------ MODULE Failover ------------------------------
(***************************************************************************)
(* How a client of the Transcend servers finds one that serves its         *)
(* request: the repository its keyword's last letter names                 *)
(* (trans_repository_find) first, then, in intermediate_ssl_init, the      *)
(* server a WRONG_SERVER answer names and the rest of its repository       *)
(* table.  A server holds the item of the keyword, looks its home up in    *)
(* the put records of the data base, or knows neither (keyword_find).      *)
(***************************************************************************)
EXTENDS Naturals, Sequences, FiniteSets, SequencesExt

CONSTANTS
    Repositories,   \* the client's table: a sequence of servers
    Outside,        \* servers that only a redirection names
    MaxAttempted,   \* MAX_ATTEMPTED_SERVERS (15)
    FMaxFaults,     \* bound: stops and starts of servers during the search
    NoServer        \* the data base has no put record of the keyword

AllServers == ToSet(Repositories) \cup Outside

ASSUME FailoverAssumption ==
    /\ Repositories \in Seq(AllServers) /\ Repositories # <<>> /\ IsInjective(Repositories)
    /\ MaxAttempted \in Nat \ {0} /\ FMaxFaults \in Nat
    /\ NoServer \notin AllServers

VARIABLES
    build,      \* TRANSCEND, or INTERCOM (and DMZ): redirect without a comparison
    request,    \* the kind of request: get, put or ping
    up,         \* servers that accept connections
    holders,    \* servers with the data or the history of the keyword
    home,       \* the server the data base names
    search,     \* the client: server in use, next index, answer, first error
    attempted,  \* servers contacted, in order
    ffaults     \* stops and starts so far

fvars == <<build, request, up, holders, home, search, attempted, ffaults>>

Answers == {"none", "served", "not_found", "CONNECT_ERR", "WRONG_SERVER"}

FTypeOK ==
    /\ build \in {"TRANSCEND", "INTERCOM"}
    /\ request \in {"get", "put", "ping"}
    /\ up \subseteq AllServers /\ holders \subseteq AllServers
    /\ home \in AllServers \cup {NoServer}
    /\ search \in [server : AllServers, cnt : Nat, ret : Answers, first : Answers,
                   ended : BOOLEAN]
    /\ attempted \in Seq(AllServers) /\ Len(attempted) <= MaxAttempted
    /\ ffaults \in 0..FMaxFaults
-----------------------------------------------------------------------------
(* keyword_find at server s: its disk, then send2owner.                    *)
KeywordFind(s) ==
    CASE s \in holders -> "served"
      [] s \notin holders /\ home # NoServer /\ (build = "INTERCOM" \/ home # s) -> "WRONG_SERVER"
      [] OTHER -> "not_found"

(* ssl_init: connect, send the header, read the answer.                    *)
Contact(s) ==
    CASE s \notin up -> "CONNECT_ERR"
      [] s \in up /\ request = "get" -> KeywordFind(s)
      [] OTHER -> "served"

(* The server of the keyword, or the one chosen for the upload.            *)
FirstContact ==
    /\ attempted = <<>>
    /\ LET ret == Contact(search.server)
       IN  search' = [search EXCEPT !.ret = ret, !.first = ret,
                        !.ended = request = "ping" \/ ret \notin {"CONNECT_ERR", "WRONG_SERVER"}]
    /\ attempted' = <<search.server>>
    /\ UNCHANGED <<build, request, up, holders, home, ffaults>>

(* Mutant: the answer is not read, the table is walked.                    *)
NextServerIgnored == Repositories[search.cnt]

(* The entry of the table at cnt, or the server the last answer named.     *)
NextServer == IF search.ret = "WRONG_SERVER" THEN home ELSE Repositories[search.cnt]

(* Mutant: an index that moves on by one entry too many.                   *)
NextIndexSkip(s) == search.cnt + (IF search.ret = "WRONG_SERVER" THEN 0 ELSE 2)
                               + Cardinality({i \in DOMAIN attempted : attempted[i] = s})

(* Every earlier contact of the chosen server moves the index on, and the  *)
(* server is contacted all the same: the continue of the code continues    *)
(* the search among the contacts.                                          *)
NextIndex(s) == search.cnt + (IF search.ret = "WRONG_SERVER" THEN 0 ELSE 1)
                           + Cardinality({i \in DOMAIN attempted : attempted[i] = s})

SearchGoesOn == /\ attempted # <<>> /\ ~search.ended
                /\ search.cnt <= Len(Repositories)

(* One pass of the loop of intermediate_ssl_init.                          *)
PassWith(s, ret) ==
    IF search.first = "WRONG_SERVER" /\ ret = "WRONG_SERVER"
    THEN [search EXCEPT !.server = s, !.ret = "not_found", !.ended = TRUE]
    ELSE [search EXCEPT !.server = s, !.cnt = NextIndex(s), !.ret = ret,
            !.ended = ret \in {"served", "not_found"}]

(* Mutant: no list of contacts, so no bound on them and no known server.   *)
RetryForever ==
    /\ SearchGoesOn
    /\ search' = [search EXCEPT !.server = NextServer, !.ret = Contact(NextServer),
                    !.ended = Contact(NextServer) \in {"served", "not_found"}]
    /\ UNCHANGED <<attempted, build, request, up, holders, home, ffaults>>

Retry ==
    /\ SearchGoesOn
    /\ IF Len(attempted) < MaxAttempted
       THEN /\ attempted' = Append(attempted, NextServer)
            /\ search' = PassWith(NextServer, Contact(NextServer))
       ELSE /\ search' = [search EXCEPT !.server = NextServer, !.ended = TRUE,
                 !.ret = IF NextServer \in ToSet(attempted) THEN "CONNECT_ERR" ELSE @]
            /\ UNCHANGED attempted
    /\ UNCHANGED <<build, request, up, holders, home, ffaults>>

(* The table is exhausted: the last error is the client's answer.          *)
TableEnds ==
    /\ attempted # <<>> /\ ~search.ended /\ search.cnt > Len(Repositories)
    /\ search' = [search EXCEPT !.ended = TRUE]
    /\ UNCHANGED <<build, request, up, holders, home, attempted, ffaults>>

(* A server stops or starts between two contacts.                          *)
ServerStopsOrStarts(s) ==
    /\ ffaults < FMaxFaults /\ ~search.ended
    /\ up' = IF s \in up THEN up \ {s} ELSE up \cup {s}
    /\ ffaults' = ffaults + 1
    /\ UNCHANGED <<build, request, holders, home, search, attempted>>
-----------------------------------------------------------------------------
(* An item is uploaded to one server; where it is matters to a get only.   *)
FInit ==
    /\ up \in SUBSET AllServers
    /\ \/ /\ request = "get" /\ build \in {"TRANSCEND", "INTERCOM"}
          /\ holders \in {{}} \cup {{s} : s \in AllServers}
          /\ home \in AllServers \cup {NoServer}
       \/ /\ request \in {"put", "ping"} /\ build = "TRANSCEND"
          /\ holders = {} /\ home = NoServer
    /\ \E s \in ToSet(Repositories) :
         search = [server |-> s, cnt |-> 1, ret |-> "none", first |-> "none", ended |-> FALSE]
    /\ attempted = <<>>
    /\ ffaults = 0

ClientSearches == FirstContact \/ Retry \/ TableEnds

FNext == ClientSearches \/ \E s \in AllServers : ServerStopsOrStarts(s)

FSpec == FInit /\ [][FNext]_fvars

(* The client is one thread that does nothing but search; connect and the  *)
(* reads fail or return.                                                   *)
FFairness == WF_fvars(ClientSearches)
-----------------------------------------------------------------------------
(* Where the home of the data is up, holds it and stays up, a client that  *)
(* ends without it reached no server at all, or was sent home by the last  *)
(* entry of its table, whose redirection the loop does not follow.         *)
HomeServes ==
    (/\ search.ended /\ search.ret # "served" /\ ffaults = 0 /\ request = "get"
     /\ home \in up \cap holders /\ Len(attempted) < MaxAttempted)
    => \/ ToSet(attempted) \cap up = {}
       \/ search.ret = "WRONG_SERVER" /\ search.cnt > Len(Repositories)

(* A client that gives up for lack of a connection has left out no more    *)
(* entries of its table than it contacted servers again: the comment's     *)
(* "try next" skips one entry for each earlier contact of the same server. *)
SkippedAreRepeats ==
    (/\ search.ended /\ search.ret = "CONNECT_ERR" /\ request # "ping"
     /\ Len(attempted) < MaxAttempted)
    => Cardinality(ToSet(Repositories) \ ToSet(attempted))
         <= Cardinality({p \in (DOMAIN attempted) \X (DOMAIN attempted) :
                          p[1] < p[2] /\ attempted[p[1]] = attempted[p[2]]})

(* The search ends, whatever the servers answer: redirections in a circle  *)
(* end with "Keyword not found", the table and the list of contacts end.   *)
FailoverEnds == <>(search.ended)
=============================================================================
