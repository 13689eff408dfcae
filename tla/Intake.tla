-------------------------------- MODULE Intake --------------------------------
(***************************************************************************)
(* How a request gets from the client to the owner's decision: the daemon  *)
(* that owns the Unix socket (internal/daemon/server.go), its clients      *)
(* (internal/rpc/client.go), the insert into the request table, the        *)
(* notice on Discord and the owner's commands.                             *)
(*                                                                         *)
(* A socket file is known by the daemon that bound it: removing a file and *)
(* closing a listener go by path, whoever's file is there by then.         *)
(*                                                                         *)
(* Left out: lookup, list and info, which only read; peers of another      *)
(* user, which are refused before anything is read; what approving and     *)
(* denying do to grants and filters (module Manager).                      *)
(***************************************************************************)
EXTENDS Naturals, FiniteSets

CONSTANTS
    Daemons,      \* "run" processes configured with the same socket path
    Clients,      \* processes of the client user
    Handlers,     \* bound on the connections served at a time
    Files,        \* request files somebody may submit
    Malformed,    \* the ones strict parsing refuses
    Blocked,      \* the ones the policy blocks
    Ids, IdOf,    \* request ids, and the id a file carries or NoId
    MaxReply,     \* requests a list on Discord has room for in a message
    NoDaemon, NoClient, NoFile, NoId, NoRow

VARIABLES
    daemon,       \* how far each daemon is in Server.Run
    path,         \* the daemon whose socket file is at SocketPath
    client,       \* the file a client wants stored, and its last answer
    handler,      \* the connections being served
    rows,         \* table requests: id -> file and status, or NoRow
    seen          \* what the owner has been shown: pairs of id and file

vars == <<daemon, path, client, handler, rows, seen>>

Generated == Ids \ {IdOf[f] : f \in Files}

ASSUME FilesAssumption ==
    /\ Malformed \subseteq Files /\ Blocked \subseteq Files \ Malformed
    /\ IdOf \in [Files -> Ids \cup {NoId}]
    /\ NoId \notin Ids

Rows == [file : Files, status : {"pending", "blocked", "decided"}]

ASSUME SentinelAssumption ==
    NoRow \notin Rows /\ NoClient \notin Clients /\ NoFile \notin Files

Answers == {"none", "ok", "refused", "failed"}

(* A daemon process that runs, in the order of Server.Run.                 *)
Up == {"starting", "listening", "serving", "closing"}

Idle == [file |-> NoFile, answer |-> "none", id |-> NoId]
Free == [at |-> "free", daemon |-> NoDaemon, client |-> NoClient,
         file |-> NoFile, answer |-> "none", id |-> NoId]

(* Bound: no more random ids are needed than there are in Ids.             *)
SpareId(f) ==
    IdOf[f] = NoId =>
        Cardinality({h \in Handlers : /\ handler[h].at = "dispatching"
                                      /\ IdOf[handler[h].file] = NoId})
          < Cardinality({i \in Generated : rows[i] = NoRow})

Connected(c) == \E h \in Handlers : handler[h].client = c

Row(f) == [file |-> f,
           status |-> IF f \in Blocked THEN "blocked" ELSE "pending"]

Has(i, status) == rows[i] # NoRow /\ rows[i].status = status

-----------------------------------------------------------------------------
(* The daemon process                                                      *)

Init ==
    /\ daemon = [d \in Daemons |-> "down"]
    /\ path = NoDaemon
    /\ client = [c \in Clients |-> Idle]
    /\ handler = [h \in Handlers |-> Free]
    /\ rows = [i \in Ids |-> NoRow]
    /\ seen = {}

StartOverStaleFile(d) ==
    /\ daemon[d] \in {"down", "failed"}
    /\ daemon' = [daemon EXCEPT ![d] = "starting"]
    /\ UNCHANGED <<path, client, handler, rows, seen>>

(* Run removes the file at its path, meant to be a stale socket.           *)
Start(d) ==
    /\ daemon[d] \in {"down", "failed"}
    /\ path' = NoDaemon
    /\ daemon' = [daemon EXCEPT ![d] = "starting"]
    /\ UNCHANGED <<client, handler, rows, seen>>

(* Binding fails when another file is at the path by then: Run returns.    *)
Listen(d) ==
    /\ daemon[d] = "starting"
    /\ IF path = NoDaemon
         THEN path' = d /\ daemon' = [daemon EXCEPT ![d] = "listening"]
         ELSE path' = path /\ daemon' = [daemon EXCEPT ![d] = "failed"]
    /\ UNCHANGED <<client, handler, rows, seen>>

(* The socket has its mode, and the accept loop begins.                    *)
Open(d) ==
    /\ daemon[d] = "listening"
    /\ daemon' = [daemon EXCEPT ![d] = "serving"]
    /\ UNCHANGED <<path, client, handler, rows, seen>>

(* The mode is not valid, or cannot be set: Run returns, and its deferred  *)
(* calls remove what is at the path.                                       *)
CannotOpen(d) ==
    /\ daemon[d] = "listening"
    /\ path' = NoDaemon
    /\ daemon' = [daemon EXCEPT ![d] = "failed"]
    /\ UNCHANGED <<client, handler, rows, seen>>

(* A signal cancels the context: the goroutine closes the listener, which  *)
(* unlinks its path, and the accept loop ends.                             *)
Close(d) ==
    /\ daemon[d] = "serving"
    /\ path' = NoDaemon
    /\ daemon' = [daemon EXCEPT ![d] = "closing"]
    /\ UNCHANGED <<client, handler, rows, seen>>

DieAlone(d) ==
    /\ daemon' = [daemon EXCEPT ![d] = "down"]
    /\ UNCHANGED <<client, handler, rows, seen>>

(* The end of process d cuts its handlers off wherever they are.           *)
Die(d) ==
    /\ daemon' = [daemon EXCEPT ![d] = "down"]
    /\ handler' = [h \in Handlers |->
                      IF handler[h].daemon = d THEN Free ELSE handler[h]]
    /\ UNCHANGED <<client, rows, seen>>

(* Run returns: its deferred Remove goes by path again.                    *)
Exit(d) ==
    /\ daemon[d] = "closing"
    /\ path' = NoDaemon
    /\ Die(d)

(* A killed process leaves its socket file behind.                         *)
Crash(d) ==
    /\ daemon[d] \in Up
    /\ Die(d)
    /\ UNCHANGED path

-----------------------------------------------------------------------------
(* Clients                                                                 *)

Begin(c, f) ==
    /\ client[c] = Idle
    /\ client' = [client EXCEPT ![c].file = f]
    /\ UNCHANGED <<daemon, path, handler, rows, seen>>

(* Dialling reaches whoever listens on the file at the path; the accept    *)
(* loop starts a handler.  Nobody there: the call fails, to be repeated.   *)
Connect(c, h) ==
    /\ client[c].file # NoFile
    /\ client[c].answer \in {"none", "failed"}
    /\ ~Connected(c)
    /\ handler[h] = Free /\ SpareId(client[c].file)
    /\ path # NoDaemon /\ daemon[path] = "serving"
    /\ handler' = [handler EXCEPT ![h] =
                      [at |-> "dispatching", daemon |-> path, client |-> c,
                       file |-> client[c].file, answer |-> "none",
                       id |-> NoId]]
    /\ UNCHANGED <<daemon, path, client, rows, seen>>

(* The deadline of 15 seconds: the handler, with 30, does not notice.      *)
GiveUp(h) ==
    /\ handler[h].client # NoClient
    /\ handler' = [handler EXCEPT ![h].client = NoClient]
    /\ UNCHANGED <<daemon, path, client, rows, seen>>

(* The client turns to something else: it has its answer, or stops trying. *)
Leave(c) ==
    /\ client[c].answer # "none"
    /\ ~Connected(c)
    /\ client' = [client EXCEPT ![c] = Idle]
    /\ UNCHANGED <<daemon, path, handler, rows, seen>>

-----------------------------------------------------------------------------
(* A connection's handler                                                  *)

Finish(h, step, answer, i) ==
    handler' = [handler EXCEPT ![h].at = step, ![h].answer = answer,
                               ![h].id = i]

Refuse(h) ==
    /\ handler[h].at = "dispatching"
    /\ handler[h].file \in Malformed
    /\ Finish(h, "answering", "refused", NoId)
    /\ UNCHANGED <<daemon, path, client, rows, seen>>

OverwritableId(f, i) ==
    IF IdOf[f] = NoId THEN i \in Generated /\ rows[i] = NoRow ELSE i = IdOf[f]

(* The id a file is stored under: its own, or a random one.  The primary   *)
(* key admits it once.                                                     *)
UsableId(f, i) ==
    /\ rows[i] = NoRow
    /\ IF IdOf[f] = NoId THEN i \in Generated ELSE i = IdOf[f]

(* Only a pending request is notified.                                     *)
Store(h) ==
    LET f == handler[h].file IN
    /\ handler[h].at = "dispatching"
    /\ f \notin Malformed
    /\ \E i \in Ids :
          /\ UsableId(f, i)
          /\ rows' = [rows EXCEPT ![i] = Row(f)]
          /\ IF f \in Blocked THEN Finish(h, "answering", "ok", i)
                              ELSE Finish(h, "notifying", "ok", i)
    /\ UNCHANGED <<daemon, path, client, seen>>

(* The id is taken.                                                        *)
StoreTwice(h) ==
    LET f == handler[h].file IN
    /\ handler[h].at = "dispatching"
    /\ f \notin Malformed
    /\ IdOf[f] # NoId
    /\ rows[IdOf[f]] # NoRow
    /\ Finish(h, "answering", "failed", NoId)
    /\ UNCHANGED <<daemon, path, client, rows, seen>>

StoreFailsSilently(h) ==
    /\ handler[h].at = "dispatching"
    /\ handler[h].file \notin Malformed
    /\ \E i \in Ids : UsableId(handler[h].file, i) /\ Finish(h, "answering", "ok", i)
    /\ UNCHANGED <<daemon, path, client, rows, seen>>

(* The id would do, but the database is locked or closed.                  *)
StoreFails(h) ==
    /\ handler[h].at = "dispatching"
    /\ handler[h].file \notin Malformed
    /\ \E i \in Ids : UsableId(handler[h].file, i)
    /\ Finish(h, "answering", "failed", NoId)
    /\ UNCHANGED <<daemon, path, client, rows, seen>>

(* NotifyPending reads the row back; its failure is ignored.               *)
Notify(h) ==
    LET i == handler[h].id IN
    /\ handler[h].at = "notifying"
    /\ handler' = [handler EXCEPT ![h].at = "answering"]
    /\ \/ seen' = seen \cup {<<i, rows[i].file>>}
       \/ UNCHANGED seen
    /\ UNCHANGED <<daemon, path, client, rows>>

(* The answer reaches the client if it still waits.                        *)
Answer(h) ==
    LET c == handler[h].client IN
    /\ handler[h].at = "answering"
    /\ handler' = [handler EXCEPT ![h] = Free]
    /\ client' = IF c = NoClient THEN client
                 ELSE [client EXCEPT ![c].answer = handler[h].answer,
                                     ![c].id = handler[h].id]
    /\ UNCHANGED <<daemon, path, rows, seen>>

-----------------------------------------------------------------------------
(* The owner                                                               *)

BlockedOnly(i) == Has(i, "blocked")

Listed(i) == Has(i, "pending")

(* "list --pending".                                                       *)
ListPending ==
    /\ seen' = seen \cup {<<i, rows[i].file>> : i \in {j \in Ids : Listed(j)}}
    /\ UNCHANGED <<daemon, path, client, handler, rows>>

(* The bot's "pending" is one message; when it is too long for Discord,    *)
(* sending fails, which is ignored, and the owner sees nothing.            *)
BotPending ==
    /\ \E d \in Daemons : daemon[d] \in Up
    /\ Cardinality({i \in Ids : Listed(i)}) <= MaxReply
    /\ ListPending

(* "approve" and "deny" name an id the owner has been shown.               *)
Decide(i) ==
    /\ \E f \in Files : <<i, f>> \in seen
    /\ Has(i, "pending")
    /\ rows' = [rows EXCEPT ![i].status = "decided"]
    /\ UNCHANGED <<daemon, path, client, handler, seen>>

-----------------------------------------------------------------------------

Serve(h) == Refuse(h) \/ Store(h) \/ StoreTwice(h) \/ Notify(h) \/ Answer(h)

Trouble ==
    \/ \E d \in Daemons : CannotOpen(d) \/ Close(d) \/ Crash(d)
    \/ \E h \in Handlers : StoreFails(h)

Next ==
    \/ Trouble
    \/ \E d \in Daemons : Start(d) \/ Listen(d) \/ Open(d) \/ Exit(d)
    \/ \E c \in Clients :
          \/ \E f \in Files : Begin(c, f)
          \/ \E h \in Handlers : Connect(c, h)
          \/ Leave(c)
    \/ \E h \in Handlers : GiveUp(h) \/ Serve(h)
    \/ ListPending \/ BotPending
    \/ \E i \in Ids : Decide(i)

(* The service manager restarts the daemon, handlers run, a client repeats *)
(* its call until it is answered, and the owner looks at the list again    *)
(* and again, on the command line, since Discord's may have no room for    *)
(* it, and decides what is on it.  Connecting is strongly fair since the   *)
(* bound on connections is the model's, not the program's.                 *)
Fairness ==
    /\ \A d \in Daemons : WF_vars(Start(d) \/ Listen(d) \/ Open(d) \/ Exit(d))
    /\ \A c \in Clients : SF_vars(\E h \in Handlers : Connect(c, h))
    /\ \A h \in Handlers : WF_vars(Serve(h))
    /\ WF_vars(ListPending)
    /\ \A i \in Ids : WF_vars(Decide(i))

Spec == Init /\ [][Next]_vars
FairSpec == Spec /\ Fairness

-----------------------------------------------------------------------------
(* Every variable keeps to its type; connections belong to live daemons,   *)
(* and a client waits on one connection at a time.                         *)
TypeOK ==
    /\ daemon \in [Daemons ->
          {"down", "failed"} \cup Up]
    /\ path \in Daemons \cup {NoDaemon}
    /\ client \in [Clients -> [file : Files \cup {NoFile}, answer : Answers,
                               id : Ids \cup {NoId}]]
    /\ handler \in [Handlers ->
          [at : {"free", "dispatching", "notifying", "answering"},
           daemon : Daemons \cup {NoDaemon}, client : Clients \cup {NoClient},
           file : Files \cup {NoFile}, answer : Answers,
           id : Ids \cup {NoId}]]
    /\ rows \in [Ids -> Rows \cup {NoRow}]
    /\ seen \subseteq Ids \X Files
    /\ \A h \in Handlers :
          handler[h] # Free =>
              daemon[handler[h].daemon] \in {"serving", "closing"}
    /\ \A g, h \in Handlers :
          handler[g].client = handler[h].client =>
              g = h \/ handler[g].client = NoClient

(* A client that was told ok has its own file stored under the id it was   *)
(* told, whatever was retried, refused or restarted since.                 *)
AnswersAreTrue ==
    \A c \in Clients : client[c].answer = "ok" =>
        LET row == rows[client[c].id] IN
        row # NoRow /\ row.file = client[c].file

(* The owner decides by id, on what was shown: no later submission under   *)
(* the same id may put another content behind it.                          *)
DecidedAsSeen ==
    \A i \in Ids : Has(i, "decided") => <<i, rows[i].file>> \in seen

(* A stored request is decided in the end, though notices are lost, the    *)
(* client may have gone, the daemon may have died right after storing, and *)
(* more requests wait than the bot's list has room for.                    *)
PendingIsDecided ==
    \A i \in Ids : Has(i, "pending") ~> Has(i, "decided")

Settled(f) ==
    \/ f \in Malformed
    \/ \E i \in Ids :
          /\ Has(i, "decided") \/ Has(i, "blocked")
          /\ i = IdOf[f] \/ rows[i].file = f

(* Once the daemon and its database stay up, a file some client keeps on   *)
(* submitting is stored and decided, or its id belongs to another request; *)
(* stale socket files, restarts and the client's own time-outs, which may  *)
(* go on, do not prevent it.                                               *)
CalmSubmissionsSettle ==
    (<>[][~Trouble]_vars) =>
        \A c \in Clients, f \in Files :
            (<>[](client[c].file = f)) => <>Settled(f)
==============================================================================
