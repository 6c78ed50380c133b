------------------------------ MODULE Sessions ------------------------------
(***************************************************************************)
(* How client programs and the server's threads talk: the connector, which *)
(* accepts clients and gives each a session and a worker thread; the       *)
(* workers, which execute the statements of their sessions; and the        *)
(* base-db thread, which creates databases for the root workers.           *)
(*                                                                         *)
(* They talk over three message queues that all processes share. A message *)
(* has a type, and a receiver names the type it wants: each RunClient uses *)
(* a type of its own, its queue id, for what it sends, and the next number *)
(* for what it is sent.                                                    *)
(*                                                                         *)
(* What a statement does in its database is not modelled here, only in     *)
(* which database it is executed, and by which thread.                     *)
(***************************************************************************)
EXTENDS Integers, Sequences, FiniteSetsExt

CONSTANTS
  Program,        \* client programs (ClientManager); each is started once
  Login,          \* what users connect as: records [place, identity, db]
  Db,             \* the databases users create
  BaseDb,         \* DEFAULT_DB_FOLDER_NAME
  QueueIds,       \* queue_list_range: a client program's queue ids, in order
  NoAnswer,       \* no message
  MaxClients,     \* bound: MaxClients[p]: clients that program p runs
  MaxStatements,  \* bound: statements a client sends
  MaxFailures     \* bound: client programs killed and server restarts, together

ClientNumber == DOMAIN QueueIds
Id == {QueueIds[i] : i \in ClientNumber}

ReplyTo_Same(id) == id
ReplyTo(id) == id + 1

PublicType == 200   \* CONNECTOR_MSG_TYPE_RECV
BaseType == 875     \* BASE_DB_WORKER_RECEIVE_QUEUE_ID
Type == Id \cup {id + 1 : id \in Id} \cup {PublicType, BaseType}

(* queue_list_range leaves out every other number: no reply has the type   *)
(* of a request.                                                           *)
ASSUME QueueAssumption ==
  /\ QueueIds \in Seq(Nat)
  /\ \A i, j \in ClientNumber : QueueIds[i] # QueueIds[j] + 1
  /\ \A i, j \in ClientNumber : QueueIds[i] = QueueIds[j] => i = j
  /\ \A i \in ClientNumber :
       {QueueIds[i], QueueIds[i] + 1} \cap {PublicType, BaseType} = {}

(* Behind the array's end no queue id is defined.                          *)
ASSUME ClientAssumption == MaxClients \in [Program -> 0 .. Len(QueueIds)]

(* What a login is made of.                                                *)
ASSUME LoginAssumption ==
  \A login \in Login :
    /\ login.db \in Db \cup {BaseDb}
    /\ login = [place |-> login.place, identity |-> login.identity, db |-> login.db]

(* Some programs are started, and the bounds are numbers.                  *)
ASSUME BoundAssumption ==
  /\ IsFiniteSet(Program)
  /\ MaxStatements \in Nat
  /\ MaxFailures \in Nat

VARIABLES
  server,           \* "starting", "creating", "filling", "naming", "opening": on
                    \* its way up; "up"; "down"; "broken": nothing is said of what follows
  installed,        \* the file INSTALL_PATH_CACHE_FILE holds a path
  connector_queue, worker_queue, base_queue,  \* messages of each type
  connector,        \* the connector: where it stands, and the client's message
  sessions,         \* the sessions stored, each with its worker thread
  base,             \* the base-db thread: where it stands, and its request
  names,            \* the rows of base_db's table: names of databases
  complete,         \* the databases whose files are all there
  program,          \* where each client program stands
  built,            \* the logins of the clients each program has run so far
  sent,             \* statements the current client has sent
  answer,           \* the last answer the program got
  kills, restarts

queues == <<connector_queue, worker_queue, base_queue>>
databases == <<installed, names, complete>>
clients == <<program, built, sent, answer>>
vars == <<server, queues, connector, sessions, base, databases, clients,
          kills, restarts>>

(* A statement, and the answer to it: what becomes of the message.         *)
Stmt(kinds) == [by : Program, client : ClientNumber, n : 1 .. MaxStatements,
                db : Db \cup {BaseDb}, kind : kinds]
Asks == {"query", "create"}
Answers == {"result", "success", "failure"}

(* "No message" is no message.                                             *)
ASSUME AnswerAssumption == NoAnswer \notin Stmt(Asks \cup Answers)

(* A client's login as it travels, and the connector's reply.              *)
Call(kinds) == [by : Program, client : ClientNumber, login : Login, kind : kinds]

NewConnector == [pc |-> "public", queue |-> 0, msg |-> NoAnswer]
NewBase == [pc |-> "starting", queue |-> 0, job |-> NoAnswer]

Init ==
  /\ server = "starting"
  /\ installed = FALSE
  /\ connector_queue = [t \in Type |-> <<>>]
  /\ worker_queue = [t \in Type |-> <<>>]
  /\ base_queue = [t \in Type |-> <<>>]
  /\ connector = NewConnector
  /\ sessions = <<>>
  /\ base = NewBase
  /\ names = <<>>
  /\ complete = {}
  /\ program = [p \in Program |-> "manager"]
  /\ built = [p \in Program |-> <<>>]
  /\ sent = [p \in Program |-> 0]
  /\ answer = [p \in Program |-> NoAnswer]
  /\ kills = 0
  /\ restarts = 0

Send(q, type, msg) == [q EXCEPT ![type] = Append(@, msg)]
Receive(q, type) == [q EXCEPT ![type] = Tail(@)]
Arrived(q, type) == q[type] # <<>>

-----------------------------------------------------------------------------
(* A client program. ClientManager::Run builds one client after the other, *)
(* each with the next queue id of its own array.                           *)
Client(p) == Len(built[p])
QueueId_First(p) == QueueIds[1]
QueueId(p) == QueueIds[Client(p)]
LoginOf(p) == built[p][Client(p)]

Goes(p, from, to) ==
  /\ server # "broken"
  /\ program[p] = from
  /\ program' = [program EXCEPT ![p] = to]

BuildClient(p, login) ==
  /\ Goes(p, "manager", "called")
  /\ Client(p) < MaxClients[p]
  /\ built' = [built EXCEPT ![p] = Append(@, login)]
  /\ sent' = [sent EXCEPT ![p] = 0]
  /\ answer' = [answer EXCEPT ![p] = NoAnswer]
  /\ connector_queue' = Send(connector_queue, PublicType, QueueIds[Client(p) + 1])
  /\ UNCHANGED <<server, worker_queue, base_queue, connector, sessions, base,
                 databases, kills, restarts>>

SendLogin(p) ==
  /\ Goes(p, "called", "waiting")
  /\ connector_queue' =
       Send(connector_queue, QueueId(p),
            [by |-> p, client |-> Client(p), login |-> LoginOf(p), kind |-> "login"])
  /\ UNCHANGED <<server, worker_queue, base_queue, connector, sessions, base,
                 databases, built, sent, answer, kills, restarts>>

(* A client that is refused throws, which ends the program.                *)
ReceiveResult(p) ==
  /\ program[p] = "waiting"
  /\ Arrived(connector_queue, ReplyTo(QueueId(p)))
  /\ LET result == Head(connector_queue[ReplyTo(QueueId(p))])
     IN  Goes(p, "waiting", IF result.kind = "connected" THEN "ready" ELSE "ended")
  /\ connector_queue' = Receive(connector_queue, ReplyTo(QueueId(p)))
  /\ UNCHANGED <<server, worker_queue, base_queue, connector, sessions, base,
                 databases, built, sent, answer, kills, restarts>>

(* A query is meant for the database its client is connected to.           *)
Sql(p) == {[kind |-> "query", db |-> LoginOf(p).db]}
          \cup {[kind |-> "create", db |-> db] : db \in Db}

SendSql(p) ==
  /\ Goes(p, "ready", "asked")
  /\ sent[p] < MaxStatements
  /\ sent' = [sent EXCEPT ![p] = @ + 1]
  /\ \E sql \in Sql(p) :
       worker_queue' =
         Send(worker_queue, QueueId(p),
              [by |-> p, client |-> Client(p), n |-> sent[p] + 1,
               kind |-> sql.kind, db |-> sql.db])
  /\ UNCHANGED <<server, connector_queue, base_queue, connector, sessions, base,
                 databases, built, answer, kills, restarts>>

ReceiveAnswer(p) ==
  /\ Goes(p, "asked", "ready")
  /\ Arrived(worker_queue, ReplyTo(QueueId(p)))
  /\ answer' = [answer EXCEPT ![p] = Head(worker_queue[ReplyTo(QueueId(p))])]
  /\ worker_queue' = Receive(worker_queue, ReplyTo(QueueId(p)))
  /\ UNCHANGED <<server, connector_queue, base_queue, connector, sessions, base,
                 databases, built, sent, kills, restarts>>

(* "quit" in a client tells the server nothing.                            *)
QuitClient(p) ==
  /\ Goes(p, "ready", "manager")
  /\ UNCHANGED <<server, queues, connector, sessions, base, databases,
                 built, sent, answer, kills, restarts>>

(* "quit" in the program removes the queues of the connector and of the    *)
(* workers, under all other programs and the server.                       *)
QuitProgram(p) ==
  /\ Goes(p, "manager", "ended")
  /\ server' = "broken"
  /\ UNCHANGED <<queues, connector, sessions, base, databases, built, sent,
                 answer, kills, restarts>>

Kill(p) ==
  /\ server # "broken"
  /\ program[p] # "ended"
  /\ kills + restarts < MaxFailures
  /\ kills' = kills + 1
  /\ program' = [program EXCEPT ![p] = "ended"]
  /\ UNCHANGED <<server, queues, connector, sessions, base, databases, built,
                 sent, answer, restarts>>

-----------------------------------------------------------------------------
(* The server starts. Whether it has been installed is decided by the path *)
(* that InstallDBMS writes first, before there is a base_db.               *)
ServerGoes(from, to) ==
  /\ server = from
  /\ server' = to
  /\ UNCHANGED <<queues, connector, sessions, base, clients, kills, restarts>>

WriteInstallPath ==
  /\ ServerGoes("starting", "creating")
  /\ ~installed
  /\ installed' = TRUE
  /\ UNCHANGED <<names, complete>>

(* The folder and the file that describes base_db, ...                     *)
CreateBaseDB ==
  /\ ServerGoes("creating", "filling")
  /\ UNCHANGED databases

(* ... its default table, without which it cannot be opened, ...           *)
CreateDefaultTableForBaseDb ==
  /\ ServerGoes("filling", "naming")
  /\ complete' = complete \cup {BaseDb}
  /\ UNCHANGED <<installed, names>>

(* ... and base_db's own name in it.                                       *)
NameBaseDB ==
  /\ ServerGoes("naming", "opening")
  /\ names' = Append(names, BaseDb)
  /\ UNCHANGED <<installed, complete>>

(* RunBaseDBThread loads base_db's tables, as a client's connecting loads  *)
(* those of its database (OpenIncomplete): behind an installation, or at   *)
(* once where there is a path.                                             *)
Installed == server = "opening" \/ (server = "starting" /\ installed)

Openable_Assumed(db) == {"up"}
Openable(db) == IF db \in complete THEN {"up"} ELSE {"down", "broken"}

OpenBaseDB ==
  /\ Installed
  /\ \E to \in Openable(BaseDb) : ServerGoes(server, to)
  /\ UNCHANGED databases

-----------------------------------------------------------------------------
(* The connector: a message with a queue id from the public type, then the *)
(* login from that queue.                                                  *)
Listens(thread, pc) == server = "up" /\ thread.pc = pc

ReceiveCall ==
  /\ Listens(connector, "public")
  /\ Arrived(connector_queue, PublicType)
  /\ connector' = [connector EXCEPT !.pc = "special",
                                    !.queue = Head(connector_queue[PublicType])]
  /\ connector_queue' = Receive(connector_queue, PublicType)
  /\ UNCHANGED <<server, worker_queue, base_queue, sessions, base, databases,
                 clients, kills, restarts>>

ReceiveLogin ==
  /\ Listens(connector, "special")
  /\ Arrived(connector_queue, connector.queue)
  /\ connector' = [connector EXCEPT !.pc = "connect",
                                    !.msg = Head(connector_queue[connector.queue])]
  /\ connector_queue' = Receive(connector_queue, connector.queue)
  /\ UNCHANGED <<server, worker_queue, base_queue, sessions, base, databases,
                 clients, kills, restarts>>

Reply(kind) ==
  /\ connector_queue' = Send(connector_queue, ReplyTo(connector.queue),
                             [connector.msg EXCEPT !.kind = kind])
  /\ connector' = NewConnector
  /\ UNCHANGED <<server, worker_queue, base_queue, base, databases, clients,
                 kills, restarts>>

(* session_map is searched by ip and port, written one behind the other:   *)
(* two addresses that look the same then are one place.                    *)
GetSession_ByIdentity(login) ==
  {s \in DOMAIN sessions : sessions[s].login.identity = login.identity}
GetSession(login) ==
  {s \in DOMAIN sessions : sessions[s].login.place = login.place}

NewSession_InBaseDb(login) ==
  [queue |-> connector.queue, login |-> [login EXCEPT !.db = BaseDb],
   pc |-> "starting", job |-> NoAnswer]

(* Who connects to base_db is ROOT.                                        *)
NewSession(login) ==
  [queue |-> connector.queue,
   login |-> IF login.db = BaseDb THEN [login EXCEPT !.identity = "ROOT"] ELSE login,
   pc |-> "starting", job |-> NoAnswer]

(* The rows of base_db's table with this name, and what CheckDBExist may   *)
(* say of it. Names are kept without an end mark and compared by strcmp,   *)
(* which goes on into what lies behind them in memory: a name that is      *)
(* there may be missed. (No name here is the beginning of another, so none *)
(* is taken for another one.)                                              *)
FilterEqual(db) == {i \in DOMAIN names : names[i] = db}

CheckDBExist(db) == IF FilterEqual(db) = {} THEN {FALSE} ELSE BOOLEAN

Connect ==
  LET login == connector.msg.login
  IN  /\ Listens(connector, "connect")
      /\ \/ \E s \in GetSession(login) :
              /\ Reply(IF sessions[s].login.identity = login.identity
                       THEN "connected" ELSE "refused")
              /\ UNCHANGED sessions
         \/ /\ GetSession(login) = {}
            /\ login.db = BaseDb \/ TRUE \in CheckDBExist(login.db)
            /\ login.db \in complete
            /\ Reply("connected")
            /\ sessions' = Append(sessions, NewSession(login))
         \/ /\ GetSession(login) = {}
            /\ login.db # BaseDb
            /\ FALSE \in CheckDBExist(login.db)
            /\ Reply("refused")
            /\ UNCHANGED sessions

(* The files of a database that has a name are missing, and opening them   *)
(* throws in the connector's thread, which ends the process; or they are   *)
(* empty, and what is read from them is anything.                          *)
OpenIncomplete ==
  LET login == connector.msg.login
  IN  /\ Listens(connector, "connect")
      /\ GetSession(login) = {}
      /\ TRUE \in CheckDBExist(login.db)
      /\ login.db \notin complete
      /\ server' \in {"down", "broken"}
      /\ UNCHANGED <<queues, connector, sessions, base, databases, clients, kills, restarts>>

-----------------------------------------------------------------------------
(* The workers. A worker's thread enters itself in worker_map, then        *)
(* listens for its session's queue id.                                     *)
StartWorker(s) ==
  /\ Listens(sessions[s], "starting")
  /\ sessions' = [sessions EXCEPT ![s].pc = "listen"]
  /\ UNCHANGED <<server, queues, connector, base, databases, clients, kills, restarts>>

ReceiveSql(s) ==
  LET queue == sessions[s].queue
  IN  /\ Listens(sessions[s], "listen")
      /\ Arrived(worker_queue, queue)
      /\ sessions' = [sessions EXCEPT ![s].pc = "work", ![s].job = Head(worker_queue[queue])]
      /\ worker_queue' = Receive(worker_queue, queue)
      /\ UNCHANGED <<server, connector_queue, base_queue, connector, base, databases,
                     clients, kills, restarts>>

SendBack(s, job, kind) ==
  /\ worker_queue' = Send(worker_queue, ReplyTo(sessions[s].queue),
                          [job EXCEPT !.kind = kind])
  /\ sessions' = [sessions EXCEPT ![s].pc = "listen", ![s].job = NoAnswer]
  /\ UNCHANGED <<server, connector_queue, connector, base, databases, clients,
                 kills, restarts>>

IsRoot(s) == sessions[s].login.db = BaseDb

(* Work: a user's worker executes queries and refuses to create databases. *)
UserWork(s) ==
  /\ Listens(sessions[s], "work")
  /\ ~IsRoot(s)
  /\ SendBack(s, sessions[s].job,
              IF sessions[s].job.kind = "create" THEN "failure" ELSE "result")
  /\ UNCHANGED base_queue

(* RootIdentityWork: nothing but CREATE DATABASE, which goes to the        *)
(* base-db thread as two messages; DROP DATABASE has no pattern and is not *)
(* parsed.                                                                 *)
RefuseWork(s) ==
  /\ Listens(sessions[s], "work")
  /\ IsRoot(s)
  /\ sessions[s].job.kind # "create"
  /\ SendBack(s, sessions[s].job, "failure")
  /\ UNCHANGED base_queue

ForwardedId_ReplyType(s) == ReplyTo(sessions[s].queue)
ForwardedId(s) == sessions[s].queue

ForwardQueueId(s) ==
  /\ Listens(sessions[s], "work")
  /\ IsRoot(s)
  /\ sessions[s].job.kind = "create"
  /\ base_queue' = Send(base_queue, BaseType, ForwardedId(s))
  /\ sessions' = [sessions EXCEPT ![s].pc = "forward"]
  /\ UNCHANGED <<server, connector_queue, worker_queue, connector, base, databases,
                 clients, kills, restarts>>

ForwardName(s) ==
  /\ Listens(sessions[s], "forward")
  /\ base_queue' = Send(base_queue, sessions[s].queue, sessions[s].job)
  /\ sessions' = [sessions EXCEPT ![s].pc = "await"]
  /\ UNCHANGED <<server, connector_queue, worker_queue, connector, base, databases,
                 clients, kills, restarts>>

ReturnOutcome(s) ==
  LET type == ReplyTo(sessions[s].queue)
  IN  /\ Listens(sessions[s], "await")
      /\ Arrived(base_queue, type)
      /\ SendBack(s, Head(base_queue[type]), Head(base_queue[type]).kind)
      /\ base_queue' = Receive(base_queue, type)

-----------------------------------------------------------------------------
(* The base-db thread: a queue id, then the request from that queue.       *)
StartBase ==
  /\ Listens(base, "starting")
  /\ base' = [base EXCEPT !.pc = "command"]
  /\ UNCHANGED <<server, queues, connector, sessions, databases, clients, kills, restarts>>

ReceiveCommand ==
  /\ Listens(base, "command")
  /\ Arrived(base_queue, BaseType)
  /\ base' = [base EXCEPT !.pc = "request", !.queue = Head(base_queue[BaseType])]
  /\ base_queue' = Receive(base_queue, BaseType)
  /\ UNCHANGED <<server, connector_queue, worker_queue, connector, sessions,
                 databases, clients, kills, restarts>>

RequestFrom_Any(id) ==
  IF \E i \in Id \ {id} : Arrived(base_queue, i)
  THEN CHOOSE i \in Id \ {id} : Arrived(base_queue, i) ELSE id
RequestFrom(id) == id

ReceiveRequest ==
  LET from == RequestFrom(base.queue)
  IN  /\ Listens(base, "request")
      /\ Arrived(base_queue, from)
      /\ base' = [base EXCEPT !.pc = "create", !.job = Head(base_queue[from])]
      /\ base_queue' = Receive(base_queue, from)
      /\ UNCHANGED <<server, connector_queue, worker_queue, connector, sessions,
                     databases, clients, kills, restarts>>

Outcome(kind) ==
  /\ base_queue' = Send(base_queue, ReplyTo(base.queue), [base.job EXCEPT !.kind = kind])
  /\ base' = [NewBase EXCEPT !.pc = "command"]
  /\ UNCHANGED <<server, connector_queue, worker_queue, connector, sessions,
                 installed, names, clients, kills, restarts>>

(* CreateDB: first the name enters base_db's table, ...                    *)
DatabaseExists ==
  /\ Listens(base, "create")
  /\ TRUE \in CheckDBExist(base.job.db)
  /\ Outcome("failure")
  /\ UNCHANGED complete

InsertName ==
  /\ Listens(base, "create")
  /\ FALSE \in CheckDBExist(base.job.db)
  /\ names' = Append(names, base.job.db)
  /\ base' = [base EXCEPT !.pc = "files"]
  /\ UNCHANGED <<server, queues, connector, sessions, installed, complete, clients, kills,
                 restarts>>

(* ... then come the folder and the file that describes the database,      *)
(* which is emptied first: one that was there is lost until the end; ...   *)
WriteDBFile ==
  /\ Listens(base, "files")
  /\ complete' = complete \ {base.job.db}
  /\ base' = [base EXCEPT !.pc = "tables"]
  /\ UNCHANGED <<server, queues, connector, sessions, installed, names, clients, kills,
                 restarts>>

(* ... and the default table, which is added to what there is.             *)
CreateDefaultTable_Forgotten(db) == complete
CreateDefaultTable(db) == complete \cup {db}

CreateFiles ==
  /\ Listens(base, "tables")
  /\ complete' = CreateDefaultTable(base.job.db)
  /\ Outcome("success")

-----------------------------------------------------------------------------
(* Two threads in one database at once: they may meet at a block, which    *)
(* stops the server (module LockWatcher), or in the list of its tables,    *)
(* which they share without a lock. Threads that start at once meet in     *)
(* worker_map, or with the connector in session_map. None of it need       *)
(* happen.                                                                 *)
Worker(s) == IF Listens(sessions[s], "work") /\ ~IsRoot(s) THEN {sessions[s].login.db} ELSE {}
Opener == IF Listens(connector, "connect") THEN {BaseDb, connector.msg.login.db} ELSE {}
Creator == IF base.pc \in {"create", "files", "tables"} THEN {BaseDb, base.job.db} ELSE {}

Overlap ==
  /\ server = "up"
  /\ \/ Opener \cap Creator # {}
     \/ \E s \in DOMAIN sessions : Worker(s) \cap (Opener \cup Creator) # {}
     \/ \E s, t \in DOMAIN sessions : s # t /\ Worker(s) \cap Worker(t) # {}
     \/ \E s, t \in DOMAIN sessions :
          s # t /\ sessions[s].pc = "starting" /\ sessions[t].pc = "starting"
     \/ \E s \in DOMAIN sessions :
          sessions[s].pc = "starting" /\ (base.pc = "starting" \/ connector.pc = "connect")
  /\ server' = "broken"
  /\ UNCHANGED <<queues, connector, sessions, base, databases, clients, kills, restarts>>

(* The server process ends, or has ended, and is started again. The queues *)
(* and what is in them stay.                                               *)
Restart ==
  /\ server # "broken"
  /\ kills + restarts < MaxFailures
  /\ restarts' = restarts + 1
  /\ server' = "starting"
  /\ connector' = NewConnector
  /\ sessions' = <<>>
  /\ base' = NewBase
  /\ UNCHANGED <<queues, databases, clients, kills>>

-----------------------------------------------------------------------------
ClientStep(p) == SendLogin(p) \/ ReceiveResult(p) \/ ReceiveAnswer(p)

ConnectorStep == ReceiveCall \/ ReceiveLogin \/ Connect

WorkerStep(s) ==
  /\ s \in DOMAIN sessions
  /\ \/ StartWorker(s) \/ ReceiveSql(s) \/ UserWork(s) \/ RefuseWork(s)
     \/ ForwardQueueId(s) \/ ForwardName(s) \/ ReturnOutcome(s)

BaseStep == StartBase \/ ReceiveCommand \/ ReceiveRequest \/ DatabaseExists
            \/ InsertName \/ WriteDBFile \/ CreateFiles

Next ==
  \/ \E p \in Program :
       \/ \E login \in Login : BuildClient(p, login)
       \/ SendLogin(p)
       \/ ReceiveResult(p)
       \/ SendSql(p)
       \/ ReceiveAnswer(p)
       \/ QuitClient(p)
       \/ QuitProgram(p)
       \/ Kill(p)
  \/ WriteInstallPath
  \/ CreateBaseDB
  \/ CreateDefaultTableForBaseDb
  \/ NameBaseDB
  \/ OpenBaseDB
  \/ ReceiveCall
  \/ ReceiveLogin
  \/ Connect
  \/ OpenIncomplete
  \/ \E s \in DOMAIN sessions :
       \/ StartWorker(s)
       \/ ReceiveSql(s)
       \/ UserWork(s)
       \/ RefuseWork(s)
       \/ ForwardQueueId(s)
       \/ ForwardName(s)
       \/ ReturnOutcome(s)
  \/ StartBase
  \/ ReceiveCommand
  \/ ReceiveRequest
  \/ DatabaseExists
  \/ InsertName
  \/ WriteDBFile
  \/ CreateFiles
  \/ Overlap
  \/ Restart

Spec == Init /\ [][Next]_vars

(* RunClient goes on by itself until it is connected and whenever it has   *)
(* an answer to read; the server's threads go on when they can. Users need *)
(* not type anything. There are at most as many sessions as clients.       *)
FairSpec ==
  /\ Spec
  /\ \A p \in Program : WF_vars(ClientStep(p))
  /\ WF_vars(ConnectorStep)
  /\ \A s \in 1 .. MapThenSumSet(LAMBDA p : MaxClients[p], Program) : WF_vars(WorkerStep(s))
  /\ WF_vars(BaseStep)

-----------------------------------------------------------------------------
(* The current client of a program shares its queue id and its place with  *)
(* no client that any program has run.                                     *)
Exclusive(p) ==
  /\ built[p] # <<>>
  /\ \A q \in Program : \A i \in DOMAIN built[q] :
       \/ q = p /\ i = Client(p)
       \/ QueueIds[i] # QueueId(p) /\ built[q][i].place # LoginOf(p).place

(* The type invariant: threads, programs and queues keep their types, and  *)
(* what waits under a queue id is what its receivers expect.               *)
TypeOK ==
  /\ server \in {"starting", "creating", "filling", "naming", "opening", "up", "down", "broken"}
  /\ installed \in BOOLEAN
  /\ connector_queue[PublicType] \in Seq(Id)
  /\ base_queue[BaseType] \in Seq(Id)
  /\ \A id \in Id :
       /\ connector_queue[id] \in Seq(Call({"login"}))
       /\ connector_queue[ReplyTo(id)] \in Seq(Call({"connected", "refused"}))
       /\ worker_queue[id] \in Seq(Stmt(Asks))
       /\ worker_queue[ReplyTo(id)] \in Seq(Stmt(Answers))
       /\ base_queue[id] \in Seq(Stmt({"create"}))
       /\ base_queue[ReplyTo(id)] \in Seq(Stmt({"success", "failure"}))
  /\ connector.pc \in {"public", "special", "connect"}
  /\ connector.queue \in Id \cup {0}
  /\ base.pc \in {"starting", "command", "request", "create", "files", "tables"}
  /\ base.queue \in Id \cup {0}
  /\ \A s \in DOMAIN sessions :
       /\ sessions[s].queue \in Id
       /\ sessions[s].pc \in {"starting", "listen", "work", "forward", "await"}
       /\ sessions[s].job \in Stmt(Asks) \cup {NoAnswer}
  /\ complete \subseteq Db \cup {BaseDb} /\ names \in Seq(Db \cup {BaseDb})
  /\ program \in [Program -> {"manager", "called", "waiting", "ready", "asked", "ended"}]
  /\ built \in [Program -> Seq(Login)]
  /\ sent \in [Program -> 0 .. MaxStatements]
  /\ answer \in [Program -> Stmt(Answers) \cup {NoAnswer}]

(* All user operation changes the database its client connected to: a      *)
(* worker never executes a statement of a client of another database, and  *)
(* only clients of base_db have their statements executed as ROOT.         *)
OwnDatabase ==
  \A s \in DOMAIN sessions : sessions[s].pc = "work" =>
    built[sessions[s].job.by][sessions[s].job.client].db = sessions[s].login.db

(* ... as long as the client's queue id and place are its own, whatever    *)
(* the other clients share.                                                *)
OwnDatabaseIfExclusive ==
  \A s \in DOMAIN sessions :
    LET job == sessions[s].job
    IN  sessions[s].pc = "work" /\ Exclusive(job.by) /\ job.client = Client(job.by)
          => LoginOf(job.by).db = sessions[s].login.db

(* The answer a client shows is to the statement it sent last, and not to  *)
(* one of another client, however the requests of root workers mix in the  *)
(* base-db thread's queue.                                                 *)
AnswersOwn ==
  \A p \in Program :
    program[p] = "ready" /\ sent[p] > 0 /\ Exclusive(p) =>
      /\ answer[p].by = p
      /\ answer[p].client = Client(p)
      /\ answer[p].n = sent[p]

(* A client that was told it is connected has a worker that listens to it, *)
(* in the database it asked for.                                           *)
Served ==
  \A p \in Program :
    program[p] \in {"ready", "asked"} /\ Exclusive(p) /\ restarts = 0 =>
      \E s \in DOMAIN sessions :
        /\ sessions[s].queue = QueueId(p)
        /\ sessions[s].login.db = LoginOf(p).db

(* The connector waits for a login, while others call, only if the client  *)
(* is about to send it, or was killed before it could: however calls and   *)
(* logins of clients with one queue id mix, and whatever a restart of the  *)
(* server leaves in the queues, each call taken is followed by a login.    *)
HeldUpByDead ==
  server = "up" /\ connector.pc = "special" /\ ~Arrived(connector_queue, connector.queue) =>
    \E p \in Program :
      /\ built[p] # <<>>
      /\ QueueId(p) = connector.queue
      /\ program[p] = "called" \/ (program[p] = "ended" /\ kills > 0)

(* The database of whoever is told that it was created is whole from then  *)
(* on, through restarts, unless it is created a second time, which a       *)
(* lookup that misses its name allows: then it is whole but for the time   *)
(* that takes, and may be lost to a restart. And a server that serves has  *)
(* its base_db whole, however its installation went.                       *)
CreatedTwice(db) == \E i, j \in FilterEqual(db) : i # j

CreatedIsThere ==
  /\ \A p \in Program :
       answer[p] # NoAnswer /\ answer[p].kind = "success" =>
         \/ answer[p].db \in complete
         \/ CreatedTwice(answer[p].db) /\ (base.pc = "tables" \/ restarts > 0)
  /\ server = "up" => BaseDb \in complete

(* A client is told whether it is connected, and gets an answer to each    *)
(* statement, until something breaks, a process dies, or another client    *)
(* comes to share its queue id or place.                                   *)
Undisturbed(p) == server = "up" /\ kills = 0 /\ restarts = 0 /\ Exclusive(p)

AllAnswered ==
  \A p \in Program :
    program[p] \in {"called", "waiting", "asked"}
      ~> program[p] \in {"ready", "ended"} \/ ~Undisturbed(p)
=============================================================================
