--------------------------- MODULE SessionsProofs ---------------------------
(***************************************************************************)
(* Proofs about Sessions, for any number of programs and clients, any      *)
(* logins, databases and queue ids, and any number of statements and       *)
(* failures: what travels in the queues, from whom it comes, and what      *)
(* clients may rely on.                                                    *)
(***************************************************************************)
EXTENDS Sessions, SequenceTheorems, FiniteSetTheorems, TLAPS

(* A statement that creates a database names one that users create.        *)
Ask == {m \in Stmt(Asks) : m.kind = "create" => m.db \in Db}
Request == {m \in Stmt({"create"}) : m.db \in Db}

(* What the messages of each type are, in each queue.                      *)
ConnectorMsg ==
  [t \in Type |-> IF t = PublicType THEN Id
                  ELSE IF t \in Id THEN Call({"login"}) ELSE Call({"connected", "refused"})]

WorkerMsg == [t \in Type |-> IF t \in Id THEN Ask ELSE Stmt(Answers)]

BaseMsg ==
  [t \in Type |-> IF t = BaseType THEN Id
                  ELSE IF t \in Id THEN Request ELSE Stmt({"success", "failure"})]

Carries(q, Msg) ==
  /\ q = [t \in Type |-> q[t]]
  /\ \A t \in Type : q[t] \in Seq(Msg[t])

QueuesTyped ==
  /\ Carries(connector_queue, ConnectorMsg)
  /\ Carries(worker_queue, WorkerMsg)
  /\ Carries(base_queue, BaseMsg)

(* What a session's login is: a connection to base_db is ROOT's.           *)
SessionLogin ==
  [place : {login.place : login \in Login},
   identity : {login.identity : login \in Login} \cup {"ROOT"},
   db : Db \cup {BaseDb}]

Session ==
  [queue : Id, login : SessionLogin,
   pc : {"starting", "listen", "work", "forward", "await"}, job : Ask \cup {NoAnswer}]

(* A worker has a statement, the base-db thread a request.                 *)
Busy(s) == sessions[s].pc \in {"work", "forward", "await"}
Creating == base.pc \in {"create", "files", "tables"}

ConnectorTyped ==
  /\ connector \in [pc : {"public", "special", "connect"}, queue : Id \cup {0},
                    msg : Call({"login"}) \cup {NoAnswer}]
  /\ connector.pc # "public" => connector.queue \in Id
  /\ connector.pc = "connect" => connector.msg \in Call({"login"})

BaseTyped ==
  /\ base \in [pc : {"starting", "command", "request", "create", "files", "tables"},
               queue : Id \cup {0}, job : Request \cup {NoAnswer}]
  /\ base.pc \notin {"starting", "command"} => base.queue \in Id
  /\ Creating => base.job \in Request

SessionsTyped ==
  /\ sessions \in Seq(Session)
  /\ \A s \in 1 .. Len(sessions) :
       /\ Busy(s) => sessions[s].job \in Ask
       /\ sessions[s].pc \in {"forward", "await"} => sessions[s].job.kind = "create"

(* A program's current client: it calls, waits for a result or an answer,  *)
(* or is ready.                                                            *)
Active(p) == program[p] \in {"called", "waiting", "ready", "asked"}

ClientsTyped ==
  /\ program \in [Program -> {"manager", "called", "waiting", "ready", "asked", "ended"}]
  /\ built \in [Program -> Seq(Login)]
  /\ sent \in [Program -> 0 .. MaxStatements]
  /\ answer \in [Program -> Stmt(Answers) \cup {NoAnswer}]
  /\ \A p \in Program : /\ Client(p) <= MaxClients[p]
                        /\ Active(p) => Client(p) > 0

ServerTyped ==
  /\ server \in {"starting", "creating", "filling", "naming", "opening", "up", "down", "broken"}
  /\ installed \in BOOLEAN
  /\ complete \subseteq Db \cup {BaseDb}
  /\ names \in Seq(Db \cup {BaseDb})
  /\ kills \in Nat /\ restarts \in Nat

TypeInv ==
  QueuesTyped /\ ConnectorTyped /\ BaseTyped /\ SessionsTyped /\ ClientsTyped /\ ServerTyped

-----------------------------------------------------------------------------
(* Queue ids, and the types of replies.                                    *)
LEMMA IdProperties ==
  ASSUME NEW id \in Id
  PROVE  /\ id \in Nat /\ ReplyTo(id) = id + 1
         /\ id \in Type /\ id + 1 \in Type /\ id + 1 \notin Id
         /\ id \notin {PublicType, BaseType} /\ id + 1 \notin {PublicType, BaseType}
<1>1. PICK i \in ClientNumber : id = QueueIds[i]
  BY DEF Id
<1>2. id \in Nat
  BY <1>1, QueueAssumption, ElementOfSeq, LenProperties DEF ClientNumber
<1>3. id \notin {PublicType, BaseType} /\ id + 1 \notin {PublicType, BaseType}
  BY <1>1, QueueAssumption
<1>4. id + 1 \notin Id
  <2>1. SUFFICES ASSUME NEW j \in ClientNumber, id + 1 = QueueIds[j]
                 PROVE  FALSE
    BY DEF Id
  <2> QED
    BY <1>1, <2>1, QueueAssumption
<1> QED
  BY <1>2, <1>3, <1>4 DEF ReplyTo, Type

LEMMA MsgProperties ==
  /\ PublicType \in Type /\ ConnectorMsg[PublicType] = Id
  /\ BaseType \in Type /\ BaseMsg[BaseType] = Id
  /\ \A id \in Id : /\ ConnectorMsg[id] = Call({"login"})
                    /\ ConnectorMsg[id + 1] = Call({"connected", "refused"})
                    /\ WorkerMsg[id] = Ask
                    /\ WorkerMsg[id + 1] = Stmt(Answers)
                    /\ BaseMsg[id] = Request
                    /\ BaseMsg[id + 1] = Stmt({"success", "failure"})
<1>1. PublicType \in Type /\ BaseType \in Type
  BY DEF Type
<1>2. PublicType \notin Id /\ BaseType \notin Id
  BY IdProperties
<1>3. ConnectorMsg[PublicType] = Id /\ BaseMsg[BaseType] = Id
  BY <1>1 DEF ConnectorMsg, BaseMsg
<1>4. ASSUME NEW id \in Id
      PROVE  /\ ConnectorMsg[id] = Call({"login"})
             /\ ConnectorMsg[id + 1] = Call({"connected", "refused"})
             /\ WorkerMsg[id] = Ask
             /\ WorkerMsg[id + 1] = Stmt(Answers)
             /\ BaseMsg[id] = Request
             /\ BaseMsg[id + 1] = Stmt({"success", "failure"})
  BY IdProperties DEF ConnectorMsg, WorkerMsg, BaseMsg
<1> QED
  BY <1>1, <1>3, <1>4

(* What a sequence holds, and what adding to it and taking from it do.     *)
Messages(s) == {s[i] : i \in 1 .. Len(s)}

LEMMA MessagesProperties ==
  ASSUME NEW S, NEW s \in Seq(S)
  PROVE  /\ Messages(s) \subseteq S
         /\ \A m \in S : Messages(Append(s, m)) = Messages(s) \cup {m}
         /\ s # <<>> => /\ Head(s) \in Messages(s)
                        /\ Messages(Tail(s)) \subseteq Messages(s)
<1>1. Messages(s) \subseteq S
  BY ElementOfSeq DEF Messages
<1>2. ASSUME NEW m \in S
      PROVE  Messages(Append(s, m)) = Messages(s) \cup {m}
  <2>1. PICK t : t = Append(s, m)
    OBVIOUS
  <2>2. /\ Len(s) \in Nat /\ Len(t) = Len(s) + 1
        /\ \A i \in 1 .. Len(s) : t[i] = s[i]
        /\ t[Len(s) + 1] = m
    BY <2>1, AppendProperties, LenProperties
  <2>3. Messages(t) \subseteq Messages(s) \cup {m}
    BY <2>2 DEF Messages
  <2>4. Messages(s) \cup {m} \subseteq Messages(t)
    <3>1. m \in Messages(t)
      BY <2>2 DEF Messages
    <3>2. Messages(s) \subseteq Messages(t)
      BY <2>2 DEF Messages
    <3> QED
      BY <3>1, <3>2
  <2> QED
    BY <2>1, <2>3, <2>4
<1>3. ASSUME s # <<>>
      PROVE  Head(s) \in Messages(s) /\ Messages(Tail(s)) \subseteq Messages(s)
  <2>1. PICK t : t = Tail(s)
    OBVIOUS
  <2>2. /\ Len(s) \in Nat /\ Len(s) > 0 /\ Len(t) = Len(s) - 1
        /\ \A i \in 1 .. Len(t) : t[i] = s[i + 1]
    BY <1>3, <2>1, HeadTailProperties, EmptySeq, LenProperties
  <2>3. Head(s) = s[1]
    BY <1>3
  <2>4. Messages(t) \subseteq Messages(s)
    BY <2>2 DEF Messages
  <2> QED
    BY <2>1, <2>2, <2>3, <2>4 DEF Messages
<1> QED
  BY <1>1, <1>2, <1>3

LEMMA SendProperties ==
  ASSUME NEW q, NEW Msg, Carries(q, Msg), NEW t \in Type, NEW m \in Msg[t]
  PROVE  /\ Carries(Send(q, t, m), Msg)
         /\ Send(q, t, m)[t] = Append(q[t], m)
         /\ \A u \in Type : u # t => Send(q, t, m)[u] = q[u]
         /\ Messages(Send(q, t, m)[t]) = Messages(q[t]) \cup {m}
<1>1. PICK s : s = Send(q, t, m)
  OBVIOUS
<1>2. /\ s = [u \in Type |-> s[u]]
      /\ s[t] = Append(q[t], m)
      /\ \A u \in Type : u # t => s[u] = q[u]
  BY <1>1 DEF Send, Carries
<1>3. s[t] \in Seq(Msg[t])
  BY <1>2, AppendProperties DEF Carries
<1>4. Messages(s[t]) = Messages(q[t]) \cup {m}
  BY <1>2, MessagesProperties DEF Carries
<1> QED
  BY <1>1, <1>2, <1>3, <1>4 DEF Carries

LEMMA ReceiveProperties ==
  ASSUME NEW q, NEW Msg, Carries(q, Msg), NEW t \in Type, Arrived(q, t)
  PROVE  /\ Carries(Receive(q, t), Msg)
         /\ Head(q[t]) \in Msg[t]
         /\ Head(q[t]) \in Messages(q[t])
         /\ Receive(q, t)[t] = Tail(q[t])
         /\ \A u \in Type : u # t => Receive(q, t)[u] = q[u]
         /\ Messages(Receive(q, t)[t]) \subseteq Messages(q[t])
<1>1. PICK s : s = Receive(q, t)
  OBVIOUS
<1>2. /\ s = [u \in Type |-> s[u]]
      /\ s[t] = Tail(q[t])
      /\ \A u \in Type : u # t => s[u] = q[u]
  BY <1>1 DEF Receive, Carries
<1>3. q[t] \in Seq(Msg[t]) /\ q[t] # <<>>
  BY DEF Carries, Arrived
<1>4. s[t] \in Seq(Msg[t]) /\ Head(q[t]) \in Msg[t]
  BY <1>2, <1>3, HeadTailProperties
<1>5. Head(q[t]) \in Messages(q[t]) /\ Messages(s[t]) \subseteq Messages(q[t])
  BY <1>2, <1>3, MessagesProperties
<1> QED
  BY <1>1, <1>2, <1>4, <1>5 DEF Carries
-----------------------------------------------------------------------------
(* Who changes what.                                                       *)
ProgramStep(p) ==
  \/ \E login \in Login : BuildClient(p, login)
  \/ SendLogin(p) \/ ReceiveResult(p) \/ SendSql(p) \/ ReceiveAnswer(p)
  \/ QuitClient(p) \/ QuitProgram(p) \/ Kill(p)

StartStep ==
  \/ WriteInstallPath \/ CreateBaseDB \/ CreateDefaultTableForBaseDb
  \/ NameBaseDB \/ OpenBaseDB

SessionStep(s) ==
  \/ StartWorker(s) \/ ReceiveSql(s) \/ UserWork(s) \/ RefuseWork(s)
  \/ ForwardQueueId(s) \/ ForwardName(s) \/ ReturnOutcome(s)

LEMMA StepCases ==
  Next <=> \/ \E p \in Program : ProgramStep(p)
           \/ StartStep
           \/ ReceiveCall \/ ReceiveLogin \/ Connect \/ OpenIncomplete
           \/ \E s \in DOMAIN sessions : SessionStep(s)
           \/ BaseStep \/ Overlap \/ Restart
BY DEF Next, ProgramStep, StartStep, SessionStep, BaseStep

LEMMA ProgramFrame ==
  ASSUME NEW p, ProgramStep(p)
  PROVE  UNCHANGED <<connector, sessions, base, base_queue, databases, restarts>>
BY DEF ProgramStep, BuildClient, SendLogin, ReceiveResult, SendSql, ReceiveAnswer,
       QuitClient, QuitProgram, Kill, queues

LEMMA StartFrame ==
  StartStep => UNCHANGED <<queues, connector, sessions, base, clients, kills, restarts>>
BY DEF StartStep, WriteInstallPath, CreateBaseDB, CreateDefaultTableForBaseDb,
       NameBaseDB, OpenBaseDB, ServerGoes

LEMMA ConnectorFrame ==
  ReceiveCall \/ ReceiveLogin \/ Connect
    => UNCHANGED <<server, worker_queue, base_queue, base, databases, clients, kills, restarts>>
BY DEF ReceiveCall, ReceiveLogin, Connect, Reply

LEMMA SessionFrame ==
  ASSUME NEW s, SessionStep(s)
  PROVE  UNCHANGED <<server, connector_queue, connector, base, databases, clients,
                     kills, restarts>>
BY DEF SessionStep, StartWorker, ReceiveSql, UserWork, RefuseWork, ForwardQueueId,
       ForwardName, ReturnOutcome, SendBack, queues

LEMMA BaseFrame ==
  BaseStep => UNCHANGED <<server, connector_queue, worker_queue, connector, sessions,
                          installed, clients, kills, restarts>>
BY DEF BaseStep, StartBase, ReceiveCommand, ReceiveRequest, DatabaseExists, InsertName,
       WriteDBFile, CreateFiles, Outcome, queues, databases

LEMMA OtherFrame ==
  OpenIncomplete \/ Overlap \/ Restart
    => /\ UNCHANGED <<queues, databases, clients, kills>>
       /\ \/ UNCHANGED <<connector, sessions, base, restarts>>
          \/ Restart
BY DEF OpenIncomplete, Overlap, Restart
-----------------------------------------------------------------------------
(* The types. First the messages that each step sends.                     *)
LEMMA ClientProperties ==
  ASSUME TypeInv, NEW p \in Program
  PROVE  /\ Client(p) \in 0 .. Len(QueueIds)
         /\ Client(p) <= MaxClients[p] /\ MaxClients[p] \in Nat
         /\ Client(p) > 0 => /\ Client(p) \in ClientNumber
                             /\ QueueId(p) \in Id
                             /\ LoginOf(p) \in Login
         /\ Client(p) < MaxClients[p] =>
              /\ Client(p) + 1 \in ClientNumber
              /\ QueueIds[Client(p) + 1] \in Id
<1>1. built[p] \in Seq(Login) /\ Client(p) <= MaxClients[p]
  BY DEF TypeInv, ClientsTyped
<1>2. Client(p) \in Nat
  BY <1>1, LenProperties DEF Client
<1>3. MaxClients[p] \in 0 .. Len(QueueIds) /\ ClientNumber = 1 .. Len(QueueIds)
      /\ Len(QueueIds) \in Nat
  BY ClientAssumption, QueueAssumption, LenProperties DEF ClientNumber
<1>4. ASSUME Client(p) > 0
      PROVE  Client(p) \in ClientNumber /\ QueueId(p) \in Id /\ LoginOf(p) \in Login
  <2>1. Client(p) \in ClientNumber
    BY <1>1, <1>2, <1>3, <1>4
  <2>2. LoginOf(p) \in Login
    BY <1>1, <1>2, <1>4, ElementOfSeq DEF LoginOf, Client
  <2> QED
    BY <2>1, <2>2 DEF QueueId, Id
<1>5. Client(p) < MaxClients[p] =>
        Client(p) + 1 \in ClientNumber /\ QueueIds[Client(p) + 1] \in Id
  BY <1>2, <1>3 DEF Id
<1> QED
  BY <1>1, <1>2, <1>3, <1>4, <1>5

LEMMA NewStmt ==
  ASSUME NEW kinds, NEW others, NEW m \in Stmt(others), NEW kind \in kinds
  PROVE  [m EXCEPT !.kind = kind] \in Stmt(kinds)
BY DEF Stmt

LEMMA NewCall ==
  ASSUME NEW kinds, NEW others, NEW m \in Call(others), NEW kind \in kinds
  PROVE  [m EXCEPT !.kind = kind] \in Call(kinds)
BY DEF Call

(* A step of a program leaves the queues typed.                            *)
LEMMA ProgramQueues ==
  ASSUME TypeInv, NEW p \in Program, ProgramStep(p)
  PROVE  QueuesTyped'
<1> USE DEF QueuesTyped
<1>1. ASSUME NEW login \in Login, BuildClient(p, login)
      PROVE  QueuesTyped'
  <2>1. QueueIds[Client(p) + 1] \in ConnectorMsg[PublicType] /\ PublicType \in Type
    BY <1>1, ClientProperties, MsgProperties DEF BuildClient
  <2>2. Carries(connector_queue, ConnectorMsg)'
    BY <1>1, <2>1, SendProperties DEF BuildClient, TypeInv
  <2> QED
    BY <1>1, <2>2 DEF BuildClient, TypeInv
<1>2. CASE SendLogin(p)
  <2>1. Client(p) > 0
    BY <1>2 DEF SendLogin, Goes, TypeInv, ClientsTyped, Active
  <2>2. QueueId(p) \in Id /\ LoginOf(p) \in Login /\ Client(p) \in ClientNumber
    BY <2>1, ClientProperties
  <2>3. [by |-> p, client |-> Client(p), login |-> LoginOf(p), kind |-> "login"]
          \in Call({"login"})
    BY <2>2 DEF Call
  <2>4. Carries(connector_queue, ConnectorMsg)'
    BY <1>2, <2>2, <2>3, SendProperties, IdProperties, MsgProperties DEF SendLogin, TypeInv
  <2> QED
    BY <1>2, <2>4 DEF SendLogin, TypeInv
<1>3. CASE ReceiveResult(p)
  <2>1. QueueId(p) \in Id
    BY <1>3, ClientProperties DEF ReceiveResult, TypeInv, ClientsTyped, Active
  <2>2. Carries(connector_queue, ConnectorMsg)'
    BY <1>3, <2>1, ReceiveProperties, IdProperties DEF ReceiveResult, TypeInv
  <2> QED
    BY <1>3, <2>2 DEF ReceiveResult, TypeInv
<1>4. CASE SendSql(p)
  <2>1. Client(p) > 0 /\ sent[p] \in 0 .. MaxStatements
    BY <1>4 DEF SendSql, Goes, TypeInv, ClientsTyped, Active
  <2>2. QueueId(p) \in Id /\ LoginOf(p) \in Login /\ Client(p) \in ClientNumber
    BY <2>1, ClientProperties
  <2>3. sent[p] + 1 \in 1 .. MaxStatements
    BY <1>4, <2>1, BoundAssumption DEF SendSql
  <2>4. PICK sql \in Sql(p) :
          worker_queue' =
            Send(worker_queue, QueueId(p),
                 [by |-> p, client |-> Client(p), n |-> sent[p] + 1,
                  kind |-> sql.kind, db |-> sql.db])
    BY <1>4 DEF SendSql
  <2>5. /\ sql.kind \in Asks /\ sql.db \in Db \cup {BaseDb}
        /\ sql.kind = "create" => sql.db \in Db
    BY <2>2, LoginAssumption DEF Sql, Asks
  <2>6. [by |-> p, client |-> Client(p), n |-> sent[p] + 1,
         kind |-> sql.kind, db |-> sql.db] \in Ask
    BY <2>2, <2>3, <2>5 DEF Ask, Stmt
  <2>7. Carries(worker_queue, WorkerMsg)'
    BY <2>2, <2>4, <2>6, SendProperties, IdProperties, MsgProperties DEF TypeInv
  <2> QED
    BY <1>4, <2>7 DEF SendSql, TypeInv
<1>5. CASE ReceiveAnswer(p)
  <2>1. QueueId(p) \in Id
    BY <1>5, ClientProperties DEF ReceiveAnswer, Goes, TypeInv, ClientsTyped, Active
  <2>2. Carries(worker_queue, WorkerMsg)'
    BY <1>5, <2>1, ReceiveProperties, IdProperties DEF ReceiveAnswer, TypeInv
  <2> QED
    BY <1>5, <2>2 DEF ReceiveAnswer, TypeInv
<1>6. CASE QuitClient(p) \/ QuitProgram(p) \/ Kill(p)
  BY <1>6 DEF QuitClient, QuitProgram, Kill, queues, TypeInv
<1> QED
  BY <1>1, <1>2, <1>3, <1>4, <1>5, <1>6 DEF ProgramStep

LEMMA ConnectorQueues ==
  ASSUME TypeInv, ReceiveCall \/ ReceiveLogin \/ Connect
  PROVE  QueuesTyped'
<1> USE DEF QueuesTyped
<1>1. CASE ReceiveCall
  BY <1>1, ReceiveProperties, MsgProperties DEF ReceiveCall, TypeInv
<1>2. CASE ReceiveLogin
  <2>1. connector.queue \in Id
    BY <1>2 DEF ReceiveLogin, Listens, TypeInv, ConnectorTyped
  <2> QED
    BY <1>2, <2>1, ReceiveProperties, IdProperties DEF ReceiveLogin, TypeInv
<1>3. CASE Connect
  <2>1. connector.queue \in Id /\ connector.msg \in Call({"login"})
    BY <1>3 DEF Connect, Listens, TypeInv, ConnectorTyped
  <2>2. PICK kind \in {"connected", "refused"} : Reply(kind)
    BY <1>3 DEF Connect
  <2>3. [connector.msg EXCEPT !.kind = kind] \in Call({"connected", "refused"})
    BY <2>1, NewCall
  <2>4. Carries(connector_queue, ConnectorMsg)'
    BY <2>1, <2>2, <2>3, SendProperties, IdProperties, MsgProperties DEF Reply, TypeInv
  <2> QED
    BY <2>2, <2>4 DEF Reply, TypeInv
<1> QED
  BY <1>1, <1>2, <1>3
LEMMA JobTyped ==
  ASSUME TypeInv, NEW s \in DOMAIN sessions
  PROVE  /\ s \in 1 .. Len(sessions)
         /\ sessions[s] \in Session /\ sessions[s].queue \in Id
         /\ Busy(s) => sessions[s].job \in Ask
         /\ sessions[s].pc \in {"forward", "await"} => sessions[s].job.kind = "create"
<1>1. s \in 1 .. Len(sessions) /\ sessions[s] \in Session
  BY LenProperties, ElementOfSeq DEF TypeInv, SessionsTyped
<1> QED
  BY <1>1 DEF Session, TypeInv, SessionsTyped

LEMMA SessionQueues ==
  ASSUME TypeInv, NEW s \in DOMAIN sessions, SessionStep(s)
  PROVE  QueuesTyped'
<1> USE DEF QueuesTyped
<1>1. sessions[s].queue \in Id /\ (Busy(s) => sessions[s].job \in Ask)
  BY JobTyped
<1>2. CASE StartWorker(s)
  BY <1>2 DEF StartWorker, queues, TypeInv
<1>3. CASE ReceiveSql(s)
  BY <1>1, <1>3, ReceiveProperties, IdProperties DEF ReceiveSql, TypeInv
<1>4. ASSUME UserWork(s) \/ RefuseWork(s)
      PROVE  QueuesTyped'
  <2>1. sessions[s].job \in Stmt(Asks)
    BY <1>1, <1>4 DEF UserWork, RefuseWork, Listens, Busy, Ask
  <2>2. PICK kind \in Answers : SendBack(s, sessions[s].job, kind)
    BY <1>4 DEF UserWork, RefuseWork, Answers
  <2>3. [sessions[s].job EXCEPT !.kind = kind] \in Stmt(Answers)
    BY <2>1, NewStmt
  <2>4. Carries(worker_queue, WorkerMsg)'
    BY <1>1, <2>2, <2>3, SendProperties, IdProperties, MsgProperties DEF SendBack, TypeInv
  <2> QED
    BY <1>4, <2>2, <2>4 DEF UserWork, RefuseWork, SendBack, TypeInv
<1>5. CASE ForwardQueueId(s)
  <2>1. Carries(base_queue, BaseMsg)'
    BY <1>1, <1>5, SendProperties, MsgProperties DEF ForwardQueueId, ForwardedId, TypeInv
  <2> QED
    BY <1>5, <2>1 DEF ForwardQueueId, TypeInv
<1>6. CASE ForwardName(s)
  <2>1. sessions[s].job \in Request
    <3>1. sessions[s].job \in Ask /\ sessions[s].job.kind = "create"
      BY <1>6, JobTyped DEF ForwardName, Listens, Busy
    <3> QED
      BY <3>1 DEF Ask, Request, Stmt
  <2>2. Carries(base_queue, BaseMsg)'
    BY <1>1, <1>6, <2>1, SendProperties, IdProperties, MsgProperties DEF ForwardName, TypeInv
  <2> QED
    BY <1>6, <2>2 DEF ForwardName, TypeInv
<1>7. CASE ReturnOutcome(s)
  <2>1. PICK t, m : t = ReplyTo(sessions[s].queue) /\ m = Head(base_queue[t])
    OBVIOUS
  <2>2. t \in Type /\ t = sessions[s].queue + 1
    BY <1>1, <2>1, IdProperties
  <2>3. /\ Arrived(base_queue, t) /\ SendBack(s, m, m.kind)
        /\ base_queue' = Receive(base_queue, t)
    BY <1>7, <2>1 DEF ReturnOutcome
  <2>4. Carries(base_queue, BaseMsg)' /\ m \in BaseMsg[t]
    BY <2>1, <2>2, <2>3, ReceiveProperties DEF TypeInv
  <2>5. m \in Stmt({"success", "failure"})
    BY <1>1, <2>2, <2>4, MsgProperties
  <2>6. m.kind \in Answers
    BY <2>5 DEF Stmt, Answers
  <2>7. [m EXCEPT !.kind = m.kind] \in Stmt(Answers)
    BY <2>5, <2>6, NewStmt
  <2>8. Carries(worker_queue, WorkerMsg)'
    BY <1>1, <2>3, <2>7, SendProperties, IdProperties, MsgProperties DEF SendBack, TypeInv
  <2> QED
    BY <2>3, <2>4, <2>8 DEF SendBack, TypeInv
<1> QED
  BY <1>2, <1>3, <1>4, <1>5, <1>6, <1>7 DEF SessionStep

LEMMA BaseQueues ==
  ASSUME TypeInv, BaseStep
  PROVE  QueuesTyped'
<1> USE DEF QueuesTyped
<1>1. CASE StartBase \/ InsertName \/ WriteDBFile
  BY <1>1 DEF StartBase, InsertName, WriteDBFile, queues, TypeInv
<1>2. CASE ReceiveCommand
  BY <1>2, ReceiveProperties, MsgProperties DEF ReceiveCommand, TypeInv
<1>3. CASE ReceiveRequest
  <2>1. base.queue \in Id
    BY <1>3 DEF ReceiveRequest, Listens, TypeInv, BaseTyped
  <2> QED
    BY <1>3, <2>1, ReceiveProperties, IdProperties DEF ReceiveRequest, RequestFrom, TypeInv
<1>4. ASSUME DatabaseExists \/ CreateFiles
      PROVE  QueuesTyped'
  <2>1. base.queue \in Id /\ base.job \in Request
    BY <1>4 DEF DatabaseExists, CreateFiles, Listens, TypeInv, BaseTyped, Creating
  <2>2. PICK kind \in {"success", "failure"} : Outcome(kind)
    BY <1>4 DEF DatabaseExists, CreateFiles
  <2>3. [base.job EXCEPT !.kind = kind] \in Stmt({"success", "failure"})
    BY <2>1, NewStmt DEF Request
  <2>4. Carries(base_queue, BaseMsg)'
    BY <2>1, <2>2, <2>3, SendProperties, IdProperties, MsgProperties DEF Outcome, TypeInv
  <2> QED
    BY <2>2, <2>4 DEF Outcome, TypeInv
<1> QED
  BY <1>1, <1>2, <1>3, <1>4 DEF BaseStep

LEMMA QueuesNext == TypeInv /\ [Next]_vars => QueuesTyped'
<1> SUFFICES ASSUME TypeInv, [Next]_vars
             PROVE  QueuesTyped'
  OBVIOUS
<1>1. CASE UNCHANGED queues
  BY <1>1 DEF queues, QueuesTyped, TypeInv
<1>2. CASE Next
  BY <1>1, <1>2, StepCases, ProgramQueues, StartFrame, ConnectorQueues, SessionQueues,
     BaseQueues, OtherFrame
<1> QED
  BY <1>1, <1>2 DEF vars

(* The threads.                                                            *)
LEMMA ConnectorNext == TypeInv /\ [Next]_vars => ConnectorTyped'
<1> SUFFICES ASSUME TypeInv, [Next]_vars
             PROVE  ConnectorTyped'
  OBVIOUS
<1>1. CASE UNCHANGED connector
  BY <1>1 DEF ConnectorTyped, TypeInv
<1>2. CASE ReceiveCall
  <2>1. PICK m : m = Head(connector_queue[PublicType])
    OBVIOUS
  <2>2. m \in Id
    BY <1>2, <2>1, ReceiveProperties, MsgProperties DEF ReceiveCall, TypeInv, QueuesTyped
  <2>3. connector' = [connector EXCEPT !.pc = "special", !.queue = m]
    BY <1>2, <2>1 DEF ReceiveCall
  <2> QED
    BY <2>2, <2>3 DEF ConnectorTyped, TypeInv
<1>3. CASE ReceiveLogin
  <2>1. connector.queue \in Id
    BY <1>3 DEF ReceiveLogin, Listens, TypeInv, ConnectorTyped
  <2>2. PICK m : m = Head(connector_queue[connector.queue])
    OBVIOUS
  <2>3. m \in Call({"login"})
    BY <1>3, <2>1, <2>2, ReceiveProperties, IdProperties, MsgProperties
       DEF ReceiveLogin, TypeInv, QueuesTyped
  <2>4. connector' = [connector EXCEPT !.pc = "connect", !.msg = m]
    BY <1>3, <2>2 DEF ReceiveLogin
  <2> QED
    BY <2>1, <2>3, <2>4 DEF ConnectorTyped, TypeInv
<1>4. CASE connector' = NewConnector
  BY <1>4 DEF NewConnector, ConnectorTyped
<1>5. CASE Next
  <2>1. Connect => connector' = NewConnector
    BY DEF Connect, Reply
  <2>2. Restart => connector' = NewConnector
    BY DEF Restart
  <2> QED
    BY <1>1, <1>2, <1>3, <1>4, <1>5, <2>1, <2>2, StepCases, ProgramFrame, StartFrame,
       SessionFrame, BaseFrame, OtherFrame
<1> QED
  BY <1>1, <1>5 DEF vars
LEMMA BaseNext == TypeInv /\ [Next]_vars => BaseTyped'
<1> SUFFICES ASSUME TypeInv, [Next]_vars
             PROVE  BaseTyped'
  OBVIOUS
<1>1. CASE UNCHANGED base
  BY <1>1 DEF BaseTyped, Creating, TypeInv
<1>2. CASE ReceiveCommand
  <2>1. PICK m : m = Head(base_queue[BaseType])
    OBVIOUS
  <2>2. m \in Id
    BY <1>2, <2>1, ReceiveProperties, MsgProperties DEF ReceiveCommand, TypeInv, QueuesTyped
  <2>3. base' = [base EXCEPT !.pc = "request", !.queue = m]
    BY <1>2, <2>1 DEF ReceiveCommand
  <2> QED
    BY <2>2, <2>3 DEF BaseTyped, Creating, TypeInv
<1>3. CASE ReceiveRequest
  <2>1. base.queue \in Id
    BY <1>3 DEF ReceiveRequest, Listens, TypeInv, BaseTyped
  <2>2. PICK m : m = Head(base_queue[base.queue])
    OBVIOUS
  <2>3. m \in Request
    BY <1>3, <2>1, <2>2, ReceiveProperties, IdProperties, MsgProperties
       DEF ReceiveRequest, RequestFrom, TypeInv, QueuesTyped
  <2>4. base' = [base EXCEPT !.pc = "create", !.job = m]
    BY <1>3, <2>2 DEF ReceiveRequest, RequestFrom
  <2> QED
    BY <2>1, <2>3, <2>4 DEF BaseTyped, Creating, TypeInv
<1>4. ASSUME NEW pc \in {"command", "files", "tables"}, base' = [base EXCEPT !.pc = pc],
             pc # "command" => Creating
      PROVE  BaseTyped'
  BY <1>4 DEF BaseTyped, Creating, TypeInv
<1>5. StartBase \/ InsertName \/ WriteDBFile =>
        \E pc \in {"command", "files", "tables"} :
          base' = [base EXCEPT !.pc = pc] /\ (pc # "command" => Creating)
  BY DEF StartBase, InsertName, WriteDBFile, Listens, Creating
<1>6. CASE base' = NewBase \/ base' = [NewBase EXCEPT !.pc = "command"]
  BY <1>6 DEF NewBase, BaseTyped, Creating
<1>7. CASE Next
  <2>1. DatabaseExists \/ CreateFiles => base' = [NewBase EXCEPT !.pc = "command"]
    BY DEF DatabaseExists, CreateFiles, Outcome
  <2>2. Restart => base' = NewBase
    BY DEF Restart
  <2>3. CASE BaseStep
    BY <1>2, <1>3, <1>4, <1>5, <1>6, <2>1, <2>3 DEF BaseStep
  <2> QED
    BY <1>1, <1>6, <1>7, <2>2, <2>3, StepCases, ProgramFrame, StartFrame,
       ConnectorFrame, SessionFrame, OtherFrame
<1> QED
  BY <1>1, <1>7 DEF vars

(* A worker's step changes where it stands and its statement.              *)
LEMMA WorkerGoes ==
  ASSUME TypeInv, NEW s \in DOMAIN sessions, SessionStep(s)
  PROVE  \E pc \in {"starting", "listen", "work", "forward", "await"} :
         \E job \in Ask \cup {NoAnswer} :
           /\ sessions' = [sessions EXCEPT ![s].pc = pc, ![s].job = job]
           /\ pc \in {"work", "forward", "await"} => job \in Ask
           /\ pc \in {"forward", "await"} => job.kind = "create"
           /\ pc \in {"work", "forward", "await"} =>
                \/ ReceiveSql(s) /\ job = Head(worker_queue[sessions[s].queue])
                \/ Busy(s) /\ job = sessions[s].job
<1>1. /\ sessions[s] \in Session /\ sessions[s].queue \in Id
      /\ sessions[s].job \in Ask \cup {NoAnswer}
      /\ Busy(s) => sessions[s].job \in Ask
      /\ sessions[s].pc \in {"forward", "await"} => sessions[s].job.kind = "create"
  BY JobTyped DEF Session
<1>2. ASSUME NEW pc, sessions' = [sessions EXCEPT ![s].pc = pc]
      PROVE  sessions' = [sessions EXCEPT ![s].pc = pc, ![s].job = sessions[s].job]
  BY <1>1, <1>2 DEF Session
<1>3. CASE StartWorker(s)
  <2>1. sessions' = [sessions EXCEPT ![s].pc = "listen"]
    BY <1>3 DEF StartWorker
  <2> QED
    BY <1>1, <1>2, <2>1
<1>4. CASE ReceiveSql(s)
  <2>1. PICK m : m = Head(worker_queue[sessions[s].queue])
    OBVIOUS
  <2>2. m \in Ask
    BY <1>1, <1>4, <2>1, ReceiveProperties, IdProperties, MsgProperties
       DEF ReceiveSql, TypeInv, QueuesTyped
  <2>3. sessions' = [sessions EXCEPT ![s].pc = "work", ![s].job = m]
    BY <1>4, <2>1 DEF ReceiveSql
  <2> QED
    BY <1>4, <2>1, <2>2, <2>3
<1>5. CASE UserWork(s) \/ RefuseWork(s) \/ ReturnOutcome(s)
  <2>1. sessions' = [sessions EXCEPT ![s].pc = "listen", ![s].job = NoAnswer]
    BY <1>5 DEF UserWork, RefuseWork, ReturnOutcome, SendBack
  <2> QED
    BY <2>1
<1>6. CASE ForwardQueueId(s)
  <2>1. /\ sessions' = [sessions EXCEPT ![s].pc = "forward"]
        /\ sessions[s].job \in Ask /\ sessions[s].job.kind = "create" /\ Busy(s)
    BY <1>1, <1>6 DEF ForwardQueueId, Listens, Busy
  <2> QED
    BY <1>2, <2>1
<1>7. CASE ForwardName(s)
  <2>1. /\ sessions' = [sessions EXCEPT ![s].pc = "await"]
        /\ sessions[s].job \in Ask /\ sessions[s].job.kind = "create" /\ Busy(s)
    BY <1>1, <1>7 DEF ForwardName, Listens, Busy
  <2> QED
    BY <1>2, <2>1
<1> QED
  BY <1>3, <1>4, <1>5, <1>6, <1>7 DEF SessionStep

LEMMA SessionsChange ==
  ASSUME TypeInv, NEW s \in DOMAIN sessions, SessionStep(s)
  PROVE  \E x \in Session :
           /\ sessions' = [sessions EXCEPT ![s] = x]
           /\ x.queue = sessions[s].queue /\ x.login = sessions[s].login
           /\ x.pc \in {"work", "forward", "await"} => x.job \in Ask
           /\ x.pc \in {"forward", "await"} => x.job.kind = "create"
           /\ x.pc \in {"work", "forward", "await"} =>
                \/ ReceiveSql(s) /\ x.job = Head(worker_queue[sessions[s].queue])
                \/ Busy(s) /\ x.job = sessions[s].job
<1>1. sessions[s] \in Session
  BY JobTyped
<1>2. PICK pc \in {"starting", "listen", "work", "forward", "await"} :
      \E job \in Ask \cup {NoAnswer} :
           /\ sessions' = [sessions EXCEPT ![s].pc = pc, ![s].job = job]
           /\ pc \in {"work", "forward", "await"} => job \in Ask
           /\ pc \in {"forward", "await"} => job.kind = "create"
           /\ pc \in {"work", "forward", "await"} =>
                \/ ReceiveSql(s) /\ job = Head(worker_queue[sessions[s].queue])
                \/ Busy(s) /\ job = sessions[s].job
  BY WorkerGoes
<1>3. PICK job \in Ask \cup {NoAnswer} :
           /\ sessions' = [sessions EXCEPT ![s].pc = pc, ![s].job = job]
           /\ pc \in {"work", "forward", "await"} => job \in Ask
           /\ pc \in {"forward", "await"} => job.kind = "create"
           /\ pc \in {"work", "forward", "await"} =>
                \/ ReceiveSql(s) /\ job = Head(worker_queue[sessions[s].queue])
                \/ Busy(s) /\ job = sessions[s].job
  BY <1>2
<1>4. PICK x : x = [sessions[s] EXCEPT !.pc = pc, !.job = job]
  OBVIOUS
<1>5. x \in Session /\ x.queue = sessions[s].queue /\ x.login = sessions[s].login
      /\ x.pc = pc /\ x.job = job
  BY <1>1, <1>4 DEF Session
<1>6. sessions' = [sessions EXCEPT ![s] = x]
  BY <1>3, <1>4
<1> QED
  BY <1>3, <1>5, <1>6

LEMMA NewSessionTyped ==
  ASSUME TypeInv, connector.pc = "connect"
  PROVE  /\ connector.msg.login \in Login
         /\ NewSession(connector.msg.login) \in Session
         /\ NewSession(connector.msg.login).queue = connector.queue
         /\ NewSession(connector.msg.login).login.place = connector.msg.login.place
         /\ NewSession(connector.msg.login).login.db = connector.msg.login.db
         /\ NewSession(connector.msg.login).pc = "starting"
<1>1. PICK login : login = connector.msg.login
  OBVIOUS
<1>2. login \in Login /\ connector.queue \in Id
  BY <1>1 DEF TypeInv, ConnectorTyped, Call
<1>3. login.db \in Db \cup {BaseDb}
      /\ login = [place |-> login.place, identity |-> login.identity, db |-> login.db]
  BY <1>2, LoginAssumption
<1>4. PICK place, identity, db : place = login.place /\ identity = login.identity /\ db = login.db
  OBVIOUS
<1>5. login = [place |-> place, identity |-> identity, db |-> db]
  BY <1>3, <1>4
<1>6. PICK l : l = IF login.db = BaseDb THEN [login EXCEPT !.identity = "ROOT"] ELSE login
  OBVIOUS
<1>7. l.place = login.place /\ l.db = login.db /\ l \in SessionLogin
  <2>1. CASE login.db = BaseDb
    <3>1. l = [place |-> place, identity |-> "ROOT", db |-> db]
      BY <1>5, <1>6, <2>1
    <3> QED
      BY <1>2, <1>3, <1>4, <3>1 DEF SessionLogin
  <2>2. CASE login.db # BaseDb
    <3>1. l = [place |-> place, identity |-> identity, db |-> db]
      BY <1>5, <1>6, <2>2
    <3> QED
      BY <1>2, <1>3, <1>4, <3>1 DEF SessionLogin
  <2> QED
    BY <2>1, <2>2
<1>8. NewSession(login) = [queue |-> connector.queue, login |-> l, pc |-> "starting",
                           job |-> NoAnswer]
  BY <1>6 DEF NewSession
<1>9. NewSession(login) \in Session
  BY <1>2, <1>7, <1>8 DEF Session
<1> QED
  BY <1>1, <1>2, <1>7, <1>8, <1>9
LEMMA SessionsNext == TypeInv /\ [Next]_vars => SessionsTyped'
<1> SUFFICES ASSUME TypeInv, [Next]_vars
             PROVE  SessionsTyped'
  OBVIOUS
<1>1. CASE UNCHANGED sessions
  BY <1>1 DEF SessionsTyped, Busy, TypeInv
<1>2. ASSUME NEW s \in DOMAIN sessions, SessionStep(s)
      PROVE  SessionsTyped'
  <2>1. PICK x \in Session :
           /\ sessions' = [sessions EXCEPT ![s] = x]
           /\ x.pc \in {"work", "forward", "await"} => x.job \in Ask
           /\ x.pc \in {"forward", "await"} => x.job.kind = "create"
    BY <1>2, SessionsChange
  <2>2. s \in 1 .. Len(sessions) /\ sessions \in Seq(Session)
    BY JobTyped DEF TypeInv, SessionsTyped
  <2>3. /\ sessions' \in Seq(Session) /\ Len(sessions') = Len(sessions)
        /\ \A t \in 1 .. Len(sessions) : sessions'[t] = IF t = s THEN x ELSE sessions[t]
    BY <2>1, <2>2, ExceptSeq
  <2> QED
    BY <2>1, <2>3 DEF SessionsTyped, Busy, TypeInv
<1>3. CASE Connect
  <2>1. CASE UNCHANGED sessions
    BY <1>1, <2>1
  <2>2. ASSUME sessions' = Append(sessions, NewSession(connector.msg.login))
        PROVE  SessionsTyped'
    <3>1. PICK x : x = NewSession(connector.msg.login)
      OBVIOUS
    <3>2. x \in Session /\ x.pc = "starting"
      BY <1>3, <3>1, NewSessionTyped DEF Connect, Listens
    <3>3. /\ sessions' \in Seq(Session) /\ Len(sessions') = Len(sessions) + 1
          /\ \A t \in 1 .. Len(sessions) : sessions'[t] = sessions[t]
          /\ sessions'[Len(sessions) + 1] = x
      BY <2>2, <3>1, <3>2, AppendProperties DEF TypeInv, SessionsTyped
    <3>4. \A t \in 1 .. Len(sessions') : t \in 1 .. Len(sessions) \/ t = Len(sessions) + 1
      BY <3>3, LenProperties DEF TypeInv, SessionsTyped
    <3> QED
      BY <3>2, <3>3, <3>4 DEF SessionsTyped, Busy, TypeInv
  <2> QED
    BY <1>3, <2>1, <2>2 DEF Connect
<1>4. CASE Restart
  BY <1>4, EmptySeq DEF Restart, SessionsTyped
<1>5. CASE Next
  <2>1. ReceiveCall \/ ReceiveLogin => UNCHANGED sessions
    BY DEF ReceiveCall, ReceiveLogin
  <2> QED
    BY <1>1, <1>2, <1>3, <1>4, <1>5, <2>1, StepCases, ProgramFrame, StartFrame,
       BaseFrame, OtherFrame
<1> QED
  BY <1>1, <1>5 DEF vars

(* The programs.                                                           *)
LEMMA ProgramGoes ==
  ASSUME TypeInv, NEW p \in Program, ProgramStep(p)
  PROVE  \E to \in {"manager", "called", "waiting", "ready", "asked", "ended"} :
           program' = [program EXCEPT ![p] = to]
<1>1. ASSUME NEW login \in Login, BuildClient(p, login)
      PROVE  program' = [program EXCEPT ![p] = "called"]
  BY <1>1 DEF BuildClient, Goes
<1>2. SendLogin(p) => program' = [program EXCEPT ![p] = "waiting"]
  BY DEF SendLogin, Goes
<1>3. ReceiveResult(p) => \E to \in {"ready", "ended"} : program' = [program EXCEPT ![p] = to]
  BY DEF ReceiveResult, Goes
<1>4. SendSql(p) => program' = [program EXCEPT ![p] = "asked"]
  BY DEF SendSql, Goes
<1>5. ReceiveAnswer(p) => program' = [program EXCEPT ![p] = "ready"]
  BY DEF ReceiveAnswer, Goes
<1>6. QuitClient(p) => program' = [program EXCEPT ![p] = "manager"]
  BY DEF QuitClient, Goes
<1>7. QuitProgram(p) => program' = [program EXCEPT ![p] = "ended"]
  BY DEF QuitProgram, Goes
<1>8. Kill(p) => program' = [program EXCEPT ![p] = "ended"]
  BY DEF Kill
<1> QED
  BY <1>1, <1>2, <1>3, <1>4, <1>5, <1>6, <1>7, <1>8 DEF ProgramStep

LEMMA BuildKeeps ==
  ASSUME TypeInv, NEW p \in Program, NEW login \in Login, BuildClient(p, login)
  PROVE  /\ built' \in [Program -> Seq(Login)]
         /\ built'[p] = Append(built[p], login)
         /\ Client(p)' = Client(p) + 1 /\ LoginOf(p)' = login
         /\ \A i \in 1 .. Client(p) : built'[p][i] = built[p][i]
         /\ \A q \in Program \ {p} : built'[q] = built[q]
<1>1. built' = [built EXCEPT ![p] = Append(built[p], login)] /\ built \in [Program -> Seq(Login)]
  BY DEF BuildClient, TypeInv, ClientsTyped
<1>2. PICK s, t : s = built[p] /\ t = Append(built[p], login)
  OBVIOUS
<1>3. /\ s \in Seq(Login) /\ t \in Seq(Login) /\ Len(t) = Len(s) + 1
      /\ t[Len(s) + 1] = login
      /\ \A i \in 1 .. Len(s) : t[i] = s[i]
  BY <1>1, <1>2, AppendProperties
<1>4. built'[p] = t /\ \A q \in Program \ {p} : built'[q] = built[q]
  BY <1>1, <1>2
<1>5. built' \in [Program -> Seq(Login)]
  BY <1>1, <1>2, <1>3
<1>6. Client(p) = Len(s) /\ Client(p)' = Len(t)
  BY <1>2, <1>4 DEF Client
<1>7. LoginOf(p)' = login
  BY <1>3, <1>4, <1>6 DEF LoginOf
<1> QED
  BY <1>2, <1>3, <1>4, <1>5, <1>6, <1>7

LEMMA ClientsNext == TypeInv /\ [Next]_vars => ClientsTyped'
<1> SUFFICES ASSUME TypeInv, [Next]_vars
             PROVE  ClientsTyped'
  OBVIOUS
<1>1. CASE UNCHANGED clients
  BY <1>1 DEF clients, ClientsTyped, Active, Client, TypeInv
<1>2. ASSUME NEW p \in Program, ProgramStep(p)
      PROVE  ClientsTyped'
  <2>1. PICK to \in {"manager", "called", "waiting", "ready", "asked", "ended"} :
          program' = [program EXCEPT ![p] = to]
    BY <1>2, ProgramGoes
  <2>2. program' \in [Program -> {"manager", "called", "waiting", "ready", "asked", "ended"}]
    BY <2>1 DEF TypeInv, ClientsTyped
  <2>3. \A q \in Program \ {p} : program'[q] = program[q]
    BY <2>1 DEF TypeInv, ClientsTyped
  <2>4. ASSUME NEW login \in Login, BuildClient(p, login)
        PROVE  ClientsTyped'
    <3>1. /\ built' \in [Program -> Seq(Login)] /\ Client(p)' = Client(p) + 1
          /\ \A q \in Program \ {p} : Client(q)' = Client(q)
      BY <2>4, BuildKeeps DEF Client
    <3>2. sent' \in [Program -> 0 .. MaxStatements]
      BY <2>4, BoundAssumption DEF BuildClient, TypeInv, ClientsTyped
    <3>3. answer' \in [Program -> Stmt(Answers) \cup {NoAnswer}]
      BY <2>4 DEF BuildClient, TypeInv, ClientsTyped
    <3>4. Client(p)' <= MaxClients[p] /\ Client(p)' > 0
      BY <2>4, <3>1, ClientProperties DEF BuildClient
    <3> QED
      BY <2>2, <2>3, <3>1, <3>2, <3>3, <3>4 DEF ClientsTyped, Active, TypeInv
  <2>5. ASSUME UNCHANGED built, Active(p)' => Client(p) > 0,
               sent' \in [Program -> 0 .. MaxStatements],
               answer' \in [Program -> Stmt(Answers) \cup {NoAnswer}]
        PROVE  ClientsTyped'
    <3>1. \A q \in Program : Client(q)' = Client(q)
      BY <2>5 DEF Client
    <3> QED
      BY <2>2, <2>3, <2>5, <3>1 DEF ClientsTyped, Active, TypeInv
  <2>6. Active(p) => Client(p) > 0
    BY DEF TypeInv, ClientsTyped
  <2>7. CASE SendLogin(p) \/ ReceiveResult(p) \/ QuitClient(p) \/ QuitProgram(p) \/ Kill(p)
    <3>1. UNCHANGED <<built, sent, answer>>
      BY <2>7 DEF SendLogin, ReceiveResult, QuitClient, QuitProgram, Kill
    <3>2. Active(p)' => Active(p)
      BY <2>7 DEF SendLogin, ReceiveResult, QuitClient, QuitProgram, Kill, Goes, Active,
                  TypeInv, ClientsTyped
    <3> QED
      BY <2>5, <2>6, <3>1, <3>2 DEF TypeInv, ClientsTyped
  <2>8. CASE SendSql(p)
    <3>1. sent[p] \in 0 .. MaxStatements /\ sent[p] < MaxStatements
      BY <2>8 DEF SendSql, TypeInv, ClientsTyped
    <3>2. sent[p] + 1 \in 0 .. MaxStatements
      BY <3>1, BoundAssumption
    <3>3. sent' \in [Program -> 0 .. MaxStatements]
      BY <2>8, <3>2 DEF SendSql, TypeInv, ClientsTyped
    <3>4. UNCHANGED <<built, answer>> /\ Active(p)
      BY <2>8 DEF SendSql, Goes, Active
    <3> QED
      BY <2>5, <2>6, <3>3, <3>4 DEF TypeInv, ClientsTyped
  <2>9. CASE ReceiveAnswer(p)
    <3>1. PICK t, m : t = ReplyTo(QueueId(p)) /\ m = Head(worker_queue[t])
      OBVIOUS
    <3>2. Active(p) /\ QueueId(p) \in Id
      BY <2>6, <2>9, ClientProperties DEF ReceiveAnswer, Goes, Active
    <3>3. m \in Stmt(Answers)
      BY <2>9, <3>1, <3>2, ReceiveProperties, IdProperties, MsgProperties
         DEF ReceiveAnswer, TypeInv, QueuesTyped
    <3>4. answer' = [answer EXCEPT ![p] = m] /\ UNCHANGED <<built, sent>>
      BY <2>9, <3>1 DEF ReceiveAnswer
    <3>5. answer' \in [Program -> Stmt(Answers) \cup {NoAnswer}]
      BY <3>3, <3>4 DEF TypeInv, ClientsTyped
    <3> QED
      BY <2>5, <2>6, <3>2, <3>4, <3>5 DEF TypeInv, ClientsTyped
  <2> QED
    BY <1>2, <2>4, <2>7, <2>8, <2>9 DEF ProgramStep
<1>3. CASE Next
  BY <1>1, <1>2, <1>3, StepCases, StartFrame, ConnectorFrame, SessionFrame, BaseFrame, OtherFrame
<1> QED
  BY <1>1, <1>3 DEF vars
(* The server, its databases and the failures.                             *)
LEMMA StartTyped ==
  ASSUME TypeInv, StartStep
  PROVE  ServerTyped'
<1>1. PICK n : n = Append(names, BaseDb)
  OBVIOUS
<1>2. n \in Seq(Db \cup {BaseDb})
  BY <1>1, AppendProperties DEF TypeInv, ServerTyped
<1>3. UNCHANGED <<kills, restarts>>
  BY StartFrame
<1>4. CASE WriteInstallPath
  BY <1>3, <1>4 DEF WriteInstallPath, ServerGoes, ServerTyped, TypeInv
<1>5. CASE CreateBaseDB
  BY <1>3, <1>5 DEF CreateBaseDB, ServerGoes, databases, ServerTyped, TypeInv
<1>6. CASE CreateDefaultTableForBaseDb
  BY <1>3, <1>6 DEF CreateDefaultTableForBaseDb, ServerGoes, ServerTyped, TypeInv
<1>7. CASE NameBaseDB
  BY <1>1, <1>2, <1>3, <1>7 DEF NameBaseDB, ServerGoes, ServerTyped, TypeInv
<1>8. CASE OpenBaseDB
  BY <1>3, <1>8 DEF OpenBaseDB, Openable, ServerGoes, databases, ServerTyped, TypeInv
<1> QED
  BY <1>4, <1>5, <1>6, <1>7, <1>8 DEF StartStep

LEMMA BaseTypedNext ==
  ASSUME TypeInv, BaseStep
  PROVE  ServerTyped'
<1>1. PICK n, db : n = Append(names, db) /\ db = base.job.db
  OBVIOUS
<1>2. Creating => db \in Db
  BY <1>1 DEF TypeInv, BaseTyped, Request
<1>3. Creating => n \in Seq(Db \cup {BaseDb})
  BY <1>1, <1>2, AppendProperties DEF TypeInv, ServerTyped
<1>4. UNCHANGED <<server, installed, kills, restarts>>
  BY BaseFrame
<1>5. CASE StartBase \/ ReceiveCommand \/ ReceiveRequest
  BY <1>4, <1>5 DEF StartBase, ReceiveCommand, ReceiveRequest, databases, ServerTyped, TypeInv
<1>6. CASE DatabaseExists
  BY <1>4, <1>6 DEF DatabaseExists, Outcome, ServerTyped, TypeInv
<1>7. CASE InsertName
  BY <1>1, <1>3, <1>4, <1>7 DEF InsertName, Listens, Creating, ServerTyped, TypeInv
<1>8. CASE WriteDBFile
  BY <1>4, <1>8 DEF WriteDBFile, ServerTyped, TypeInv
<1>9. CASE CreateFiles
  <2>1. complete' = complete \cup {db} /\ Creating /\ UNCHANGED names
    BY <1>1, <1>9 DEF CreateFiles, CreateDefaultTable, Outcome, Listens, Creating
  <2> QED
    BY <1>2, <1>4, <2>1 DEF ServerTyped, TypeInv
<1> QED
  BY <1>5, <1>6, <1>7, <1>8, <1>9 DEF BaseStep

LEMMA ServerNext == TypeInv /\ [Next]_vars => ServerTyped'
<1> SUFFICES ASSUME TypeInv, [Next]_vars
             PROVE  ServerTyped'
  OBVIOUS
<1>1. CASE UNCHANGED <<server, databases, kills, restarts>>
  BY <1>1 DEF databases, ServerTyped, TypeInv
<1>2. ASSUME UNCHANGED databases,
             server' \in {"starting", "down", "broken", server},
             kills' \in {kills, kills + 1}, restarts' \in {restarts, restarts + 1}
      PROVE  ServerTyped'
  BY <1>2 DEF databases, ServerTyped, TypeInv
<1>3. ASSUME NEW p \in Program, ProgramStep(p)
      PROVE  ServerTyped'
  <2>1. UNCHANGED <<databases, restarts>>
    BY <1>3, ProgramFrame
  <2>2. server' \in {"broken", server} /\ kills' \in {kills, kills + 1}
    BY <1>3 DEF ProgramStep, BuildClient, SendLogin, ReceiveResult, SendSql, ReceiveAnswer,
                QuitClient, QuitProgram, Kill
  <2> QED
    BY <1>2, <2>1, <2>2
<1>4. CASE OpenIncomplete \/ Overlap \/ Restart
  <2>1. server' \in {"starting", "down", "broken"} /\ restarts' \in {restarts, restarts + 1}
    BY <1>4 DEF OpenIncomplete, Overlap, Restart
  <2> QED
    BY <1>2, <1>4, <2>1, OtherFrame
<1>5. CASE Next
  <2>1. ConnectorStep => UNCHANGED <<server, databases, kills, restarts>>
    BY ConnectorFrame DEF ConnectorStep
  <2>2. \A s : SessionStep(s) => UNCHANGED <<server, databases, kills, restarts>>
    BY SessionFrame
  <2> QED
    BY <1>1, <1>3, <1>4, <1>5, <2>1, <2>2, StepCases, StartTyped, BaseTypedNext DEF ConnectorStep
<1> QED
  BY <1>1, <1>5 DEF vars

LEMMA TypeInit == Init => TypeInv
<1> SUFFICES ASSUME Init
             PROVE  TypeInv
  OBVIOUS
<1>1. \A X : <<>> \in Seq(X) /\ Len(<<>>) = 0
  BY EmptySeq
<1>2. QueuesTyped
  BY <1>1 DEF Init, QueuesTyped, Carries
<1>3. ConnectorTyped
  BY DEF Init, ConnectorTyped, NewConnector
<1>4. BaseTyped
  BY DEF Init, BaseTyped, NewBase, Creating
<1>5. SessionsTyped
  BY <1>1 DEF Init, SessionsTyped
<1>6. ClientsTyped
  <2>1. \A p \in Program : Client(p) = 0 /\ MaxClients[p] >= 0
    BY <1>1, ClientAssumption, QueueAssumption, LenProperties DEF Init, Client
  <2> QED
    BY <1>1, <2>1, BoundAssumption DEF Init, ClientsTyped, Active
<1>7. ServerTyped
  BY <1>1 DEF Init, ServerTyped
<1> QED
  BY <1>2, <1>3, <1>4, <1>5, <1>6, <1>7 DEF TypeInv

LEMMA TypeNext == TypeInv /\ [Next]_vars => TypeInv'
BY QueuesNext, ConnectorNext, BaseNext, SessionsNext, ClientsNext, ServerNext DEF TypeInv

LEMMA TypeInvImpliesTypeOK == TypeInv => TypeOK
<1> SUFFICES ASSUME TypeInv
             PROVE  TypeOK
  OBVIOUS
<1>1. \A S, T : S \subseteq T => Seq(S) \subseteq Seq(T)
  BY SeqMonotonic
<1>2. Ask \subseteq Stmt(Asks) /\ Request \subseteq Stmt({"create"})
  BY DEF Ask, Request
<1>3. ASSUME NEW id \in Id
      PROVE  /\ connector_queue[id] \in Seq(Call({"login"}))
             /\ connector_queue[ReplyTo(id)] \in Seq(Call({"connected", "refused"}))
             /\ worker_queue[id] \in Seq(Stmt(Asks))
             /\ worker_queue[ReplyTo(id)] \in Seq(Stmt(Answers))
             /\ base_queue[id] \in Seq(Stmt({"create"}))
             /\ base_queue[ReplyTo(id)] \in Seq(Stmt({"success", "failure"}))
  <2>1. /\ connector_queue[id] \in Seq(Call({"login"}))
        /\ connector_queue[id + 1] \in Seq(Call({"connected", "refused"}))
        /\ worker_queue[id] \in Seq(Ask)
        /\ worker_queue[id + 1] \in Seq(Stmt(Answers))
        /\ base_queue[id] \in Seq(Request)
        /\ base_queue[id + 1] \in Seq(Stmt({"success", "failure"}))
    BY MsgProperties, IdProperties DEF TypeInv, QueuesTyped, Carries
  <2> QED
    BY <1>1, <1>2, <2>1, IdProperties
<1>4. connector_queue[PublicType] \in Seq(Id) /\ base_queue[BaseType] \in Seq(Id)
  BY MsgProperties DEF TypeInv, QueuesTyped, Carries
<1>5. \A s \in DOMAIN sessions :
        /\ sessions[s].queue \in Id
        /\ sessions[s].pc \in {"starting", "listen", "work", "forward", "await"}
        /\ sessions[s].job \in Stmt(Asks) \cup {NoAnswer}
  BY <1>2, JobTyped DEF Session
<1>6. /\ connector.pc \in {"public", "special", "connect"}
      /\ connector.queue \in Id \cup {0}
      /\ base.pc \in {"starting", "command", "request", "create", "files", "tables"}
      /\ base.queue \in Id \cup {0}
  BY DEF TypeInv, ConnectorTyped, BaseTyped
<1> QED
  BY <1>3, <1>4, <1>5, <1>6 DEF TypeOK, TypeInv, ServerTyped, ClientsTyped

LEMMA TypeInvHolds == Spec => []TypeInv
<1>1. Init => TypeInv
  BY TypeInit
<1>2. TypeInv /\ [Next]_vars => TypeInv'
  BY TypeNext
<1> QED
  BY <1>1, <1>2, PTL DEF Spec

(* Threads, programs and queues keep their types, whoever shares a queue   *)
(* id, dies or starts again: what waits under a type is what whoever       *)
(* receives that type expects.                                             *)
THEOREM SessionsTypeCorrect == Spec => []TypeOK
<1>1. Spec => []TypeInv
  BY TypeInvHolds
<1>2. TypeInv => TypeOK
  BY TypeInvImpliesTypeOK
<1> QED
  BY <1>1, <1>2, PTL
-----------------------------------------------------------------------------
(* What is under way for a queue id, either way.                           *)
Of(q, id) == Messages(q[id]) \cup Messages(q[id + 1])

LEMMA OtherIds ==
  ASSUME NEW id \in Id, NEW u \in Id, u # id
  PROVE  {u, u + 1} \cap {id, id + 1} = {}
BY IdProperties

LEMMA SendOf ==
  ASSUME NEW q, NEW Msg, Carries(q, Msg), NEW id \in Id, NEW t \in {id, id + 1},
         NEW m \in Msg[t]
  PROVE  \A u \in Id : Of(Send(q, t, m), u) \subseteq Of(q, u) \cup (IF u = id THEN {m} ELSE {})
<1>1. PICK s : s = Send(q, t, m)
  OBVIOUS
<1>2. id \in Type /\ id + 1 \in Type /\ t \in Type
  BY IdProperties
<1>3. /\ \A u \in Type : u # t => s[u] = q[u]
      /\ Messages(s[t]) = Messages(q[t]) \cup {m}
  <2>1. /\ \A u \in Type : u # t => Send(q, t, m)[u] = q[u]
        /\ Messages(Send(q, t, m)[t]) = Messages(q[t]) \cup {m}
    <3>1. t \in Type /\ m \in Msg[t] /\ Carries(q, Msg)
      BY <1>2
    <3>2. Send(q, t, m)[t] = Append(q[t], m)
      BY <3>1, SendProperties
    <3>3. q[t] \in Seq(Msg[t])
      BY <3>1 DEF Carries
    <3>4. Messages(Append(q[t], m)) = Messages(q[t]) \cup {m}
      BY <3>1, <3>3, MessagesProperties
    <3>5. ASSUME NEW u \in Type, u # t
          PROVE  Send(q, t, m)[u] = q[u]
      BY <3>1, <3>5 DEF Send, Carries
    <3> QED
      BY <3>2, <3>4, <3>5
  <2> QED
    BY <1>1, <2>1
<1>4. ASSUME NEW u \in Id
      PROVE  Of(s, u) \subseteq Of(q, u) \cup (IF u = id THEN {m} ELSE {})
  <2>1. u \in Type /\ u + 1 \in Type
    BY IdProperties
  <2>2. CASE u = id
    BY <1>2, <1>3, <2>2 DEF Of
  <2>3. CASE u # id
    BY <1>3, <2>1, <2>3, OtherIds DEF Of
  <2> QED
    BY <2>2, <2>3
<1> QED
  BY <1>1, <1>4

LEMMA ReceiveOf ==
  ASSUME NEW q, NEW Msg, Carries(q, Msg), NEW t \in Type, Arrived(q, t)
  PROVE  /\ \A u \in Id : Of(Receive(q, t), u) \subseteq Of(q, u)
         /\ \A u \in Id : t \in {u, u + 1} => Head(q[t]) \in Of(q, u)
<1>1. PICK s : s = Receive(q, t)
  OBVIOUS
<1>2. /\ \A u \in Type : u # t => s[u] = q[u]
      /\ Messages(s[t]) \subseteq Messages(q[t])
      /\ Head(q[t]) \in Messages(q[t])
  BY <1>1, ReceiveProperties
<1>3. \A u \in Type : Messages(s[u]) \subseteq Messages(q[u])
  BY <1>2
<1>4. \A u \in Id : Of(s, u) \subseteq Of(q, u)
  BY <1>3, IdProperties DEF Of
<1> QED
  BY <1>1, <1>2, <1>4 DEF Of

LEMMA AnnounceOf ==
  ASSUME NEW q, NEW Msg, Carries(q, Msg), NEW t \in {PublicType, BaseType}, NEW m \in Msg[t]
  PROVE  \A u \in Id : Of(Send(q, t, m), u) = Of(q, u)
<1>1. t \in Type
  BY MsgProperties
<1>2. \A u \in Type : u # t => Send(q, t, m)[u] = q[u]
  BY <1>1, SendProperties
<1>3. \A u \in Id : u \in Type /\ u + 1 \in Type /\ u # t /\ u + 1 # t
  BY IdProperties
<1> QED
  BY <1>2, <1>3 DEF Of

LEMMA OfTyped ==
  ASSUME TypeInv, NEW id \in Id
  PROVE  /\ Of(connector_queue, id) \subseteq Call({"login", "connected", "refused"})
         /\ Of(worker_queue, id) \subseteq Stmt(Asks \cup Answers)
         /\ Of(base_queue, id) \subseteq Stmt({"create", "success", "failure"})
<1>1. /\ connector_queue[id] \in Seq(Call({"login"}))
      /\ connector_queue[id + 1] \in Seq(Call({"connected", "refused"}))
      /\ worker_queue[id] \in Seq(Ask)
      /\ worker_queue[id + 1] \in Seq(Stmt(Answers))
      /\ base_queue[id] \in Seq(Request)
      /\ base_queue[id + 1] \in Seq(Stmt({"success", "failure"}))
  BY MsgProperties, IdProperties DEF TypeInv, QueuesTyped, Carries
<1>2. /\ Messages(connector_queue[id]) \subseteq Call({"login"})
      /\ Messages(connector_queue[id + 1]) \subseteq Call({"connected", "refused"})
      /\ Messages(worker_queue[id]) \subseteq Ask
      /\ Messages(worker_queue[id + 1]) \subseteq Stmt(Answers)
      /\ Messages(base_queue[id]) \subseteq Request
      /\ Messages(base_queue[id + 1]) \subseteq Stmt({"success", "failure"})
  BY <1>1, MessagesProperties
<1>3. /\ Call({"login"}) \cup Call({"connected", "refused"})
           \subseteq Call({"login", "connected", "refused"})
      /\ Ask \cup Stmt(Answers) \subseteq Stmt(Asks \cup Answers)
      /\ Request \cup Stmt({"success", "failure"}) \subseteq Stmt({"create", "success", "failure"})
  BY DEF Call, Stmt, Ask, Request
<1> QED
  BY <1>2, <1>3 DEF Of

(* Where a message comes from that a step puts on its way.                 *)
LEMMA NewLogins ==
  ASSUME TypeInv, [Next]_vars, NEW id \in Id, NEW m \in Of(connector_queue', id)
  PROVE  \/ m \in Of(connector_queue, id)
         \/ \E p \in Program :
              /\ SendLogin(p) /\ id = QueueId(p)
              /\ m = [by |-> p, client |-> Client(p), login |-> LoginOf(p), kind |-> "login"]
         \/ /\ Connect /\ id = connector.queue
            /\ \E kind \in {"connected", "refused"} :
                 Reply(kind) /\ m = [connector.msg EXCEPT !.kind = kind]
<1>1. Carries(connector_queue, ConnectorMsg)
  BY DEF TypeInv, QueuesTyped
<1>2. CASE UNCHANGED connector_queue
  BY <1>2
<1>3. ASSUME NEW t \in Type, Arrived(connector_queue, t), connector_queue' = Receive(connector_queue, t)
      PROVE  m \in Of(connector_queue, id)
  BY <1>1, <1>3, ReceiveOf
<1>4. ASSUME NEW p \in Program, ProgramStep(p)
      PROVE  \/ m \in Of(connector_queue, id)
             \/ /\ SendLogin(p) /\ id = QueueId(p)
                /\ m = [by |-> p, client |-> Client(p), login |-> LoginOf(p), kind |-> "login"]
  <2>1. Active(p) => QueueId(p) \in Id /\ LoginOf(p) \in Login /\ Client(p) \in ClientNumber
    BY ClientProperties DEF TypeInv, ClientsTyped
  <2>2. ASSUME NEW login \in Login, BuildClient(p, login)
        PROVE  m \in Of(connector_queue, id)
    <3>1. QueueIds[Client(p) + 1] \in ConnectorMsg[PublicType]
      BY <2>2, ClientProperties, MsgProperties DEF BuildClient
    <3>2. Of(connector_queue', id) = Of(connector_queue, id)
      BY <1>1, <2>2, <3>1, AnnounceOf DEF BuildClient
    <3> QED
      BY <3>2
  <2>3. CASE SendLogin(p)
    <3>1. PICK l : l = [by |-> p, client |-> Client(p), login |-> LoginOf(p), kind |-> "login"]
      OBVIOUS
    <3>2. QueueId(p) \in Id /\ LoginOf(p) \in Login /\ Client(p) \in ClientNumber
      BY <2>1, <2>3 DEF SendLogin, Goes, Active
    <3>3. l \in ConnectorMsg[QueueId(p)]
      BY <3>1, <3>2, MsgProperties DEF Call
    <3>4. connector_queue' = Send(connector_queue, QueueId(p), l)
      BY <2>3, <3>1 DEF SendLogin
    <3>5. Of(connector_queue', id)
            \subseteq Of(connector_queue, id) \cup (IF id = QueueId(p) THEN {l} ELSE {})
      BY <1>1, <3>2, <3>3, <3>4, SendOf
    <3> QED
      BY <2>3, <3>1, <3>5
  <2>4. CASE ReceiveResult(p)
    <3>1. QueueId(p) \in Id
      BY <2>1, <2>4 DEF ReceiveResult, Active
    <3> QED
      BY <1>3, <2>4, <3>1, IdProperties DEF ReceiveResult
  <2>5. CASE SendSql(p) \/ ReceiveAnswer(p) \/ QuitClient(p) \/ QuitProgram(p) \/ Kill(p)
    BY <1>2, <2>5 DEF SendSql, ReceiveAnswer, QuitClient, QuitProgram, Kill, queues
  <2> QED
    BY <1>4, <2>2, <2>3, <2>4, <2>5 DEF ProgramStep
<1>5. CASE ReceiveCall
  BY <1>3, <1>5, MsgProperties DEF ReceiveCall
<1>6. CASE ReceiveLogin
  <2>1. connector.queue \in Id
    BY <1>6 DEF ReceiveLogin, Listens, TypeInv, ConnectorTyped
  <2> QED
    BY <1>3, <1>6, <2>1, IdProperties DEF ReceiveLogin
<1>7. CASE Connect
  <2>1. connector.queue \in Id /\ connector.msg \in Call({"login"})
    BY <1>7 DEF Connect, Listens, TypeInv, ConnectorTyped
  <2>2. PICK kind \in {"connected", "refused"} : Reply(kind)
    BY <1>7 DEF Connect
  <2>3. PICK r : r = [connector.msg EXCEPT !.kind = kind]
    OBVIOUS
  <2>4. r \in ConnectorMsg[connector.queue + 1]
    BY <2>1, <2>3, NewCall, MsgProperties
  <2>5. connector_queue' = Send(connector_queue, connector.queue + 1, r)
    BY <2>2, <2>3 DEF Reply, ReplyTo
  <2>6. Of(connector_queue', id)
          \subseteq Of(connector_queue, id) \cup (IF id = connector.queue THEN {r} ELSE {})
    BY <1>1, <2>1, <2>4, <2>5, SendOf
  <2> QED
    BY <1>7, <2>2, <2>3, <2>6
<1>8. CASE Next
  BY <1>2, <1>4, <1>5, <1>6, <1>7, <1>8, StepCases, StartFrame, SessionFrame, BaseFrame,
     OtherFrame DEF queues
<1> QED
  BY <1>2, <1>8 DEF vars, queues
LEMMA NewWork ==
  ASSUME TypeInv, [Next]_vars, NEW id \in Id, NEW m \in Of(worker_queue', id)
  PROVE  \/ m \in Of(worker_queue, id)
         \/ \E p \in Program :
              /\ SendSql(p) /\ id = QueueId(p)
              /\ m.by = p /\ m.client = Client(p) /\ m.n = sent[p] + 1 /\ m.kind \in Asks
         \/ \E s \in DOMAIN sessions :
              /\ id = sessions[s].queue
              /\ \/ /\ sessions[s].pc = "work" /\ (UserWork(s) \/ RefuseWork(s))
                    /\ \E kind \in {"result", "failure"} :
                         m = [sessions[s].job EXCEPT !.kind = kind]
                 \/ ReturnOutcome(s) /\ m \in Of(base_queue, id)
<1>1. Carries(worker_queue, WorkerMsg) /\ Carries(base_queue, BaseMsg)
  BY DEF TypeInv, QueuesTyped
<1>2. CASE UNCHANGED worker_queue
  BY <1>2
<1>3. ASSUME NEW t \in Type, Arrived(worker_queue, t), worker_queue' = Receive(worker_queue, t)
      PROVE  m \in Of(worker_queue, id)
  BY <1>1, <1>3, ReceiveOf
<1>4. ASSUME NEW p \in Program, ProgramStep(p)
      PROVE  \/ m \in Of(worker_queue, id)
             \/ /\ SendSql(p) /\ id = QueueId(p)
                /\ m.by = p /\ m.client = Client(p) /\ m.n = sent[p] + 1 /\ m.kind \in Asks
  <2>1. Active(p) => QueueId(p) \in Id /\ LoginOf(p) \in Login /\ Client(p) \in ClientNumber
    BY ClientProperties DEF TypeInv, ClientsTyped
  <2>2. ASSUME NEW login \in Login, BuildClient(p, login)
        PROVE  UNCHANGED worker_queue
    BY <2>2 DEF BuildClient
  <2>3. CASE SendLogin(p) \/ ReceiveResult(p) \/ QuitClient(p) \/ QuitProgram(p) \/ Kill(p)
    BY <1>2, <2>3 DEF SendLogin, ReceiveResult, QuitClient, QuitProgram, Kill, queues
  <2>4. CASE ReceiveAnswer(p)
    <3>1. QueueId(p) \in Id
      BY <2>1, <2>4 DEF ReceiveAnswer, Goes, Active
    <3> QED
      BY <1>3, <2>4, <3>1, IdProperties DEF ReceiveAnswer
  <2>5. CASE SendSql(p)
    <3>1. QueueId(p) \in Id /\ LoginOf(p) \in Login /\ Client(p) \in ClientNumber
      BY <2>1, <2>5 DEF SendSql, Goes, Active
    <3>2. sent[p] + 1 \in 1 .. MaxStatements
      BY <2>5, BoundAssumption DEF SendSql, TypeInv, ClientsTyped
    <3>3. PICK sql \in Sql(p) :
            worker_queue' =
              Send(worker_queue, QueueId(p),
                   [by |-> p, client |-> Client(p), n |-> sent[p] + 1,
                    kind |-> sql.kind, db |-> sql.db])
      BY <2>5 DEF SendSql
    <3>4. /\ sql.kind \in Asks /\ sql.db \in Db \cup {BaseDb}
          /\ sql.kind = "create" => sql.db \in Db
      BY <3>1, LoginAssumption DEF Sql, Asks
    <3>5. PICK r : r = [by |-> p, client |-> Client(p), n |-> sent[p] + 1,
                        kind |-> sql.kind, db |-> sql.db]
      OBVIOUS
    <3>6. r \in Ask /\ r.by = p /\ r.client = Client(p) /\ r.n = sent[p] + 1 /\ r.kind \in Asks
      BY <3>1, <3>2, <3>4, <3>5 DEF Ask, Stmt
    <3>7. Of(worker_queue', id)
            \subseteq Of(worker_queue, id) \cup (IF id = QueueId(p) THEN {r} ELSE {})
      BY <1>1, <3>1, <3>3, <3>5, <3>6, SendOf, MsgProperties
    <3> QED
      BY <2>5, <3>6, <3>7
  <2> QED
    BY <1>2, <1>4, <2>2, <2>3, <2>4, <2>5 DEF ProgramStep
<1>5. ASSUME NEW s \in DOMAIN sessions, SessionStep(s)
      PROVE  \/ m \in Of(worker_queue, id)
             \/ /\ id = sessions[s].queue
                /\ \/ /\ sessions[s].pc = "work" /\ (UserWork(s) \/ RefuseWork(s))
                      /\ \E kind \in {"result", "failure"} :
                           m = [sessions[s].job EXCEPT !.kind = kind]
                   \/ ReturnOutcome(s) /\ m \in Of(base_queue, id)
  <2>1. sessions[s].queue \in Id /\ (Busy(s) => sessions[s].job \in Ask)
    BY JobTyped
  <2>2. CASE StartWorker(s) \/ ForwardQueueId(s) \/ ForwardName(s)
    BY <1>2, <2>2 DEF StartWorker, ForwardQueueId, ForwardName, queues
  <2>3. CASE ReceiveSql(s)
    BY <1>3, <2>1, <2>3, IdProperties DEF ReceiveSql
  <2>4. ASSUME UserWork(s) \/ RefuseWork(s)
        PROVE  \/ m \in Of(worker_queue, id)
               \/ /\ id = sessions[s].queue
                  /\ sessions[s].pc = "work" /\ (UserWork(s) \/ RefuseWork(s))
                  /\ \E kind \in {"result", "failure"} :
                       m = [sessions[s].job EXCEPT !.kind = kind]
    <3>1. sessions[s].pc = "work" /\ sessions[s].job \in Stmt(Asks)
      BY <2>1, <2>4 DEF UserWork, RefuseWork, Listens, Busy, Ask
    <3>2. PICK kind \in {"result", "failure"} : SendBack(s, sessions[s].job, kind)
      BY <2>4 DEF UserWork, RefuseWork
    <3>3. PICK r : r = [sessions[s].job EXCEPT !.kind = kind]
      OBVIOUS
    <3>4. r \in WorkerMsg[sessions[s].queue + 1]
      BY <2>1, <3>1, <3>3, NewStmt, MsgProperties DEF Answers
    <3>5. worker_queue' = Send(worker_queue, sessions[s].queue + 1, r)
      BY <3>2, <3>3 DEF SendBack, ReplyTo
    <3>6. Of(worker_queue', id)
            \subseteq Of(worker_queue, id) \cup (IF id = sessions[s].queue THEN {r} ELSE {})
      BY <1>1, <2>1, <3>4, <3>5, SendOf
    <3> QED
      BY <2>4, <3>1, <3>3, <3>6
  <2>5. CASE ReturnOutcome(s)
    <3>1. PICK t, r : t = sessions[s].queue + 1 /\ r = Head(base_queue[t])
      OBVIOUS
    <3>2. /\ Arrived(base_queue, t) /\ SendBack(s, r, r.kind)
      BY <2>5, <3>1 DEF ReturnOutcome, ReplyTo
    <3>3. t \in Type
      BY <2>1, <3>1, IdProperties
    <3>4. r \in BaseMsg[t] /\ r \in Of(base_queue, sessions[s].queue)
      BY <1>1, <2>1, <3>1, <3>2, <3>3, ReceiveProperties, ReceiveOf
    <3>5. r \in Stmt({"success", "failure"})
      BY <2>1, <3>1, <3>4, MsgProperties
    <3>6. [r EXCEPT !.kind = r.kind] = r /\ r \in Stmt(Answers)
      BY <3>5 DEF Stmt, Answers
    <3>7. worker_queue' = Send(worker_queue, sessions[s].queue + 1, r)
      BY <3>2, <3>6 DEF SendBack, ReplyTo
    <3>8. Of(worker_queue', id)
            \subseteq Of(worker_queue, id) \cup (IF id = sessions[s].queue THEN {r} ELSE {})
      BY <1>1, <2>1, <3>6, <3>7, SendOf, MsgProperties
    <3> QED
      BY <2>5, <3>4, <3>8
  <2> QED
    BY <1>5, <2>2, <2>3, <2>4, <2>5 DEF SessionStep
<1>6. CASE Next
  BY <1>2, <1>4, <1>5, <1>6, StepCases, StartFrame, ConnectorFrame, BaseFrame, OtherFrame
     DEF queues
<1> QED
  BY <1>2, <1>6 DEF vars, queues

LEMMA NewRequests ==
  ASSUME TypeInv, [Next]_vars, NEW id \in Id, NEW m \in Of(base_queue', id)
  PROVE  \/ m \in Of(base_queue, id)
         \/ \E s \in DOMAIN sessions :
              ForwardName(s) /\ id = sessions[s].queue /\ m = sessions[s].job
         \/ /\ id = base.queue
            /\ \/ CreateFiles /\ m = [base.job EXCEPT !.kind = "success"]
               \/ DatabaseExists /\ m = [base.job EXCEPT !.kind = "failure"]
<1>1. Carries(base_queue, BaseMsg)
  BY DEF TypeInv, QueuesTyped
<1>2. CASE UNCHANGED base_queue
  BY <1>2
<1>3. ASSUME NEW t \in Type, Arrived(base_queue, t), base_queue' = Receive(base_queue, t)
      PROVE  m \in Of(base_queue, id)
  BY <1>1, <1>3, ReceiveOf
<1>4. ASSUME NEW s \in DOMAIN sessions, SessionStep(s)
      PROVE  \/ m \in Of(base_queue, id)
             \/ ForwardName(s) /\ id = sessions[s].queue /\ m = sessions[s].job
  <2>1. sessions[s].queue \in Id
    BY JobTyped
  <2>2. CASE StartWorker(s) \/ ReceiveSql(s) \/ UserWork(s) \/ RefuseWork(s)
    BY <1>2, <2>2 DEF StartWorker, ReceiveSql, UserWork, RefuseWork, queues
  <2>3. CASE ForwardQueueId(s)
    <3>1. Of(base_queue', id) = Of(base_queue, id)
      BY <1>1, <2>1, <2>3, AnnounceOf, MsgProperties DEF ForwardQueueId, ForwardedId
    <3> QED
      BY <3>1
  <2>4. CASE ForwardName(s)
    <3>1. PICK r : r = sessions[s].job
      OBVIOUS
    <3>2. r \in Ask /\ r.kind = "create"
      BY <2>4, <3>1, JobTyped DEF ForwardName, Listens, Busy
    <3>3. r \in Request
      BY <3>2 DEF Ask, Request, Stmt
    <3>4. base_queue' = Send(base_queue, sessions[s].queue, r)
      BY <2>4, <3>1 DEF ForwardName
    <3>5. Of(base_queue', id)
            \subseteq Of(base_queue, id) \cup (IF id = sessions[s].queue THEN {r} ELSE {})
      BY <1>1, <2>1, <3>3, <3>4, SendOf, MsgProperties
    <3> QED
      BY <2>4, <3>1, <3>5
  <2>5. CASE ReturnOutcome(s)
    BY <1>3, <2>1, <2>5, IdProperties DEF ReturnOutcome
  <2> QED
    BY <1>4, <2>2, <2>3, <2>4, <2>5 DEF SessionStep
<1>5. CASE BaseStep
  <2>1. CASE StartBase \/ InsertName \/ WriteDBFile
    BY <1>2, <2>1 DEF StartBase, InsertName, WriteDBFile, queues
  <2>2. CASE ReceiveCommand
    BY <1>3, <2>2, MsgProperties DEF ReceiveCommand
  <2>3. CASE ReceiveRequest
    <3>1. base.queue \in Id
      BY <2>3 DEF ReceiveRequest, Listens, TypeInv, BaseTyped
    <3> QED
      BY <1>3, <2>3, <3>1, IdProperties DEF ReceiveRequest, RequestFrom
  <2>4. ASSUME NEW kind \in {"success", "failure"}, Outcome(kind), Creating
        PROVE  \/ m \in Of(base_queue, id)
               \/ id = base.queue /\ m = [base.job EXCEPT !.kind = kind]
    <3>1. base.queue \in Id /\ base.job \in Request
      BY <2>4 DEF TypeInv, BaseTyped, Creating
    <3>2. PICK r : r = [base.job EXCEPT !.kind = kind]
      OBVIOUS
    <3>3. r \in BaseMsg[base.queue + 1]
      BY <3>1, <3>2, NewStmt, MsgProperties DEF Request
    <3>4. base_queue' = Send(base_queue, base.queue + 1, r)
      BY <2>4, <3>2 DEF Outcome, ReplyTo
    <3>5. Of(base_queue', id)
            \subseteq Of(base_queue, id) \cup (IF id = base.queue THEN {r} ELSE {})
      BY <1>1, <3>1, <3>3, <3>4, SendOf
    <3> QED
      BY <3>2, <3>5
  <2>5. CASE DatabaseExists
    BY <2>4, <2>5 DEF DatabaseExists, Listens, Creating
  <2>6. CASE CreateFiles
    BY <2>4, <2>6 DEF CreateFiles, Listens, Creating
  <2> QED
    BY <1>5, <2>1, <2>2, <2>3, <2>5, <2>6 DEF BaseStep
<1>6. CASE Next
  BY <1>2, <1>4, <1>5, <1>6, StepCases, ProgramFrame, StartFrame, ConnectorFrame, OtherFrame
     DEF queues
<1> QED
  BY <1>2, <1>6 DEF vars, queues
-----------------------------------------------------------------------------
(* From whom things come. A message, and what a thread took from one, is a *)
(* client's that was built and has the queue id; a login is that client's; *)
(* a session is for somebody with its queue id, place and database.        *)
FromClient(m, id) ==
  /\ m.client \in 1 .. Client(m.by)
  /\ QueueIds[m.client] = id

LoginFrom(m, id) == FromClient(m, id) /\ m.login = built[m.by][m.client]

SessionFrom(x) ==
  \E q \in Program : \E i \in 1 .. Client(q) :
    /\ QueueIds[i] = x.queue
    /\ built[q][i].place = x.login.place
    /\ built[q][i].db = x.login.db

JobFrom(x) == x.pc \in {"work", "forward", "await"} => FromClient(x.job, x.queue)

MessagesFrom ==
  \A id \in Id :
    /\ \A m \in Of(connector_queue, id) : LoginFrom(m, id)
    /\ \A m \in Of(worker_queue, id) : FromClient(m, id)
    /\ \A m \in Of(base_queue, id) : FromClient(m, id)

ThreadsFrom ==
  /\ connector.pc = "connect" => LoginFrom(connector.msg, connector.queue)
  /\ Creating => FromClient(base.job, base.queue)
  /\ \A s \in 1 .. Len(sessions) : SessionFrom(sessions[s]) /\ JobFrom(sessions[s])

OriginInv == TypeInv /\ MessagesFrom /\ ThreadsFrom

(* What a program has built, stays.                                        *)
LEMMA BuiltGrows ==
  ASSUME TypeInv, [Next]_vars, NEW q \in Program
  PROVE  /\ Client(q) \in Nat /\ Client(q)' \in Nat /\ Client(q) <= Client(q)'
         /\ \A i \in 1 .. Client(q) : built'[q][i] = built[q][i]
<1>1. Client(q) \in Nat
  BY ClientProperties
<1>2. CASE UNCHANGED built
  BY <1>1, <1>2 DEF Client
<1>3. ASSUME NEW p \in Program, NEW login \in Login, BuildClient(p, login)
      PROVE  /\ Client(q)' \in Nat /\ Client(q) <= Client(q)'
             /\ \A i \in 1 .. Client(q) : built'[q][i] = built[q][i]
  <2>1. CASE q = p
    BY <1>1, <1>3, <2>1, BuildKeeps
  <2>2. CASE q # p
    BY <1>1, <1>3, <2>2, BuildKeeps DEF Client
  <2> QED
    BY <2>1, <2>2
<1>4. ASSUME NEW p \in Program, ProgramStep(p),
             \A login \in Login : ~BuildClient(p, login)
      PROVE  UNCHANGED built
  BY <1>4 DEF ProgramStep, SendLogin, ReceiveResult, SendSql, ReceiveAnswer,
              QuitClient, QuitProgram, Kill
<1>5. CASE Next
  BY <1>1, <1>2, <1>3, <1>4, <1>5, StepCases, StartFrame, ConnectorFrame, SessionFrame, BaseFrame,
     OtherFrame DEF clients
<1> QED
  BY <1>1, <1>2, <1>5 DEF vars, clients

LEMMA OriginsStay ==
  ASSUME TypeInv, [Next]_vars
  PROVE  /\ \A m, id : m.by \in Program /\ FromClient(m, id) => FromClient(m, id)'
         /\ \A m, id : m.by \in Program /\ LoginFrom(m, id) => LoginFrom(m, id)'
         /\ \A x : SessionFrom(x) => SessionFrom(x)'
<1>1. ASSUME NEW m, NEW id, m.by \in Program, FromClient(m, id)
      PROVE  FromClient(m, id)'
  <2>1. Client(m.by) \in Nat /\ Client(m.by)' \in Nat /\ Client(m.by) <= Client(m.by)'
    BY <1>1, BuiltGrows
  <2> QED
    BY <1>1, <2>1 DEF FromClient
<1>2. ASSUME NEW m, NEW id, m.by \in Program, LoginFrom(m, id)
      PROVE  LoginFrom(m, id)'
  <2>1. built'[m.by][m.client] = built[m.by][m.client]
    BY <1>2, BuiltGrows DEF LoginFrom, FromClient
  <2> QED
    BY <1>1, <1>2, <2>1 DEF LoginFrom
<1>3. ASSUME NEW x, SessionFrom(x)
      PROVE  SessionFrom(x)'
  <2>1. PICK q \in Program : \E i \in 1 .. Client(q) :
          /\ QueueIds[i] = x.queue
          /\ built[q][i].place = x.login.place
          /\ built[q][i].db = x.login.db
    BY <1>3 DEF SessionFrom
  <2>2. PICK i \in 1 .. Client(q) :
          /\ QueueIds[i] = x.queue
          /\ built[q][i].place = x.login.place
          /\ built[q][i].db = x.login.db
    BY <2>1
  <2>3. i \in 1 .. Client(q)' /\ built'[q][i] = built[q][i]
    BY <2>2, BuiltGrows
  <2> QED
    BY <2>2, <2>3 DEF SessionFrom
<1> QED
  BY <1>1, <1>2, <1>3

LEMMA OfBy ==
  ASSUME TypeInv, NEW id \in Id
  PROVE  \A m \in Of(connector_queue, id) \cup Of(worker_queue, id) \cup Of(base_queue, id) :
           m.by \in Program
BY OfTyped DEF Call, Stmt

LEMMA MessagesFromNext == OriginInv /\ [Next]_vars => MessagesFrom'
<1> SUFFICES ASSUME OriginInv, [Next]_vars, NEW id \in Id
             PROVE  /\ \A m \in Of(connector_queue', id) : LoginFrom(m, id)'
                    /\ \A m \in Of(worker_queue', id) : FromClient(m, id)'
                    /\ \A m \in Of(base_queue', id) : FromClient(m, id)'
  BY DEF MessagesFrom, Of, Messages
<1>1. TypeInv
  BY DEF OriginInv
<1>2. /\ \A m \in Of(connector_queue, id) : LoginFrom(m, id) /\ m.by \in Program
      /\ \A m \in Of(worker_queue, id) : FromClient(m, id) /\ m.by \in Program
      /\ \A m \in Of(base_queue, id) : FromClient(m, id) /\ m.by \in Program
  BY <1>1, OfBy DEF OriginInv, MessagesFrom
<1>3. ASSUME NEW s \in DOMAIN sessions, sessions[s].pc \in {"work", "forward", "await"}
      PROVE  /\ sessions[s].job \in Ask /\ sessions[s].job.by \in Program
             /\ FromClient(sessions[s].job, sessions[s].queue)
  BY <1>1, <1>3, JobTyped DEF OriginInv, ThreadsFrom, JobFrom, Busy, Ask, Stmt
<1>4. ASSUME NEW m \in Of(connector_queue', id)
      PROVE  LoginFrom(m, id) /\ m.by \in Program
  <2>1. CASE m \in Of(connector_queue, id)
    BY <1>2, <2>1
  <2>2. ASSUME NEW p \in Program, SendLogin(p), id = QueueId(p),
               m = [by |-> p, client |-> Client(p), login |-> LoginOf(p), kind |-> "login"]
        PROVE  LoginFrom(m, id) /\ m.by \in Program
    <3>1. Client(p) \in 1 .. Client(p)
      BY <1>1, <2>2, ClientProperties DEF SendLogin, Goes, TypeInv, ClientsTyped, Active
    <3> QED
      BY <2>2, <3>1 DEF LoginFrom, FromClient, LoginOf, QueueId
  <2>3. ASSUME Connect, id = connector.queue, NEW kind,
               m = [connector.msg EXCEPT !.kind = kind]
        PROVE  LoginFrom(m, id) /\ m.by \in Program
    <3>1. connector.pc = "connect"
      BY <2>3 DEF Connect, Listens
    <3>2. LoginFrom(connector.msg, id) /\ connector.msg \in Call({"login"})
      BY <1>1, <2>3, <3>1 DEF OriginInv, ThreadsFrom, TypeInv, ConnectorTyped
    <3>3. m.by = connector.msg.by /\ m.client = connector.msg.client
          /\ m.login = connector.msg.login /\ m.by \in Program
      BY <2>3, <3>2 DEF Call
    <3> QED
      BY <3>2, <3>3 DEF LoginFrom, FromClient
  <2> QED
    BY <1>1, <2>1, <2>2, <2>3, NewLogins
<1>5. ASSUME NEW m \in Of(worker_queue', id)
      PROVE  FromClient(m, id) /\ m.by \in Program
  <2>1. CASE m \in Of(worker_queue, id) \cup Of(base_queue, id)
    BY <1>2, <2>1
  <2>2. ASSUME NEW p \in Program, SendSql(p), id = QueueId(p), m.by = p, m.client = Client(p)
        PROVE  FromClient(m, id) /\ m.by \in Program
    <3>1. Client(p) \in 1 .. Client(p)
      BY <1>1, <2>2, ClientProperties DEF SendSql, Goes, TypeInv, ClientsTyped, Active
    <3> QED
      BY <2>2, <3>1 DEF FromClient, QueueId
  <2>3. ASSUME NEW s \in DOMAIN sessions, id = sessions[s].queue, sessions[s].pc = "work",
               NEW kind, m = [sessions[s].job EXCEPT !.kind = kind]
        PROVE  FromClient(m, id) /\ m.by \in Program
    <3>1. FromClient(sessions[s].job, id) /\ sessions[s].job \in Ask
      BY <1>3, <2>3
    <3>2. m.by = sessions[s].job.by /\ m.client = sessions[s].job.client /\ m.by \in Program
      BY <2>3, <3>1 DEF Ask, Stmt
    <3> QED
      BY <3>1, <3>2 DEF FromClient
  <2> QED
    BY <1>1, <2>1, <2>2, <2>3, NewWork
<1>6. ASSUME NEW m \in Of(base_queue', id)
      PROVE  FromClient(m, id) /\ m.by \in Program
  <2>1. CASE m \in Of(base_queue, id)
    BY <1>2, <2>1
  <2>2. ASSUME NEW s \in DOMAIN sessions, ForwardName(s), id = sessions[s].queue,
               m = sessions[s].job
        PROVE  FromClient(m, id) /\ m.by \in Program
    BY <1>3, <2>2 DEF ForwardName, Listens
  <2>3. ASSUME Creating, id = base.queue, NEW kind, m = [base.job EXCEPT !.kind = kind]
        PROVE  FromClient(m, id) /\ m.by \in Program
    <3>1. FromClient(base.job, id) /\ base.job \in Request
      BY <1>1, <2>3 DEF OriginInv, ThreadsFrom, TypeInv, BaseTyped
    <3>2. m.by = base.job.by /\ m.client = base.job.client /\ m.by \in Program
      BY <2>3, <3>1 DEF Request, Stmt
    <3> QED
      BY <3>1, <3>2 DEF FromClient
  <2>4. CreateFiles \/ DatabaseExists => Creating
    BY DEF CreateFiles, DatabaseExists, Listens, Creating
  <2> QED
    BY <1>1, <2>1, <2>2, <2>3, <2>4, NewRequests
<1> QED
  BY <1>1, <1>4, <1>5, <1>6, OriginsStay

LEMMA SessionsFromNext ==
  ASSUME OriginInv, [Next]_vars
  PROVE  \A s \in 1 .. Len(sessions') : (SessionFrom(sessions[s]) /\ JobFrom(sessions[s]))'
<1>1. TypeInv /\ sessions \in Seq(Session)
  BY DEF OriginInv, TypeInv, SessionsTyped
<1>2. ASSUME NEW x \in Session, SessionFrom(x), JobFrom(x), x.job \in Ask \/ x.job = NoAnswer,
             x.pc \in {"work", "forward", "await"} => x.job \in Ask
      PROVE  SessionFrom(x)' /\ JobFrom(x)'
  <2>1. SessionFrom(x)'
    BY <1>1, <1>2, OriginsStay
  <2>2. ASSUME x.pc \in {"work", "forward", "await"}
        PROVE  FromClient(x.job, x.queue)'
    <3>1. x.job.by \in Program
      BY <1>2, <2>2 DEF Ask, Stmt
    <3> QED
      BY <1>1, <1>2, <2>2, <3>1, OriginsStay DEF JobFrom
  <2> QED
    BY <2>1, <2>2 DEF JobFrom
<1>4. \A s \in 1 .. Len(sessions) :
        /\ sessions[s] \in Session /\ SessionFrom(sessions[s]) /\ JobFrom(sessions[s])
        /\ sessions[s].job \in Ask \/ sessions[s].job = NoAnswer
        /\ sessions[s].pc \in {"work", "forward", "await"} => sessions[s].job \in Ask
  BY <1>1, JobTyped, LenProperties DEF OriginInv, ThreadsFrom, Busy, Session
<1>5. ASSUME NEW x, \E s \in 1 .. Len(sessions) : x = sessions[s]
      PROVE  SessionFrom(x)' /\ JobFrom(x)'
  BY <1>2, <1>4, <1>5
<1>6. CASE UNCHANGED sessions
  <2>1. TAKE s \in 1 .. Len(sessions')
  <2>2. PICK x : x = sessions[s]
    OBVIOUS
  <2>3. SessionFrom(x)' /\ JobFrom(x)' /\ x = sessions'[s]
    BY <1>5, <1>6, <2>1, <2>2
  <2> QED
    BY <2>3 DEF SessionFrom, JobFrom
<1>7. ASSUME NEW t \in DOMAIN sessions, SessionStep(t)
      PROVE  \A s \in 1 .. Len(sessions') : (SessionFrom(sessions[s]) /\ JobFrom(sessions[s]))'
  <2>1. PICK x \in Session :
           /\ sessions' = [sessions EXCEPT ![t] = x]
           /\ x.queue = sessions[t].queue /\ x.login = sessions[t].login
           /\ x.pc \in {"work", "forward", "await"} => x.job \in Ask
           /\ x.pc \in {"work", "forward", "await"} =>
                \/ ReceiveSql(t) /\ x.job = Head(worker_queue[sessions[t].queue])
                \/ Busy(t) /\ x.job = sessions[t].job
    BY <1>1, <1>7, SessionsChange
  <2>2. t \in 1 .. Len(sessions) /\ sessions[t].queue \in Id
    BY <1>1, JobTyped
  <2>3. /\ Len(sessions') = Len(sessions)
        /\ \A s \in 1 .. Len(sessions) : sessions'[s] = IF s = t THEN x ELSE sessions[s]
    BY <1>1, <2>1, <2>2, ExceptSeq
  <2>4. SessionFrom(x) /\ (x.job \in Ask \/ x.job = NoAnswer)
    BY <1>4, <2>1, <2>2 DEF SessionFrom, Session
  <2>5. JobFrom(x)
    <3>1. ASSUME x.pc \in {"work", "forward", "await"}
          PROVE  FromClient(x.job, x.queue)
      <4>1. CASE ReceiveSql(t) /\ x.job = Head(worker_queue[sessions[t].queue])
        <5>1. PICK u : u = sessions[t].queue
          OBVIOUS
        <5>2. u \in Id /\ u \in Type /\ Arrived(worker_queue, u) /\ u = x.queue
          BY <2>1, <2>2, <4>1, <5>1, IdProperties DEF ReceiveSql
        <5>3. x.job \in Of(worker_queue, u)
          BY <1>1, <4>1, <5>1, <5>2, ReceiveOf DEF TypeInv, QueuesTyped
        <5> QED
          BY <5>2, <5>3 DEF OriginInv, MessagesFrom
      <4>2. CASE Busy(t) /\ x.job = sessions[t].job
        BY <1>4, <2>1, <2>2, <4>2 DEF JobFrom, Busy
      <4> QED
        BY <2>1, <3>1, <4>1, <4>2
    <3> QED
      BY <3>1 DEF JobFrom
  <2>6. SessionFrom(x)' /\ JobFrom(x)'
    BY <1>2, <2>1, <2>4, <2>5
  <2>7. TAKE s \in 1 .. Len(sessions')
  <2>8. PICK y : y = sessions'[s]
    OBVIOUS
  <2>9. SessionFrom(y)' /\ JobFrom(y)'
    BY <1>5, <2>3, <2>6, <2>7, <2>8
  <2> QED
    BY <2>8, <2>9 DEF SessionFrom, JobFrom
<1>8. CASE Connect
  <2>1. CASE UNCHANGED sessions
    BY <1>6, <2>1
  <2>2. ASSUME sessions' = Append(sessions, NewSession(connector.msg.login))
        PROVE  \A s \in 1 .. Len(sessions') : (SessionFrom(sessions[s]) /\ JobFrom(sessions[s]))'
    <3>1. PICK x, m : x = NewSession(connector.msg.login) /\ m = connector.msg
      OBVIOUS
    <3>2. connector.pc = "connect"
      BY <1>8 DEF Connect, Listens
    <3>3. /\ x \in Session /\ x.queue = connector.queue /\ x.pc = "starting"
          /\ x.login.place = m.login.place /\ x.login.db = m.login.db
      BY <1>1, <3>1, <3>2, NewSessionTyped
    <3>4. m \in Call({"login"}) /\ LoginFrom(m, x.queue)
      BY <1>1, <3>1, <3>2, <3>3 DEF OriginInv, ThreadsFrom, TypeInv, ConnectorTyped
    <3>5. SessionFrom(x)
      BY <3>3, <3>4 DEF LoginFrom, FromClient, SessionFrom, Call
    <3>6. SessionFrom(x)' /\ JobFrom(x)'
      BY <1>2, <3>3, <3>5 DEF JobFrom, Session
    <3>7. /\ Len(sessions') = Len(sessions) + 1
          /\ \A t \in 1 .. Len(sessions) : sessions'[t] = sessions[t]
          /\ sessions'[Len(sessions) + 1] = x
      BY <1>1, <2>2, <3>1, <3>3, AppendProperties
    <3>8. \A t \in 1 .. Len(sessions') : t \in 1 .. Len(sessions) \/ t = Len(sessions) + 1
      BY <1>1, <3>7, LenProperties
    <3>9. TAKE s \in 1 .. Len(sessions')
    <3>10. PICK y : y = sessions'[s]
      OBVIOUS
    <3>11. SessionFrom(y)' /\ JobFrom(y)'
      BY <1>5, <3>6, <3>7, <3>8, <3>9, <3>10
    <3> QED
      BY <3>10, <3>11 DEF SessionFrom, JobFrom
  <2> QED
    BY <1>8, <2>1, <2>2 DEF Connect
<1>9. CASE Restart
  <2>1. Len(sessions') = 0
    BY <1>9, EmptySeq DEF Restart
  <2> QED
    BY <2>1
<1>10. CASE Next
  <2>1. ReceiveCall \/ ReceiveLogin => UNCHANGED sessions
    BY DEF ReceiveCall, ReceiveLogin
  <2> QED
    BY <1>6, <1>7, <1>8, <1>9, <1>10, <2>1, StepCases, ProgramFrame, StartFrame,
       BaseFrame, OtherFrame
<1> QED
  BY <1>6, <1>10 DEF vars

LEMMA ThreadsFromNext == OriginInv /\ [Next]_vars => ThreadsFrom'
<1> SUFFICES ASSUME OriginInv, [Next]_vars
             PROVE  ThreadsFrom'
  OBVIOUS
<1>1. TypeInv
  BY DEF OriginInv
<1>3. ASSUME connector'.pc = "connect"
      PROVE  LoginFrom(connector.msg, connector.queue)'
  <2>1. PICK m, id : m = connector'.msg /\ id = connector'.queue
    OBVIOUS
  <2>2. LoginFrom(m, id) /\ m.by \in Program
    <3>1. CASE UNCHANGED connector
      <4>1. m \in Call({"login"})
        BY <1>1, <1>3, <2>1, <3>1 DEF TypeInv, ConnectorTyped
      <4> QED
        BY <1>3, <2>1, <3>1, <4>1 DEF OriginInv, ThreadsFrom, Call
    <3>2. CASE ReceiveLogin
      <4>1. connector.queue \in Id
        BY <1>1, <3>2 DEF ReceiveLogin, Listens, TypeInv, ConnectorTyped
      <4>2. connector' = [connector EXCEPT !.pc = "connect",
                                           !.msg = Head(connector_queue[connector.queue])]
        BY <3>2 DEF ReceiveLogin
      <4>3. id = connector.queue /\ m = Head(connector_queue[connector.queue])
        BY <1>1, <2>1, <4>2 DEF TypeInv, ConnectorTyped
      <4>4. id \in Id /\ id \in Type /\ Arrived(connector_queue, id)
        BY <3>2, <4>1, <4>3, IdProperties DEF ReceiveLogin
      <4>5. m \in Of(connector_queue, id)
        BY <1>1, <4>3, <4>4, ReceiveOf DEF TypeInv, QueuesTyped
      <4> QED
        BY <1>1, <4>4, <4>5, OfBy DEF OriginInv, MessagesFrom
    <3>3. ReceiveCall => connector'.pc = "special"
      BY <1>1 DEF ReceiveCall, TypeInv, ConnectorTyped
    <3>4. Connect \/ Restart => connector'.pc = "public"
      <4>1. Connect \/ Restart => connector' = NewConnector
        BY DEF Connect, Reply, Restart
      <4> QED
        BY <4>1 DEF NewConnector
    <3> QED
      BY <1>3, <3>1, <3>2, <3>3, <3>4, StepCases, ProgramFrame, StartFrame, SessionFrame,
         BaseFrame, OtherFrame DEF vars
  <2>3. LoginFrom(m, id)'
    BY <1>1, <2>2, OriginsStay
  <2> QED
    BY <2>1, <2>3 DEF LoginFrom, FromClient
<1>4. ASSUME Creating'
      PROVE  FromClient(base.job, base.queue)'
  <2>1. PICK m, id : m = base'.job /\ id = base'.queue
    OBVIOUS
  <2>2. FromClient(m, id) /\ m.by \in Program
    <3>1. CASE Creating /\ m = base.job /\ id = base.queue
      BY <1>1, <3>1 DEF OriginInv, ThreadsFrom, TypeInv, BaseTyped, Request, Stmt
    <3>2. CASE ReceiveRequest
      <4>1. base.queue \in Id
        BY <1>1, <3>2 DEF ReceiveRequest, Listens, TypeInv, BaseTyped
      <4>2. base' = [base EXCEPT !.pc = "create", !.job = Head(base_queue[base.queue])]
        BY <3>2 DEF ReceiveRequest, RequestFrom
      <4>3. id = base.queue /\ m = Head(base_queue[base.queue])
        BY <1>1, <2>1, <4>2 DEF TypeInv, BaseTyped
      <4>4. id \in Id /\ id \in Type /\ Arrived(base_queue, id)
        BY <3>2, <4>1, <4>3, IdProperties DEF ReceiveRequest, RequestFrom
      <4>5. m \in Of(base_queue, id)
        BY <1>1, <4>3, <4>4, ReceiveOf DEF TypeInv, QueuesTyped
      <4> QED
        BY <1>1, <4>4, <4>5, OfBy DEF OriginInv, MessagesFrom
    <3>3. StartBase \/ ReceiveCommand \/ DatabaseExists \/ CreateFiles \/ Restart => ~Creating'
      <4>1. StartBase => base'.pc = "command"
        BY <1>1 DEF StartBase, TypeInv, BaseTyped
      <4>2. ReceiveCommand => base'.pc = "request"
        BY <1>1 DEF ReceiveCommand, TypeInv, BaseTyped
      <4>3. DatabaseExists \/ CreateFiles => base' = [NewBase EXCEPT !.pc = "command"]
        BY DEF DatabaseExists, CreateFiles, Outcome
      <4>4. Restart => base' = NewBase
        BY DEF Restart
      <4> QED
        BY <4>1, <4>2, <4>3, <4>4 DEF NewBase, Creating
    <3>4. InsertName \/ WriteDBFile => Creating /\ base'.job = base.job /\ base'.queue = base.queue
      BY <1>1 DEF InsertName, WriteDBFile, Listens, Creating, TypeInv, BaseTyped
    <3>5. CASE UNCHANGED base
      BY <1>4, <2>1, <3>1, <3>5 DEF Creating
    <3> QED
      BY <1>4, <2>1, <3>1, <3>2, <3>3, <3>4, <3>5, StepCases, ProgramFrame, StartFrame, ConnectorFrame,
         SessionFrame, OtherFrame DEF BaseStep, vars
  <2>3. FromClient(m, id)'
    BY <1>1, <2>2, OriginsStay
  <2> QED
    BY <2>1, <2>3 DEF FromClient
<1> QED
  BY <1>3, <1>4, SessionsFromNext DEF ThreadsFrom

LEMMA OriginInit == Init => OriginInv
<1> SUFFICES ASSUME Init
             PROVE  OriginInv
  OBVIOUS
<1>1. \A t \in Type : /\ connector_queue[t] = <<>>
                      /\ worker_queue[t] = <<>>
                      /\ base_queue[t] = <<>>
  BY DEF Init
<1>2. Messages(<<>>) = {}
  BY EmptySeq DEF Messages
<1>3. \A id \in Id : /\ Of(connector_queue, id) = {}
                     /\ Of(worker_queue, id) = {}
                     /\ Of(base_queue, id) = {}
  BY <1>1, <1>2, IdProperties DEF Of
<1>4. ThreadsFrom
  BY EmptySeq DEF Init, ThreadsFrom, NewConnector, NewBase, Creating
<1> QED
  BY <1>3, <1>4, TypeInit DEF OriginInv, MessagesFrom

LEMMA OriginNext == OriginInv /\ [Next]_vars => OriginInv'
BY TypeNext, MessagesFromNext, ThreadsFromNext DEF OriginInv

LEMMA OriginInvHolds == Spec => []OriginInv
<1>1. Init => OriginInv
  BY OriginInit
<1>2. OriginInv /\ [Next]_vars => OriginInv'
  BY OriginNext
<1> QED
  BY <1>1, <1>2, PTL DEF Spec

LEMMA OriginInvImpliesOwnDatabase == OriginInv => OwnDatabaseIfExclusive
<1> SUFFICES ASSUME OriginInv, NEW s \in DOMAIN sessions, sessions[s].pc = "work",
                    Exclusive(sessions[s].job.by),
                    sessions[s].job.client = Client(sessions[s].job.by)
             PROVE  LoginOf(sessions[s].job.by).db = sessions[s].login.db
  BY DEF OwnDatabaseIfExclusive
<1>1. PICK x, p : x = sessions[s] /\ p = sessions[s].job.by
  OBVIOUS
<1>2. s \in 1 .. Len(sessions)
  BY JobTyped DEF OriginInv
<1>3. SessionFrom(x) /\ FromClient(x.job, x.queue)
  BY <1>1, <1>2 DEF OriginInv, ThreadsFrom, JobFrom
<1>4. QueueId(p) = x.queue
  BY <1>1, <1>3 DEF FromClient, QueueId
<1>5. PICK q \in Program, i \in Nat :
        /\ i \in 1 .. Client(q)
        /\ QueueIds[i] = x.queue /\ built[q][i].db = x.login.db
  BY <1>3 DEF SessionFrom
<1>6. i \in DOMAIN built[q]
  <2>1. built[q] \in Seq(Login)
    BY DEF OriginInv, TypeInv, ClientsTyped
  <2> QED
    BY <1>5, <2>1, LenProperties DEF Client
<1>7. q = p /\ i = Client(p)
  BY <1>1, <1>4, <1>5, <1>6 DEF Exclusive
<1> QED
  BY <1>1, <1>5, <1>7 DEF LoginOf

(* "All user operation changes the database its client connected to": a    *)
(* worker that executes a statement of a client whose queue id and place   *)
(* nobody shares works in that client's database, however the other        *)
(* clients' queue ids, places, deaths and restarts mix.                    *)
THEOREM StatementsStayHome == Spec => []OwnDatabaseIfExclusive
<1>1. Spec => []OriginInv
  BY OriginInvHolds
<1>2. OriginInv => OwnDatabaseIfExclusive
  BY OriginInvImpliesOwnDatabase
<1> QED
  BY <1>1, <1>2, PTL
-----------------------------------------------------------------------------
(* Who is told that it is connected has a session.                         *)
HasSession(place) == \E s \in 1 .. Len(sessions) : sessions[s].login.place = place

ConnectedHaveSessions ==
  /\ \A id \in Id : \A m \in Of(connector_queue, id) :
       m.kind = "connected" => HasSession(m.login.place)
  /\ \A p \in Program :
       program[p] \in {"ready", "asked"} /\ Exclusive(p) => HasSession(LoginOf(p).place)

ConnectedInv == OriginInv /\ (restarts = 0 => ConnectedHaveSessions)

LEMMA SessionsStay ==
  ASSUME TypeInv, [Next]_vars, NEW place, HasSession(place)
  PROVE  HasSession(place)' \/ Restart
<1>1. PICK s \in 1 .. Len(sessions) : sessions[s].login.place = place
  BY DEF HasSession
<1>2. sessions \in Seq(Session)
  BY DEF TypeInv, SessionsTyped
<1>3. CASE UNCHANGED sessions
  BY <1>1, <1>3 DEF HasSession
<1>4. ASSUME NEW t \in DOMAIN sessions, SessionStep(t)
      PROVE  HasSession(place)'
  <2>1. PICK x \in Session :
           sessions' = [sessions EXCEPT ![t] = x] /\ x.login = sessions[t].login
    BY <1>4, SessionsChange
  <2>2. t \in 1 .. Len(sessions)
    BY JobTyped
  <2>3. /\ Len(sessions') = Len(sessions)
        /\ sessions'[s] = IF s = t THEN x ELSE sessions[s]
    BY <1>1, <1>2, <2>1, <2>2, ExceptSeq
  <2> QED
    BY <1>1, <2>1, <2>3 DEF HasSession
<1>5. ASSUME Connect, sessions' = Append(sessions, NewSession(connector.msg.login))
      PROVE  HasSession(place)'
  <2>1. NewSession(connector.msg.login) \in Session
    BY <1>5, NewSessionTyped DEF Connect, Listens
  <2>2. /\ Len(sessions') = Len(sessions) + 1 /\ Len(sessions) \in Nat
        /\ sessions'[s] = sessions[s]
    BY <1>1, <1>2, <1>5, <2>1, AppendProperties, LenProperties
  <2> QED
    BY <1>1, <2>2 DEF HasSession
<1>6. CASE Next
  <2>1. ReceiveCall \/ ReceiveLogin => UNCHANGED sessions
    BY DEF ReceiveCall, ReceiveLogin
  <2>2. Connect => UNCHANGED sessions
                   \/ sessions' = Append(sessions, NewSession(connector.msg.login))
    BY DEF Connect
  <2> QED
    BY <1>3, <1>4, <1>5, <1>6, <2>1, <2>2, StepCases, ProgramFrame, StartFrame,
       BaseFrame, OtherFrame
<1> QED
  BY <1>3, <1>6 DEF vars

(* A client's queue id and place are its own as long as its program builds *)
(* no other one, if they are its own later.                                *)
LEMMA ExclusiveBefore ==
  ASSUME TypeInv, [Next]_vars, NEW p \in Program, UNCHANGED built[p], Exclusive(p)'
  PROVE  /\ Exclusive(p) /\ Client(p)' = Client(p)
         /\ LoginOf(p)' = LoginOf(p) /\ QueueId(p)' = QueueId(p)
<1>1. Client(p)' = Client(p) /\ LoginOf(p)' = LoginOf(p) /\ QueueId(p)' = QueueId(p)
  BY DEF Client, LoginOf, QueueId
<1>2. ASSUME NEW q \in Program, NEW i \in DOMAIN built[q]
      PROVE  \/ q = p /\ i = Client(p)
             \/ QueueIds[i] # QueueId(p) /\ built[q][i].place # LoginOf(p).place
  <2>1. built[q] \in Seq(Login) /\ built'[q] \in Seq(Login)
    BY TypeNext DEF TypeInv, ClientsTyped
  <2>2. i \in 1 .. Client(q) /\ Client(q) \in Nat /\ Client(q)' \in Nat /\ Client(q) <= Client(q)'
        /\ built'[q][i] = built[q][i]
    BY <1>2, <2>1, BuiltGrows, LenProperties DEF Client
  <2>3. i \in 1 .. Client(q)'
    BY <2>2
  <2>4. i \in DOMAIN built'[q]
    BY <2>1, <2>3, LenProperties DEF Client
  <2> QED
    BY <1>1, <2>2, <2>4 DEF Exclusive
<1>3. built[p] # <<>>
  BY DEF Exclusive
<1> QED
  BY <1>1, <1>2, <1>3 DEF Exclusive

(* What an exclusive client is sent is its own.                            *)
LEMMA ExclusiveMessage ==
  ASSUME OriginInv, NEW p \in Program, Exclusive(p), Client(p) > 0, NEW m, m.by \in Program,
         FromClient(m, QueueId(p))
  PROVE  m.by = p /\ m.client = Client(p)
<1>1. built[m.by] \in Seq(Login)
  BY DEF OriginInv, TypeInv, ClientsTyped
<1>2. m.client \in DOMAIN built[m.by] /\ QueueIds[m.client] = QueueId(p)
  BY <1>1, LenProperties DEF FromClient, Client
<1> QED
  BY <1>2 DEF Exclusive

LEMMA ConnectedNext == ConnectedInv /\ [Next]_vars => ConnectedInv'
<1> SUFFICES ASSUME ConnectedInv, [Next]_vars
             PROVE  ConnectedInv'
  OBVIOUS
<1>1. OriginInv /\ TypeInv /\ TypeInv' /\ OriginInv'
  BY OriginNext, TypeNext DEF ConnectedInv, OriginInv
<1>2. CASE Restart
  <2>1. restarts' = restarts + 1 /\ restarts \in Nat
    BY <1>1, <1>2 DEF Restart, TypeInv, ServerTyped
  <2> QED
    BY <1>1, <2>1 DEF ConnectedInv
<1>3. ASSUME ~Restart, restarts' = 0
      PROVE  ConnectedHaveSessions'
  <2>1. restarts = 0
    BY <1>3, StepCases, ProgramFrame, StartFrame, ConnectorFrame, SessionFrame, BaseFrame,
       OtherFrame DEF vars
  <2>2. ConnectedHaveSessions
    BY <2>1 DEF ConnectedInv
  <2>3. ASSUME NEW id \in Id, NEW m \in Of(connector_queue', id), m.kind = "connected"
        PROVE  HasSession(m.login.place)'
    <3>1. CASE m \in Of(connector_queue, id)
      BY <1>1, <1>3, <2>2, <2>3, <3>1, SessionsStay DEF ConnectedHaveSessions
    <3>2. ASSUME Connect, NEW kind, Reply(kind), m = [connector.msg EXCEPT !.kind = kind]
          PROVE  HasSession(m.login.place)'
      <4>1. connector.pc = "connect"
        BY <3>2 DEF Connect, Listens
      <4>2. connector.msg \in Call({"login"})
        BY <1>1, <4>1 DEF TypeInv, ConnectorTyped
      <4>3. m.kind = kind /\ m.login = connector.msg.login
        BY <3>2, <4>2 DEF Call
      <4>4. sessions \in Seq(Session)
        BY <1>1 DEF TypeInv, SessionsTyped
      <4>5. ASSUME NEW s \in GetSession(connector.msg.login)
            PROVE  HasSession(m.login.place)'
        <5>1. s \in 1 .. Len(sessions)
          BY <4>4, LenProperties DEF GetSession
        <5>2. HasSession(m.login.place)
          BY <4>3, <5>1 DEF GetSession, HasSession
        <5> QED
          BY <1>1, <1>3, <5>2, SessionsStay
      <4>6. ASSUME sessions' = Append(sessions, NewSession(connector.msg.login))
            PROVE  HasSession(m.login.place)'
        <5>1. PICK x : x = NewSession(connector.msg.login)
          OBVIOUS
        <5>2. x \in Session /\ x.login.place = m.login.place
          BY <1>1, <4>1, <4>3, <5>1, NewSessionTyped
        <5>3. /\ Len(sessions') = Len(sessions) + 1 /\ Len(sessions) \in Nat
              /\ sessions'[Len(sessions) + 1] = x
          BY <4>4, <4>6, <5>1, <5>2, AppendProperties, LenProperties
        <5>4. Len(sessions) + 1 \in 1 .. Len(sessions')
          BY <5>3
        <5> QED
          BY <5>2, <5>3, <5>4 DEF HasSession
      <4>7. CASE GetSession(connector.msg.login) = {} /\ Reply("refused")
        <5>1. connector.queue + 1 \in Type /\ connector.queue \in Id
          BY <1>1, <4>1, IdProperties DEF TypeInv, ConnectorTyped
        <5>2. PICK r : r = [connector.msg EXCEPT !.kind = "refused"]
          OBVIOUS
        <5>3. r.kind = "refused" /\ r # m
          BY <2>3, <4>2, <5>2 DEF Call
        <5>4. r \in ConnectorMsg[connector.queue + 1] /\ kind = "connected"
          BY <2>3, <4>2, <4>3, <5>1, <5>2, NewCall, MsgProperties
        <5>5. m \in ConnectorMsg[connector.queue + 1]
          BY <3>2, <4>2, <5>1, <5>4, NewCall, MsgProperties
        <5>6. PICK q : q = connector_queue[connector.queue + 1]
          OBVIOUS
        <5>7. q \in Seq(ConnectorMsg[connector.queue + 1])
          BY <1>1, <5>1, <5>6 DEF TypeInv, QueuesTyped, Carries
        <5>8. connector_queue'[connector.queue + 1] = Append(q, r)
              /\ connector_queue'[connector.queue + 1] = Append(q, m)
          BY <1>1, <3>2, <4>7, <5>1, <5>2, <5>4, <5>6
             DEF Reply, ReplyTo, Send, TypeInv, QueuesTyped, Carries
        <5>9. r = m
          <6>1. PICK S : S = ConnectorMsg[connector.queue + 1]
            OBVIOUS
          <6>2. q \in Seq(S) /\ r \in S /\ m \in S /\ Append(q, r) = Append(q, m)
            BY <5>4, <5>5, <5>7, <5>8, <6>1
          <6>3. Append(q, r)[Len(q) + 1] = r /\ Append(q, m)[Len(q) + 1] = m
            BY <6>2, AppendProperties
          <6> QED
            BY <6>2, <6>3
        <5> QED
          BY <5>3, <5>9
      <4> QED
        BY <3>2, <4>5, <4>6, <4>7 DEF Connect
    <3>3. ASSUME NEW p,
                 m = [by |-> p, client |-> Client(p), login |-> LoginOf(p), kind |-> "login"]
          PROVE  FALSE
      BY <2>3, <3>3
    <3> QED
      BY <1>1, <2>3, <3>1, <3>2, <3>3, NewLogins
  <2>4. ASSUME NEW p \in Program, program'[p] \in {"ready", "asked"}, Exclusive(p)'
        PROVE  HasSession(LoginOf(p).place)'
    <3>1. PICK place : place = LoginOf(p)'.place
      OBVIOUS
    <3>2. UNCHANGED built[p] /\ (ReceiveResult(p) \/ program[p] \in {"ready", "asked"})
      <4>1. CASE UNCHANGED clients
        BY <2>4, <4>1 DEF clients
      <4>2. ASSUME NEW q \in Program, q # p, ProgramStep(q)
            PROVE  UNCHANGED <<program[p], built[p]>>
        <5>1. UNCHANGED program[p]
          BY <1>1, <4>2, ProgramGoes DEF TypeInv, ClientsTyped
        <5>2. UNCHANGED built[p]
          <6>1. ASSUME NEW login \in Login, BuildClient(q, login)
                PROVE  UNCHANGED built[p]
            BY <1>1, <4>2, <6>1, BuildKeeps
          <6> QED
            BY <4>2, <6>1 DEF ProgramStep, SendLogin, ReceiveResult, SendSql, ReceiveAnswer,
                              QuitClient, QuitProgram, Kill
        <5> QED
          BY <5>1, <5>2
      <4>3. ASSUME ProgramStep(p)
            PROVE  UNCHANGED built[p] /\ (ReceiveResult(p) \/ program[p] \in {"ready", "asked"})
        <5>1. program \in [Program -> {"manager", "called", "waiting", "ready", "asked", "ended"}]
          BY <1>1 DEF TypeInv, ClientsTyped
        <5>2. \A login \in Login : ~BuildClient(p, login)
          BY <2>4, <5>1 DEF BuildClient, Goes
        <5>3. ~SendLogin(p) /\ ~QuitClient(p) /\ ~QuitProgram(p) /\ ~Kill(p)
          BY <2>4, <5>1 DEF SendLogin, QuitClient, QuitProgram, Kill, Goes
        <5>4. ReceiveResult(p) \/ SendSql(p) \/ ReceiveAnswer(p)
          BY <4>3, <5>2, <5>3 DEF ProgramStep
        <5> QED
          BY <5>4 DEF ReceiveResult, SendSql, ReceiveAnswer, Goes
      <4> QED
        BY <2>4, <4>1, <4>2, <4>3, StepCases, StartFrame, ConnectorFrame, SessionFrame,
           BaseFrame, OtherFrame DEF clients, vars
    <3>3. Exclusive(p) /\ place = LoginOf(p).place
      BY <1>1, <2>4, <3>1, <3>2, ExclusiveBefore
    <3>4. CASE program[p] \in {"ready", "asked"}
      <4>1. HasSession(place)
        BY <2>2, <3>3, <3>4 DEF ConnectedHaveSessions
      <4> QED
        BY <1>1, <1>3, <3>1, <4>1, SessionsStay DEF HasSession
    <3>5. CASE ReceiveResult(p)
      <4>1. Client(p) > 0 /\ QueueId(p) \in Id
        BY <1>1, <3>5, ClientProperties DEF ReceiveResult, TypeInv, ClientsTyped, Active
      <4>2. PICK t, m : t = QueueId(p) + 1 /\ m = Head(connector_queue[t])
        OBVIOUS
      <4>3. t \in Type /\ Arrived(connector_queue, t)
        BY <3>5, <4>1, <4>2, IdProperties DEF ReceiveResult
      <4>4. m \in Of(connector_queue, QueueId(p))
        BY <1>1, <4>1, <4>2, <4>3, ReceiveOf DEF TypeInv, QueuesTyped
      <4>5. m.kind = "connected"
        <5>1. program' = [program EXCEPT ![p] = IF m.kind = "connected" THEN "ready" ELSE "ended"]
          BY <3>5, <4>1, <4>2, IdProperties DEF ReceiveResult, Goes
        <5> QED
          BY <1>1, <2>4, <5>1 DEF TypeInv, ClientsTyped
      <4>6. LoginFrom(m, QueueId(p)) /\ m.by \in Program
        BY <1>1, <4>1, <4>4, OfBy DEF OriginInv, MessagesFrom
      <4>7. m.by = p /\ m.client = Client(p)
        BY <1>1, <3>3, <4>1, <4>6, ExclusiveMessage DEF LoginFrom
      <4>8. m.login = LoginOf(p)
        BY <4>6, <4>7 DEF LoginFrom, LoginOf
      <4>9. HasSession(place)
        BY <2>2, <3>3, <4>1, <4>4, <4>5, <4>8 DEF ConnectedHaveSessions
      <4> QED
        BY <1>1, <1>3, <3>1, <4>9, SessionsStay DEF HasSession
    <3> QED
      BY <3>2, <3>4, <3>5
  <2> QED
    BY <2>3, <2>4 DEF ConnectedHaveSessions, Of, Messages
<1> QED
  BY <1>1, <1>2, <1>3 DEF ConnectedInv
LEMMA ConnectedInvHolds == Spec => []ConnectedInv
<1>1. Init => ConnectedInv
  <2>1. SUFFICES ASSUME Init
                 PROVE  ConnectedInv
    OBVIOUS
  <2>2. \A id \in Id : Of(connector_queue, id) = {}
    <3>1. \A t \in Type : connector_queue[t] = <<>>
      BY <2>1 DEF Init
    <3>2. Messages(<<>>) = {}
      BY EmptySeq DEF Messages
    <3> QED
      BY <3>1, <3>2, IdProperties DEF Of
  <2>3. \A p \in Program : program[p] = "manager"
    BY <2>1 DEF Init
  <2> QED
    BY <2>1, <2>2, <2>3, OriginInit DEF ConnectedInv, ConnectedHaveSessions
<1>2. ConnectedInv /\ [Next]_vars => ConnectedInv'
  BY ConnectedNext
<1> QED
  BY <1>1, <1>2, PTL DEF Spec

LEMMA ConnectedInvImpliesServed == ConnectedInv => Served
<1> SUFFICES ASSUME ConnectedInv, NEW p \in Program, program[p] \in {"ready", "asked"},
                    Exclusive(p), restarts = 0
             PROVE  \E s \in DOMAIN sessions :
                      /\ sessions[s].queue = QueueId(p)
                      /\ sessions[s].login.db = LoginOf(p).db
  BY DEF Served
<1>1. OriginInv /\ TypeInv /\ HasSession(LoginOf(p).place)
  BY DEF ConnectedInv, OriginInv, ConnectedHaveSessions
<1>2. PICK s \in 1 .. Len(sessions) : sessions[s].login.place = LoginOf(p).place
  BY <1>1 DEF HasSession
<1>3. SessionFrom(sessions[s])
  BY <1>1 DEF OriginInv, ThreadsFrom
<1>4. PICK q \in Program, i \in Nat :
        /\ i \in 1 .. Client(q)
        /\ QueueIds[i] = sessions[s].queue
        /\ built[q][i].place = sessions[s].login.place
        /\ built[q][i].db = sessions[s].login.db
  BY <1>3 DEF SessionFrom
<1>5. i \in DOMAIN built[q]
  <2>1. built[q] \in Seq(Login)
    BY <1>1 DEF TypeInv, ClientsTyped
  <2> QED
    BY <1>4, <2>1, LenProperties DEF Client
<1>6. q = p /\ i = Client(p)
  BY <1>2, <1>4, <1>5 DEF Exclusive
<1>7. s \in DOMAIN sessions
  BY <1>1, LenProperties DEF TypeInv, SessionsTyped
<1> QED
  BY <1>4, <1>6, <1>7 DEF QueueId, LoginOf

(* A client that was told it is connected, and whose queue id and place    *)
(* nobody shares, has a worker that listens to its queue id, in the        *)
(* database it asked for, until the server is started again.               *)
THEOREM ConnectedServed == Spec => []Served
<1>1. Spec => []ConnectedInv
  BY ConnectedInvHolds
<1>2. ConnectedInv => Served
  BY ConnectedInvImpliesServed
<1> QED
  BY <1>1, <1>2, PTL

-----------------------------------------------------------------------------
(* What somebody is told, or will be, was created.                         *)
SaysCreated(m, db) == m.kind = "success" /\ m.db = db

Told(db) ==
  \/ \E id \in Id : \E m \in Of(base_queue, id) \cup Of(worker_queue, id) : SaysCreated(m, db)
  \/ \E p \in Program : answer[p] # NoAnswer /\ SaysCreated(answer[p], db)

Named(db) == \E i \in 1 .. Len(names) : names[i] = db

Twice(db) == \E i, j \in 1 .. Len(names) : i # j /\ names[i] = db /\ names[j] = db

(* It has a name, and its files, unless it is created again.               *)
Kept(db) ==
  /\ Named(db)
  /\ \/ db \in complete
     \/ Twice(db) /\ (restarts > 0 \/ (base.pc = "tables" /\ base.job.db = db))

CreatedInv ==
  /\ TypeInv
  /\ \A db \in Db \cup {BaseDb} : Told(db) => Kept(db)
  /\ base.pc \in {"files", "tables"} =>
       Named(base.job.db) /\ (Told(base.job.db) => Twice(base.job.db))
  /\ server = "up" => BaseDb \in complete

LEMMA ToldGrows ==
  ASSUME TypeInv, [Next]_vars, NEW db, Told(db)'
  PROVE  Told(db) \/ (CreateFiles /\ base.job.db = db)
<1>1. ASSUME NEW id \in Id, NEW m \in Of(base_queue', id), SaysCreated(m, db)
      PROVE  Told(db) \/ (CreateFiles /\ base.job.db = db)
  <2>1. CASE m \in Of(base_queue, id)
    BY <1>1, <2>1 DEF Told
  <2>2. ASSUME NEW s \in DOMAIN sessions, ForwardName(s), m = sessions[s].job
        PROVE  FALSE
    <3>1. sessions[s].job.kind = "create"
      BY <2>2, JobTyped DEF ForwardName, Listens
    <3> QED
      BY <1>1, <2>2, <3>1 DEF SaysCreated
  <2>3. ASSUME NEW kind, m = [base.job EXCEPT !.kind = kind], Creating
        PROVE  m.kind = kind /\ m.db = base.job.db
    <3>1. base.job \in Request
      BY <2>3 DEF TypeInv, BaseTyped
    <3> QED
      BY <2>3, <3>1 DEF Request, Stmt
  <2>4. CreateFiles \/ DatabaseExists => Creating
    BY DEF CreateFiles, DatabaseExists, Listens, Creating
  <2>5. ~(DatabaseExists /\ m = [base.job EXCEPT !.kind = "failure"])
    BY <1>1, <2>3, <2>4 DEF SaysCreated
  <2>6. CreateFiles /\ m = [base.job EXCEPT !.kind = "success"] => base.job.db = db
    BY <1>1, <2>3, <2>4 DEF SaysCreated
  <2> QED
    BY <1>1, <2>1, <2>2, <2>5, <2>6, NewRequests
<1>2. ASSUME NEW id \in Id, NEW m \in Of(worker_queue', id), SaysCreated(m, db)
      PROVE  Told(db)
  <2>1. CASE m \in Of(worker_queue, id) \cup Of(base_queue, id)
    BY <1>2, <2>1 DEF Told
  <2>2. m.kind \notin Asks
    BY <1>2 DEF SaysCreated, Asks
  <2>3. ASSUME NEW s \in DOMAIN sessions, sessions[s].pc = "work",
               NEW kind \in {"result", "failure"}, m = [sessions[s].job EXCEPT !.kind = kind]
        PROVE  FALSE
    <3>1. sessions[s].job \in Ask
      BY <2>3, JobTyped DEF Busy
    <3>2. m.kind = kind
      BY <2>3, <3>1 DEF Ask, Stmt
    <3> QED
      BY <1>2, <2>3, <3>2 DEF SaysCreated
  <2> QED
    BY <1>2, <2>1, <2>2, <2>3, NewWork
<1>3. ASSUME NEW p \in Program, answer'[p] # NoAnswer, SaysCreated(answer'[p], db)
      PROVE  Told(db)
  <2>1. CASE answer'[p] = answer[p]
    BY <1>3, <2>1 DEF Told
  <2>2. CASE UNCHANGED clients
    BY <2>1, <2>2 DEF clients
  <2>3. ASSUME NEW q \in Program, ProgramStep(q), answer'[p] # answer[p]
        PROVE  q = p /\ ReceiveAnswer(p)
    <3>1. answer \in [Program -> Stmt(Answers) \cup {NoAnswer}]
      BY DEF TypeInv, ClientsTyped
    <3>2. ASSUME NEW login \in Login, BuildClient(q, login)
          PROVE  FALSE
      BY <1>3, <2>3, <3>1, <3>2 DEF BuildClient
    <3>3. ~(SendLogin(q) \/ ReceiveResult(q) \/ SendSql(q) \/ QuitClient(q) \/ QuitProgram(q)
            \/ Kill(q))
      BY <2>3 DEF SendLogin, ReceiveResult, SendSql, QuitClient, QuitProgram, Kill
    <3>4. ReceiveAnswer(q)
      BY <2>3, <3>2, <3>3 DEF ProgramStep
    <3> QED
      BY <2>3, <3>1, <3>4 DEF ReceiveAnswer
  <2>4. ASSUME ReceiveAnswer(p)
        PROVE  Told(db)
    <3>1. Client(p) > 0 /\ QueueId(p) \in Id
      BY <2>4, ClientProperties DEF ReceiveAnswer, Goes, TypeInv, ClientsTyped, Active
    <3>2. PICK t, m : t = QueueId(p) + 1 /\ m = Head(worker_queue[t])
      OBVIOUS
    <3>3. t \in Type /\ Arrived(worker_queue, t) /\ answer' = [answer EXCEPT ![p] = m]
      BY <2>4, <3>1, <3>2, IdProperties DEF ReceiveAnswer
    <3>4. m \in Of(worker_queue, QueueId(p))
      BY <3>1, <3>2, <3>3, ReceiveOf DEF TypeInv, QueuesTyped
    <3>5. m = answer'[p]
      BY <3>3 DEF TypeInv, ClientsTyped
    <3> QED
      BY <1>3, <3>1, <3>4, <3>5 DEF Told
  <2> QED
    BY <2>1, <2>2, <2>3, <2>4, StepCases, StartFrame, ConnectorFrame, SessionFrame, BaseFrame,
       OtherFrame DEF clients, vars
<1> QED
  BY <1>1, <1>2, <1>3 DEF Told, Of, Messages, SaysCreated

(* Names are added, at the end.                                            *)
LEMMA NamesGrow ==
  ASSUME TypeInv, [Next]_vars
  PROVE  /\ \A db : Named(db) => Named(db)'
         /\ \A db : Twice(db) => Twice(db)'
         /\ \A db : InsertName /\ db = base.job.db =>
                    Named(db)' /\ (Named(db) => Twice(db)')
<1>1. names \in Seq(Db \cup {BaseDb}) /\ Len(names) \in Nat
  BY LenProperties DEF TypeInv, ServerTyped
<1>2. ASSUME UNCHANGED names
      PROVE  /\ \A db : Named(db) => Named(db)'
             /\ \A db : Twice(db) => Twice(db)'
  BY <1>2 DEF Named, Twice
<1>3. ASSUME NEW name \in Db \cup {BaseDb}, names' = Append(names, name)
      PROVE  /\ \A db : Named(db) => Named(db)'
             /\ \A db : Twice(db) => Twice(db)'
             /\ Named(name)'
             /\ Named(name) => Twice(name)'
  <2>1. PICK n, m : n = Len(names) /\ m = Len(names')
    OBVIOUS
  <2>2. /\ m = n + 1 /\ n \in Nat
        /\ \A i \in 1 .. n : names'[i] = names[i]
        /\ names'[n + 1] = name
    BY <1>1, <1>3, <2>1, AppendProperties
  <2>3. n + 1 \in 1 .. m /\ n + 1 \notin 1 .. n /\ 1 .. n \subseteq 1 .. m
    BY <2>2
  <2>4. \A db : Named(db) => Named(db)'
    BY <2>1, <2>2, <2>3 DEF Named
  <2>5. \A db : Twice(db) => Twice(db)'
    BY <2>1, <2>2, <2>3 DEF Twice
  <2>6. Named(name)'
    BY <2>1, <2>2, <2>3 DEF Named
  <2>7. Named(name) => Twice(name)'
    BY <2>1, <2>2, <2>3 DEF Named, Twice
  <2> QED
    BY <2>4, <2>5, <2>6, <2>7
<1>4. CASE InsertName
  <2>1. PICK db : db = base.job.db
    OBVIOUS
  <2>2. db \in Db /\ names' = Append(names, db)
    BY <1>4, <2>1 DEF InsertName, Listens, Creating, TypeInv, BaseTyped, Request
  <2> QED
    BY <1>3, <2>1, <2>2
<1>5. CASE NameBaseDB
  BY <1>3, <1>5 DEF NameBaseDB, ServerGoes, InsertName, Listens
<1>6. ASSUME ~InsertName, ~NameBaseDB
      PROVE  UNCHANGED names
  <2>1. BaseStep => UNCHANGED names
    BY <1>6 DEF BaseStep, StartBase, ReceiveCommand, ReceiveRequest, DatabaseExists, WriteDBFile,
                CreateFiles, Outcome, databases
  <2>2. StartStep => UNCHANGED names
    BY <1>6 DEF StartStep, WriteInstallPath, CreateBaseDB, CreateDefaultTableForBaseDb,
                OpenBaseDB, databases
  <2> QED
    BY <2>1, <2>2, StepCases, ProgramFrame, ConnectorFrame, SessionFrame, OtherFrame
       DEF databases, vars
<1> QED
  BY <1>2, <1>4, <1>5, <1>6

LEMMA CreatedNext ==
  ASSUME BaseDb \notin Db, CreatedInv, [Next]_vars
  PROVE  CreatedInv'
<1>1. TypeInv /\ TypeInv'
  BY TypeNext DEF CreatedInv
<1>2. base.pc \in {"files", "tables"} =>
        Named(base.job.db) /\ (Told(base.job.db) => Twice(base.job.db))
  BY DEF CreatedInv
<1>3. Creating => base.job.db \in Db
  BY <1>1 DEF TypeInv, BaseTyped, Request
<1>4. ASSUME NEW db \in Db \cup {BaseDb}, Told(db)'
      PROVE  Kept(db)'
  <2>1. CASE CreateFiles /\ base.job.db = db
    <3>1. complete' = complete \cup {db} /\ base.pc = "tables" /\ Named(db)
      BY <1>2, <2>1 DEF CreateFiles, CreateDefaultTable, Listens
    <3> QED
      BY <1>1, <3>1, NamesGrow DEF Kept
  <2>2. ASSUME Told(db)
        PROVE  Kept(db)'
    <3>1. Kept(db)
      BY <2>2 DEF CreatedInv
    <3>2. Named(db)' /\ (Twice(db) => Twice(db)')
      BY <1>1, <3>1, NamesGrow DEF Kept
    <3>3. restarts \in Nat /\ restarts' \in Nat
      BY <1>1 DEF TypeInv, ServerTyped
    <3>4. restarts > 0 => restarts' > 0
      <4>1. restarts' = restarts \/ restarts' = restarts + 1
        BY StepCases, ProgramFrame, StartFrame, ConnectorFrame, SessionFrame, BaseFrame,
           OtherFrame DEF Restart, vars
      <4> QED
        BY <3>3, <4>1
    <3>5. CASE UNCHANGED <<complete, base>>
      BY <3>1, <3>2, <3>4, <3>5 DEF Kept
    <3>6. CASE StartStep
      <4>1. complete \subseteq complete' /\ UNCHANGED base
        BY <3>6, StartFrame DEF StartStep, WriteInstallPath, CreateBaseDB,
           CreateDefaultTableForBaseDb, NameBaseDB, OpenBaseDB, databases
      <4> QED
        BY <3>1, <3>2, <3>4, <4>1 DEF Kept
    <3>7. CASE Restart
      <4>1. restarts' > 0 /\ UNCHANGED complete
        BY <3>3, <3>7 DEF Restart, databases
      <4> QED
        BY <3>1, <3>2, <4>1 DEF Kept
    <3>8. CASE BaseStep
      <4>1. CASE WriteDBFile
        <5>1. /\ complete' = complete \ {base.job.db}
              /\ base'.pc = "tables" /\ base'.job = base.job
              /\ base.pc = "files"
          BY <1>1, <4>1 DEF WriteDBFile, Listens, TypeInv, BaseTyped
        <5>2. CASE base.job.db = db
          BY <1>2, <2>2, <3>2, <5>1, <5>2 DEF Kept
        <5>3. CASE base.job.db # db
          BY <3>1, <3>2, <3>4, <5>1, <5>3 DEF Kept
        <5> QED
          BY <5>2, <5>3
      <4>2. CASE CreateFiles
        <5>1. complete' = complete \cup {base.job.db}
          BY <4>2 DEF CreateFiles, CreateDefaultTable
        <5> QED
          BY <3>1, <3>2, <3>4, <5>1 DEF Kept
      <4>3. CASE StartBase \/ ReceiveCommand \/ ReceiveRequest \/ DatabaseExists \/ InsertName
        <5>1. UNCHANGED complete /\ base.pc # "tables"
          BY <4>3 DEF StartBase, ReceiveCommand, ReceiveRequest, DatabaseExists, InsertName,
                      Listens, databases
        <5> QED
          BY <3>1, <3>2, <3>4, <5>1 DEF Kept
      <4> QED
        BY <3>8, <4>1, <4>2, <4>3 DEF BaseStep
    <3> QED
      BY <3>5, <3>6, <3>7, <3>8, StepCases, ProgramFrame, ConnectorFrame, SessionFrame, OtherFrame
         DEF databases, vars
  <2> QED
    BY <1>1, <1>4, <2>1, <2>2, ToldGrows
<1>5. ASSUME base'.pc \in {"files", "tables"}
      PROVE  Named(base.job.db)' /\ (Told(base.job.db)' => Twice(base.job.db)')
  <2>1. PICK db : db = base'.job.db
    OBVIOUS
  <2>2. CASE InsertName
    <3>1. db = base.job.db /\ base.pc = "create" /\ db \in Db
      BY <1>1, <1>3, <2>1, <2>2 DEF InsertName, Listens, Creating, TypeInv, BaseTyped
    <3>2. Named(db)' /\ (Named(db) => Twice(db)')
      BY <1>1, <2>2, <3>1, NamesGrow
    <3>3. ~CreateFiles
      BY <3>1 DEF CreateFiles, Listens
    <3>4. Told(db)' => Named(db)
      BY <1>1, <3>1, <3>3, ToldGrows DEF CreatedInv, Kept
    <3> QED
      BY <2>1, <3>2, <3>4 DEF Named, Told, Twice, SaysCreated, Of, Messages
  <2>3. ASSUME base.pc \in {"files", "tables"}, base'.job = base.job, ~CreateFiles
        PROVE  Named(base.job.db)' /\ (Told(base.job.db)' => Twice(base.job.db)')
    <3>1. db = base.job.db
      BY <2>1, <2>3
    <3>2. Named(db)' /\ (Told(db)' => Twice(db)')
      BY <1>1, <1>2, <2>3, <3>1, NamesGrow, ToldGrows
    <3> QED
      BY <2>1, <3>2 DEF Named, Told, Twice, SaysCreated, Of, Messages
  <2>4. CASE UNCHANGED base
    <3>1. ~CreateFiles
      BY <2>4 DEF CreateFiles, Listens, Outcome, NewBase
    <3> QED
      BY <1>5, <2>3, <2>4, <3>1
  <2>5. CASE WriteDBFile
    <3>1. base.pc = "files" /\ base'.job = base.job
      BY <1>1, <2>5 DEF WriteDBFile, Listens, TypeInv, BaseTyped
    <3>2. ~CreateFiles
      BY <3>1 DEF CreateFiles, Listens
    <3> QED
      BY <2>3, <3>1, <3>2
  <2>6. StartBase => base'.pc = "command"
    BY <1>1 DEF StartBase, TypeInv, BaseTyped
  <2>7. ReceiveCommand => base'.pc = "request"
    BY <1>1 DEF ReceiveCommand, TypeInv, BaseTyped
  <2>8. ReceiveRequest => base'.pc = "create"
    BY <1>1 DEF ReceiveRequest, TypeInv, BaseTyped
  <2>9. DatabaseExists \/ CreateFiles => base'.pc = "command"
    <3>1. DatabaseExists \/ CreateFiles => base' = [NewBase EXCEPT !.pc = "command"]
      BY DEF DatabaseExists, CreateFiles, Outcome
    <3> QED
      BY <3>1 DEF NewBase
  <2>10. Restart => base'.pc = "starting"
    BY DEF Restart, NewBase
  <2> QED
    BY <1>5, <2>2, <2>4, <2>5, <2>6, <2>7, <2>8, <2>9, <2>10, StepCases, ProgramFrame, StartFrame,
       ConnectorFrame, SessionFrame, OtherFrame DEF BaseStep, vars
<1>6. ASSUME server' = "up"
      PROVE  BaseDb \in complete'
  <2>1. CASE server = "up"
    <3>1. BaseDb \in complete
      BY <2>1 DEF CreatedInv
    <3>2. WriteDBFile => complete' = complete \ {base.job.db} /\ base.job.db # BaseDb
      BY <1>3 DEF WriteDBFile, Listens, Creating
    <3>3. CASE BaseStep
      BY <3>1, <3>2, <3>3 DEF BaseStep, StartBase, ReceiveCommand, ReceiveRequest, DatabaseExists,
                   InsertName, CreateFiles, CreateDefaultTable, Outcome, databases
    <3>4. CASE StartStep
      BY <3>1, <3>4 DEF StartStep, WriteInstallPath, CreateBaseDB, CreateDefaultTableForBaseDb,
                   NameBaseDB, OpenBaseDB, databases
    <3> QED
      BY <3>1, <3>3, <3>4, StepCases, ProgramFrame, ConnectorFrame, SessionFrame, OtherFrame
         DEF databases, vars
  <2>2. ASSUME server # "up"
        PROVE  BaseDb \in complete'
    <3>1. OpenBaseDB => BaseDb \in complete /\ UNCHANGED complete
      BY <1>6 DEF OpenBaseDB, Openable, ServerGoes, databases
    <3>2. ~WriteInstallPath /\ ~CreateBaseDB /\ ~CreateDefaultTableForBaseDb /\ ~NameBaseDB
      BY <1>6 DEF WriteInstallPath, CreateBaseDB, CreateDefaultTableForBaseDb, NameBaseDB,
                  ServerGoes
    <3>3. ASSUME NEW p \in Program, ProgramStep(p)
          PROVE  FALSE
      BY <1>6, <2>2, <3>3 DEF ProgramStep, BuildClient, SendLogin, ReceiveResult, SendSql,
                  ReceiveAnswer, QuitClient, QuitProgram, Kill
    <3>4. ~OpenIncomplete /\ ~Overlap /\ ~Restart
      BY <1>6 DEF OpenIncomplete, Overlap, Restart
    <3> QED
      BY <1>6, <2>2, <3>1, <3>2, <3>3, <3>4, StepCases, ConnectorFrame, SessionFrame, BaseFrame
         DEF StartStep, vars
  <2> QED
    BY <2>1, <2>2
<1> QED
  BY <1>1, <1>4, <1>5, <1>6 DEF CreatedInv, Kept

LEMMA CreatedInit == Init => CreatedInv
<1> SUFFICES ASSUME Init
             PROVE  CreatedInv
  OBVIOUS
<1>1. \A id \in Id : Of(base_queue, id) \cup Of(worker_queue, id) = {}
  <2>1. \A t \in Type : base_queue[t] = <<>> /\ worker_queue[t] = <<>>
    BY DEF Init
  <2>2. Messages(<<>>) = {}
    BY EmptySeq DEF Messages
  <2> QED
    BY <2>1, <2>2, IdProperties DEF Of
<1>2. \A db : ~Told(db)
  BY <1>1 DEF Init, Told
<1>3. base.pc = "starting" /\ server = "starting"
  BY DEF Init, NewBase
<1> QED
  BY <1>2, <1>3, TypeInit DEF CreatedInv

LEMMA CreatedInvImpliesCreatedIsThere == CreatedInv => CreatedIsThere
<1> SUFFICES ASSUME CreatedInv
             PROVE  CreatedIsThere
  OBVIOUS
<1>1. TypeInv
  BY DEF CreatedInv
<1>2. \A db : Twice(db) => CreatedTwice(db)
  <2>1. DOMAIN names = 1 .. Len(names)
    BY <1>1, LenProperties DEF TypeInv, ServerTyped
  <2> QED
    BY <2>1 DEF Twice, CreatedTwice, FilterEqual
<1>3. ASSUME NEW p \in Program, answer[p] # NoAnswer, answer[p].kind = "success"
      PROVE  \/ answer[p].db \in complete
             \/ CreatedTwice(answer[p].db) /\ (base.pc = "tables" \/ restarts > 0)
  <2>1. answer[p].db \in Db \cup {BaseDb}
    BY <1>1, <1>3 DEF TypeInv, ClientsTyped, Stmt
  <2>2. Told(answer[p].db)
    BY <1>3 DEF Told, SaysCreated
  <2>3. Kept(answer[p].db)
    BY <2>1, <2>2 DEF CreatedInv
  <2> QED
    BY <1>2, <2>3 DEF Kept
<1> QED
  BY <1>3 DEF CreatedIsThere, CreatedInv

(* The database of whoever is told that it was created is there, and stays *)
(* there, unless it is created a second time; and a server that serves has *)
(* its base_db. Users must not name a database base_db: nothing but the    *)
(* lookup of names, which may miss it, keeps them from creating it over    *)
(* itself.                                                                 *)
THEOREM CreatedKept ==
  ASSUME BaseDb \notin Db
  PROVE  Spec => []CreatedIsThere
<1>1. Init => CreatedInv
  BY CreatedInit
<1>2. CreatedInv /\ [Next]_vars => CreatedInv'
  BY CreatedNext
<1>3. CreatedInv => CreatedIsThere
  BY CreatedInvImpliesCreatedIsThere
<1> QED
  BY <1>1, <1>2, <1>3, PTL DEF Spec
-----------------------------------------------------------------------------
(* A client has one statement under way at most, whatever form it takes:   *)
(* in a queue, with a worker that has not yet passed it on, or with the    *)
(* base-db thread. (A worker that awaits the base-db thread's answer has   *)
(* passed it on.)                                                          *)
Same(u, id) == IF u = id THEN 1 ELSE 0

Under(q, id) == Len(q[id]) + Len(q[id + 1])

WorkingIn(x, id) == {s \in 1 .. Len(x) : x[s].queue = id /\ x[s].pc \in {"work", "forward"}}

Created(id) == IF Creating /\ base.queue = id THEN 1 ELSE 0

Tokens(id) ==
  Under(worker_queue, id) + Under(base_queue, id) + Created(id)
  + Cardinality(WorkingIn(sessions, id))

(* It is the client's last one.                                            *)
Newest(id, n) ==
  /\ \A m \in Of(worker_queue, id) \cup Of(base_queue, id) : m.n = n
  /\ Creating /\ base.queue = id => base.job.n = n
  /\ \A s \in WorkingIn(sessions, id) : sessions[s].job.n = n

Answered(p) == answer[p].by = p /\ answer[p].client = Client(p) /\ answer[p].n = sent[p]

MailOf(p, id, n) ==
  /\ Tokens(id) <= 1
  /\ program[p] # "asked" => Tokens(id) = 0
  /\ Newest(id, n)
  /\ program[p] \in {"called", "waiting"} => n = 0
  /\ program[p] = "ready" /\ n > 0 => Answered(p)

MailInv ==
  /\ OriginInv
  /\ \A p \in Program : Exclusive(p) /\ Active(p) =>
       \A id \in Id, n \in 0 .. MaxStatements :
         id = QueueId(p) /\ n = sent[p] => MailOf(p, id, n)

LEMMA UnderProperties ==
  ASSUME NEW q, NEW Msg, Carries(q, Msg), NEW u \in Id
  PROVE  /\ Under(q, u) \in Nat
         /\ Under(q, u) = 0 => Of(q, u) = {}
         /\ Of(q, u) = {} => Under(q, u) = 0
<1>1. q[u] \in Seq(Msg[u]) /\ q[u + 1] \in Seq(Msg[u + 1])
  BY IdProperties DEF Carries
<1>2. Len(q[u]) \in Nat /\ Len(q[u + 1]) \in Nat
  BY <1>1, LenProperties
<1>3. ASSUME NEW s, Len(s) \in Nat
      PROVE  Len(s) = 0 <=> Messages(s) = {}
  <2>1. CASE Len(s) = 0
    BY <2>1 DEF Messages
  <2>2. CASE Len(s) # 0
    <3>1. s[1] \in Messages(s)
      BY <1>3, <2>2 DEF Messages
    <3> QED
      BY <2>2, <3>1
  <2> QED
    BY <2>1, <2>2
<1>4. /\ Len(q[u]) = 0 <=> Messages(q[u]) = {}
      /\ Len(q[u + 1]) = 0 <=> Messages(q[u + 1]) = {}
  BY <1>2, <1>3
<1>5. PICK a \in Nat, b \in Nat : a = Len(q[u]) /\ b = Len(q[u + 1])
  BY <1>2
<1>6. Under(q, u) = a + b
  BY <1>5 DEF Under
<1>7. Of(q, u) = Messages(q[u]) \cup Messages(q[u + 1])
  BY DEF Of
<1>8. a + b = 0 <=> a = 0 /\ b = 0
  OBVIOUS
<1>9. Of(q, u) = {} <=> Messages(q[u]) = {} /\ Messages(q[u + 1]) = {}
  BY <1>7
<1>10. Under(q, u) = 0 <=> Of(q, u) = {}
  BY <1>4, <1>5, <1>6, <1>8, <1>9
<1>11. Under(q, u) \in Nat
  BY <1>6
<1> QED
  BY <1>10, <1>11

(* What is sent is one more message under way for its queue id, and what  *)
(* is received one less.                                                  *)
LEMMA SendUnder ==
  ASSUME NEW q, NEW Msg, Carries(q, Msg), NEW id \in Id, NEW t \in {id, id + 1},
         NEW m \in Msg[t], NEW u \in Id
  PROVE  Under(Send(q, t, m), u) = Under(q, u) + Same(u, id)
<1>1. PICK s : s = Send(q, t, m)
  OBVIOUS
<1>2. /\ id \in Type /\ id + 1 \in Type /\ u \in Type /\ u + 1 \in Type /\ t \in Type
      /\ id + 1 # id
  BY IdProperties
<1>3. s[t] = Append(q[t], m) /\ \A v \in Type : v # t => s[v] = q[v]
  BY <1>1, <1>2 DEF Send, Carries
<1>4. q[t] \in Seq(Msg[t])
  BY <1>2 DEF Carries
<1>5. Len(s[t]) = Len(q[t]) + 1
  BY <1>3, <1>4, AppendProperties
<1>6. q[u] \in Seq(Msg[u]) /\ q[u + 1] \in Seq(Msg[u + 1])
  BY <1>2 DEF Carries
<1>7. Len(q[u]) \in Nat /\ Len(q[u + 1]) \in Nat
  BY <1>6, LenProperties
<1>8. Under(s, u) = Len(s[u]) + Len(s[u + 1]) /\ Under(q, u) = Len(q[u]) + Len(q[u + 1])
  BY DEF Under
<1>9. Len(s[u]) + Len(s[u + 1]) = Len(q[u]) + Len(q[u + 1]) + Same(u, id)
  <2>1. CASE u = id /\ t = id
    <3>1. Len(s[u]) = Len(q[u]) + 1 /\ s[u + 1] = q[u + 1] /\ Same(u, id) = 1
      BY <1>2, <1>3, <1>5, <2>1 DEF Same
    <3>2. PICK a \in Nat, b \in Nat : a = Len(q[u]) /\ b = Len(q[u + 1])
      BY <1>7
    <3>3. Len(s[u]) = a + 1 /\ Len(s[u + 1]) = b
      BY <3>1, <3>2
    <3>4. (a + 1) + b = a + b + 1
      OBVIOUS
    <3> QED
      BY <3>1, <3>2, <3>3, <3>4
  <2>2. CASE u = id /\ t = id + 1
    <3>1. Len(s[u + 1]) = Len(q[u + 1]) + 1 /\ s[u] = q[u] /\ Same(u, id) = 1
      BY <1>2, <1>3, <1>5, <2>2 DEF Same
    <3>2. PICK a \in Nat, b \in Nat : a = Len(q[u]) /\ b = Len(q[u + 1])
      BY <1>7
    <3>3. Len(s[u]) = a /\ Len(s[u + 1]) = b + 1
      BY <3>1, <3>2
    <3>4. a + (b + 1) = a + b + 1
      OBVIOUS
    <3> QED
      BY <3>1, <3>2, <3>3, <3>4
  <2>3. CASE u # id
    <3>1. s[u] = q[u] /\ s[u + 1] = q[u + 1] /\ Same(u, id) = 0
      BY <1>2, <1>3, <2>3, OtherIds DEF Same
    <3> QED
      BY <1>7, <3>1
  <2> QED
    BY <2>1, <2>2, <2>3
<1>10. Under(s, u) = Under(q, u) + Same(u, id)
  BY <1>8, <1>9
<1> QED
  BY <1>1, <1>10

LEMMA ReceiveUnder ==
  ASSUME NEW q, NEW Msg, Carries(q, Msg), NEW id \in Id, NEW t \in {id, id + 1},
         Arrived(q, t), NEW u \in Id
  PROVE  Under(q, u) = Under(Receive(q, t), u) + Same(u, id)
<1>1. PICK s : s = Receive(q, t)
  OBVIOUS
<1>2. /\ id \in Type /\ id + 1 \in Type /\ u \in Type /\ u + 1 \in Type /\ t \in Type
      /\ id + 1 # id
  BY IdProperties
<1>3. s[t] = Tail(q[t]) /\ \A v \in Type : v # t => s[v] = q[v]
  BY <1>1, <1>2 DEF Receive, Carries
<1>4. q[t] \in Seq(Msg[t]) /\ q[t] # <<>>
  BY <1>2 DEF Carries, Arrived
<1>5. Len(q[t]) = Len(s[t]) + 1
  <2>1. Len(q[t]) \in Nat /\ Len(q[t]) > 0 /\ Len(Tail(q[t])) = Len(q[t]) - 1
    BY <1>4, HeadTailProperties, EmptySeq, LenProperties
  <2> QED
    BY <1>3, <2>1
<1>6. q[u] \in Seq(Msg[u]) /\ q[u + 1] \in Seq(Msg[u + 1])
  BY <1>2 DEF Carries
<1>7. Len(q[u]) \in Nat /\ Len(q[u + 1]) \in Nat
  BY <1>6, LenProperties
<1>8. Tail(q[t]) \in Seq(Msg[t])
  BY <1>4, HeadTailProperties
<1>9. Len(s[t]) \in Nat
  BY <1>3, <1>8, LenProperties
<1>10. Under(s, u) = Len(s[u]) + Len(s[u + 1]) /\ Under(q, u) = Len(q[u]) + Len(q[u + 1])
  BY DEF Under
<1>11. Len(q[u]) + Len(q[u + 1]) = Len(s[u]) + Len(s[u + 1]) + Same(u, id)
  <2>1. CASE u = id /\ t = id
    <3>1. Len(q[u]) = Len(s[u]) + 1 /\ s[u + 1] = q[u + 1] /\ Same(u, id) = 1 /\ Len(s[u]) \in Nat
      BY <1>2, <1>3, <1>5, <1>9, <2>1 DEF Same
    <3>2. PICK a \in Nat, b \in Nat : a = Len(s[u]) /\ b = Len(s[u + 1])
      BY <1>7, <3>1
    <3>3. Len(q[u]) = a + 1 /\ Len(q[u + 1]) = b
      BY <3>1, <3>2
    <3>4. (a + 1) + b = a + b + 1
      OBVIOUS
    <3> QED
      BY <3>1, <3>2, <3>3, <3>4
  <2>2. CASE u = id /\ t = id + 1
    <3>1. /\ Len(q[u + 1]) = Len(s[u + 1]) + 1 /\ s[u] = q[u] /\ Same(u, id) = 1
          /\ Len(s[u + 1]) \in Nat
      BY <1>2, <1>3, <1>5, <1>9, <2>2 DEF Same
    <3>2. PICK a \in Nat, b \in Nat : a = Len(s[u]) /\ b = Len(s[u + 1])
      BY <1>7, <3>1
    <3>3. Len(q[u]) = a /\ Len(q[u + 1]) = b + 1
      BY <3>1, <3>2
    <3>4. a + (b + 1) = a + b + 1
      OBVIOUS
    <3> QED
      BY <3>1, <3>2, <3>3, <3>4
  <2>3. CASE u # id
    <3>1. s[u] = q[u] /\ s[u + 1] = q[u + 1] /\ Same(u, id) = 0
      BY <1>2, <1>3, <2>3, OtherIds DEF Same
    <3> QED
      BY <1>7, <3>1
  <2> QED
    BY <2>1, <2>2, <2>3
<1>12. Under(q, u) = Under(s, u) + Same(u, id)
  BY <1>10, <1>11
<1> QED
  BY <1>1, <1>12

LEMMA AnnounceUnder ==
  ASSUME NEW q, NEW Msg, Carries(q, Msg), NEW t \in {PublicType, BaseType}, NEW u \in Id
  PROVE  /\ \A m : Under(Send(q, t, m), u) = Under(q, u)
         /\ Under(Receive(q, t), u) = Under(q, u)
<1>1. u \in Type /\ u + 1 \in Type /\ u # t /\ u + 1 # t
  BY IdProperties
<1> QED
  BY <1>1 DEF Under, Send, Receive, Carries

(* The workers that have a statement of a queue id.                        *)
LEMMA CardinalityOfRest ==
  ASSUME NEW S, IsFiniteSet(S), NEW i
  PROVE  /\ IsFiniteSet(S \ {i})
         /\ Cardinality(S) \in Nat /\ Cardinality(S \ {i}) \in Nat
         /\ Cardinality(S) = Cardinality(S \ {i}) + (IF i \in S THEN 1 ELSE 0)
<1>1. IsFiniteSet(S \ {i})
  BY FS_Subset
<1>2. Cardinality(S) \in Nat /\ Cardinality(S \ {i}) \in Nat
  BY <1>1, FS_CardinalityType
<1>3. CASE i \in S
  <2>1. Cardinality(S \ {i}) = Cardinality(S) - 1
    BY <1>3, FS_RemoveElement
  <2> QED
    BY <1>1, <1>2, <1>3, <2>1
<1>4. CASE i \notin S
  <2>1. S \ {i} = S
    BY <1>4
  <2>2. PICK n \in Nat : n = Cardinality(S) /\ n = Cardinality(S \ {i})
    BY <1>2, <2>1
  <2>3. n = n + (IF i \in S THEN 1 ELSE 0)
    BY <1>4
  <2> QED
    BY <1>1, <1>2, <2>2, <2>3
<1> QED
  BY <1>3, <1>4

Works(x, id) == x.queue = id /\ x.pc \in {"work", "forward"}

LEMMA WorkingFinite ==
  ASSUME NEW x \in Seq(Session), NEW id
  PROVE  IsFiniteSet(WorkingIn(x, id)) /\ Cardinality(WorkingIn(x, id)) \in Nat
<1>1. Len(x) \in Nat
  BY LenProperties
<1>2. IsFiniteSet(1 .. Len(x))
  BY <1>1, FS_Interval
<1>3. WorkingIn(x, id) \subseteq 1 .. Len(x)
  BY DEF WorkingIn
<1>4. IsFiniteSet(WorkingIn(x, id))
  BY <1>2, <1>3, FS_Subset
<1> QED
  BY <1>4, FS_CardinalityType

LEMMA WorkingChange ==
  ASSUME NEW x \in Seq(Session), NEW i \in 1 .. Len(x), NEW r \in Session, NEW id
  PROVE  LET y == [x EXCEPT ![i] = r]
         IN  Cardinality(WorkingIn(y, id)) + (IF Works(x[i], id) THEN 1 ELSE 0)
               = Cardinality(WorkingIn(x, id)) + (IF Works(r, id) THEN 1 ELSE 0)
<1>1. PICK y : y = [x EXCEPT ![i] = r]
  OBVIOUS
<1>2. y \in Seq(Session) /\ Len(y) = Len(x) /\ \A j \in 1 .. Len(x) : y[j] = IF j = i THEN r ELSE x[j]
  BY <1>1, ExceptSeq
<1>3. PICK S : S = WorkingIn(x, id)
  OBVIOUS
<1>4. PICK T : T = WorkingIn(y, id)
  OBVIOUS
<1>5. IsFiniteSet(S) /\ IsFiniteSet(T)
  BY <1>2, <1>3, <1>4, WorkingFinite
<1>6. S \ {i} = T \ {i}
  BY <1>2, <1>3, <1>4 DEF WorkingIn
<1>7. (i \in S <=> Works(x[i], id)) /\ (i \in T <=> Works(r, id))
  BY <1>2, <1>3, <1>4 DEF WorkingIn, Works
<1>8. /\ Cardinality(S) = Cardinality(S \ {i}) + (IF i \in S THEN 1 ELSE 0)
      /\ Cardinality(S \ {i}) \in Nat
  BY <1>5, CardinalityOfRest
<1>9. Cardinality(T) = Cardinality(T \ {i}) + (IF i \in T THEN 1 ELSE 0)
  BY <1>5, CardinalityOfRest
<1>10. PICK n \in Nat : n = Cardinality(S \ {i}) /\ n = Cardinality(T \ {i})
  BY <1>6, <1>8
<1>11. /\ Cardinality(S) = n + (IF Works(x[i], id) THEN 1 ELSE 0)
       /\ Cardinality(T) = n + (IF Works(r, id) THEN 1 ELSE 0)
  BY <1>7, <1>8, <1>9, <1>10
<1>12. Cardinality(T) + (IF Works(x[i], id) THEN 1 ELSE 0)
         = Cardinality(S) + (IF Works(r, id) THEN 1 ELSE 0)
  BY <1>11
<1> QED
  BY <1>1, <1>3, <1>4, <1>12

(* The numbers a client's statements under way add up from.                *)
LEMMA TokensAdd ==
  ASSUME TypeInv, TypeInv', NEW u \in Id
  PROVE  /\ Under(worker_queue, u) \in Nat /\ Under(worker_queue', u) \in Nat
         /\ Under(base_queue, u) \in Nat /\ Under(base_queue', u) \in Nat
         /\ Created(u) \in Nat /\ Created(u)' \in Nat
         /\ Cardinality(WorkingIn(sessions, u)) \in Nat
         /\ Cardinality(WorkingIn(sessions', u)) \in Nat
         /\ Tokens(u) = Under(worker_queue, u) + Under(base_queue, u) + Created(u)
                        + Cardinality(WorkingIn(sessions, u))
         /\ Tokens(u)' = Under(worker_queue', u) + Under(base_queue', u) + Created(u)'
                         + Cardinality(WorkingIn(sessions', u))
<1>1. /\ Carries(worker_queue, WorkerMsg) /\ Carries(worker_queue', WorkerMsg)
      /\ Carries(base_queue, BaseMsg) /\ Carries(base_queue', BaseMsg)
  BY DEF TypeInv, QueuesTyped, Carries
<1>2. sessions \in Seq(Session) /\ sessions' \in Seq(Session)
  BY DEF TypeInv, SessionsTyped
<1>3. /\ Under(worker_queue, u) \in Nat /\ Under(worker_queue', u) \in Nat
      /\ Under(base_queue, u) \in Nat /\ Under(base_queue', u) \in Nat
  BY <1>1, UnderProperties
<1>4. /\ Cardinality(WorkingIn(sessions, u)) \in Nat
      /\ Cardinality(WorkingIn(sessions', u)) \in Nat
  BY <1>2, WorkingFinite
<1>5. Created(u) \in Nat /\ Created(u)' \in Nat
  BY DEF Created
<1>6. /\ Tokens(u) = Under(worker_queue, u) + Under(base_queue, u) + Created(u)
                     + Cardinality(WorkingIn(sessions, u))
      /\ Tokens(u)' = Under(worker_queue', u) + Under(base_queue', u) + Created(u)'
                      + Cardinality(WorkingIn(sessions', u))
  BY DEF Tokens
<1> QED
  BY <1>3, <1>4, <1>5, <1>6

LEMMA WorkerMoves ==
  ASSUME TypeInv, NEW s \in DOMAIN sessions, SessionStep(s), NEW u \in Id
  PROVE  LET from == sessions[s].pc \in {"work", "forward"}
             to == sessions'[s].pc \in {"work", "forward"}
         IN  /\ (from <=> to) => Cardinality(WorkingIn(sessions', u)) = Cardinality(WorkingIn(sessions, u))
             /\ from /\ ~to =>
                  Cardinality(WorkingIn(sessions, u))
                    = Cardinality(WorkingIn(sessions', u)) + Same(u, sessions[s].queue)
             /\ to /\ ~from =>
                  Cardinality(WorkingIn(sessions', u))
                    = Cardinality(WorkingIn(sessions, u)) + Same(u, sessions[s].queue)
<1>1. PICK r \in Session : sessions' = [sessions EXCEPT ![s] = r] /\ r.queue = sessions[s].queue
  BY SessionsChange
<1>2. s \in 1 .. Len(sessions) /\ sessions \in Seq(Session)
  BY JobTyped DEF TypeInv, SessionsTyped
<1>3. sessions' \in Seq(Session) /\ sessions'[s] = r
  BY <1>1, <1>2, ExceptSeq
<1>4. PICK k \in Nat, l \in Nat : /\ k = Cardinality(WorkingIn(sessions, u))
                                  /\ l = Cardinality(WorkingIn(sessions', u))
  BY <1>2, <1>3, WorkingFinite
<1>5. l + (IF Works(sessions[s], u) THEN 1 ELSE 0) = k + (IF Works(r, u) THEN 1 ELSE 0)
  BY <1>1, <1>2, <1>4, WorkingChange
<1>6. CASE sessions[s].queue = u
  <2>1. Same(u, sessions[s].queue) = 1
    BY <1>6 DEF Same
  <2>2. /\ Works(sessions[s], u) <=> sessions[s].pc \in {"work", "forward"}
        /\ Works(r, u) <=> r.pc \in {"work", "forward"}
    BY <1>1, <1>6 DEF Works
  <2> QED
    BY <1>3, <1>4, <1>5, <2>1, <2>2
<1>7. CASE sessions[s].queue # u
  <2>1. Same(u, sessions[s].queue) = 0
    BY <1>7 DEF Same
  <2>2. ~Works(sessions[s], u) /\ ~Works(r, u)
    BY <1>1, <1>7 DEF Works
  <2>3. l = k
    BY <1>5, <2>2
  <2>4. k = k + 0
    OBVIOUS
  <2> QED
    BY <1>4, <2>1, <2>3, <2>4
<1> QED
  BY <1>6, <1>7

(* A worker passes a statement on, ...                                     *)
LEMMA SessionTokens ==
  ASSUME TypeInv, TypeInv', NEW s \in DOMAIN sessions, SessionStep(s), NEW u \in Id
  PROVE  Tokens(u)' = Tokens(u)
<1>1. Carries(worker_queue, WorkerMsg) /\ Carries(base_queue, BaseMsg)
  BY DEF TypeInv, QueuesTyped
<1>2. PICK id \in Id : id = sessions[s].queue
  BY JobTyped
<1>3. id + 1 \in Type /\ id \in Type /\ ReplyTo(id) = id + 1
  BY IdProperties
<1>4. sessions \in Seq(Session) /\ s \in 1 .. Len(sessions) /\ sessions[s] \in Session
  BY JobTyped DEF TypeInv, SessionsTyped
<1>5. Created(u)' = Created(u)
  BY SessionFrame DEF Created, Creating
<1>6. PICK w \in Nat, w2 \in Nat, b \in Nat, b2 \in Nat, c \in Nat, k \in Nat, k2 \in Nat, e \in Nat :
        /\ w = Under(worker_queue, u) /\ w2 = Under(worker_queue', u)
        /\ b = Under(base_queue, u) /\ b2 = Under(base_queue', u)
        /\ c = Created(u)
        /\ k = Cardinality(WorkingIn(sessions, u)) /\ k2 = Cardinality(WorkingIn(sessions', u))
        /\ e = Same(u, id)
  BY TokensAdd DEF Same
<1>7. Tokens(u) = w + b + c + k /\ Tokens(u)' = w2 + b2 + c + k2
  BY <1>5, <1>6, TokensAdd
<1>8. /\ (sessions[s].pc \in {"work", "forward"} <=> sessions'[s].pc \in {"work", "forward"}) => k2 = k
      /\ sessions[s].pc \in {"work", "forward"} /\ sessions'[s].pc \notin {"work", "forward"} => k = k2 + e
      /\ sessions'[s].pc \in {"work", "forward"} /\ sessions[s].pc \notin {"work", "forward"} => k2 = k + e
  BY <1>2, <1>6, WorkerMoves
<1>9. CASE StartWorker(s)
  <2>1. UNCHANGED <<worker_queue, base_queue>> /\ sessions[s].pc = "starting" /\ sessions'[s].pc = "listen"
    BY <1>4, <1>9 DEF StartWorker, Listens, queues, Session
  <2> QED
    BY <1>6, <1>7, <1>8, <2>1
<1>10. CASE ReceiveSql(s)
  <2>1. sessions[s].pc = "listen" /\ sessions'[s].pc = "work" /\ UNCHANGED base_queue
    BY <1>4, <1>10 DEF ReceiveSql, Listens, Session
  <2>2. Arrived(worker_queue, id) /\ worker_queue' = Receive(worker_queue, id)
    BY <1>2, <1>10 DEF ReceiveSql
  <2>3. w = w2 + e
    BY <1>1, <1>6, <2>2, ReceiveUnder
  <2> QED
    BY <1>6, <1>7, <1>8, <2>1, <2>3
<1>11. ASSUME NEW r \in Stmt(Answers), worker_queue' = Send(worker_queue, id + 1, r)
       PROVE  w2 = w + e
  <2>1. r \in WorkerMsg[id + 1]
    BY <1>11, MsgProperties
  <2> QED
    BY <1>1, <1>6, <1>11, <2>1, SendUnder
<1>12. CASE UserWork(s) \/ RefuseWork(s)
  <2>1. sessions[s].pc = "work" /\ sessions'[s].pc = "listen" /\ UNCHANGED base_queue
    BY <1>4, <1>12 DEF UserWork, RefuseWork, SendBack, Listens, Session
  <2>2. PICK kind \in {"result", "failure"} : SendBack(s, sessions[s].job, kind)
    BY <1>12 DEF UserWork, RefuseWork
  <2>3. sessions[s].job \in Stmt(Asks)
    BY <2>1, JobTyped DEF Busy, Ask
  <2>4. [sessions[s].job EXCEPT !.kind = kind] \in Stmt(Answers)
    BY <2>3, NewStmt DEF Answers
  <2>5. worker_queue' = Send(worker_queue, id + 1, [sessions[s].job EXCEPT !.kind = kind])
    BY <1>2, <1>3, <2>2 DEF SendBack
  <2>6. w2 = w + e
    BY <1>11, <2>4, <2>5
  <2> QED
    BY <1>6, <1>7, <1>8, <2>1, <2>6
<1>13. CASE ForwardQueueId(s)
  <2>1. sessions[s].pc = "work" /\ sessions'[s].pc = "forward" /\ UNCHANGED worker_queue
    BY <1>4, <1>13 DEF ForwardQueueId, Listens, Session
  <2>2. base_queue' = Send(base_queue, BaseType, ForwardedId(s))
    BY <1>13 DEF ForwardQueueId
  <2>3. b2 = b
    BY <1>1, <1>6, <2>2, AnnounceUnder
  <2> QED
    BY <1>6, <1>7, <1>8, <2>1, <2>3
<1>14. CASE ForwardName(s)
  <2>1. sessions[s].pc = "forward" /\ sessions'[s].pc = "await" /\ UNCHANGED worker_queue
    BY <1>4, <1>14 DEF ForwardName, Listens, Session
  <2>2. base_queue' = Send(base_queue, id, sessions[s].job)
    BY <1>2, <1>14 DEF ForwardName
  <2>3. sessions[s].job \in Ask /\ sessions[s].job.kind = "create"
    BY <1>4, <2>1 DEF TypeInv, SessionsTyped, Busy
  <2>4. sessions[s].job \in BaseMsg[id]
    BY <2>3, MsgProperties DEF Ask, Request, Stmt
  <2>5. b2 = b + e
    BY <1>1, <1>6, <2>2, <2>4, SendUnder
  <2> QED
    BY <1>6, <1>7, <1>8, <2>1, <2>5
<1>15. CASE ReturnOutcome(s)
  <2>1. sessions[s].pc = "await" /\ sessions'[s].pc = "listen"
    BY <1>4, <1>15 DEF ReturnOutcome, SendBack, Listens, Session
  <2>2. PICK r : r = Head(base_queue[id + 1])
    OBVIOUS
  <2>3. /\ Arrived(base_queue, id + 1) /\ SendBack(s, r, r.kind)
        /\ base_queue' = Receive(base_queue, id + 1)
    BY <1>2, <1>3, <1>15, <2>2 DEF ReturnOutcome
  <2>4. r \in BaseMsg[id + 1]
    BY <1>1, <1>3, <2>2, <2>3, ReceiveProperties
  <2>5. r \in Stmt({"success", "failure"})
    BY <2>4, MsgProperties
  <2>6. [r EXCEPT !.kind = r.kind] = r /\ r \in Stmt(Answers)
    BY <2>5 DEF Stmt, Answers
  <2>7. worker_queue' = Send(worker_queue, id + 1, r)
    BY <1>2, <1>3, <2>3, <2>6 DEF SendBack
  <2>8. w2 = w + e
    BY <1>11, <2>6, <2>7
  <2>9. b = b2 + e
    BY <1>1, <1>6, <2>3, ReceiveUnder
  <2> QED
    BY <1>6, <1>7, <1>8, <2>1, <2>8, <2>9
<1> QED
  BY <1>9, <1>10, <1>12, <1>13, <1>14, <1>15 DEF SessionStep

(* ... as does the base-db thread.                                         *)
LEMMA BaseTokens ==
  ASSUME TypeInv, TypeInv', BaseStep, NEW u \in Id
  PROVE  Tokens(u)' = Tokens(u)
<1>1. Carries(base_queue, BaseMsg)
  BY DEF TypeInv, QueuesTyped
<1>2. UNCHANGED <<worker_queue, sessions>>
  BY BaseFrame
<1>3. PICK w \in Nat, b \in Nat, b2 \in Nat, c \in Nat, c2 \in Nat, k \in Nat, e \in Nat :
        /\ w = Under(worker_queue, u)
        /\ b = Under(base_queue, u) /\ b2 = Under(base_queue', u)
        /\ c = Created(u) /\ c2 = Created(u)'
        /\ k = Cardinality(WorkingIn(sessions, u))
        /\ e = Same(u, base.queue)
  BY TokensAdd DEF Same
<1>4. Tokens(u) = w + b + c + k /\ Tokens(u)' = w + b2 + c2 + k
  BY <1>2, <1>3, TokensAdd
<1>5. base = [pc |-> base.pc, queue |-> base.queue, job |-> base.job]
  BY DEF TypeInv, BaseTyped
<1>6. CASE StartBase \/ ReceiveCommand
  <2>1. ~Creating /\ ~Creating'
    BY <1>5, <1>6 DEF StartBase, ReceiveCommand, Creating, Listens
  <2>2. c = 0 /\ c2 = 0
    BY <1>3, <2>1 DEF Created
  <2>3. b2 = b
    <3>1. StartBase => UNCHANGED base_queue
      BY DEF StartBase, queues
    <3>2. ReceiveCommand => base_queue' = Receive(base_queue, BaseType)
      BY DEF ReceiveCommand
    <3> QED
      BY <1>1, <1>3, <1>6, <3>1, <3>2, AnnounceUnder
  <2> QED
    BY <1>4, <2>2, <2>3
<1>7. CASE ReceiveRequest
  <2>1. base.queue \in Id
    BY <1>7 DEF ReceiveRequest, Listens, TypeInv, BaseTyped
  <2>2. /\ Arrived(base_queue, base.queue) /\ base_queue' = Receive(base_queue, base.queue)
        /\ base.pc = "request" /\ base'.pc = "create" /\ base'.queue = base.queue
    BY <1>5, <1>7 DEF ReceiveRequest, RequestFrom, Listens
  <2>3. b = b2 + e
    BY <1>1, <1>3, <2>1, <2>2, ReceiveUnder
  <2>4. c = 0 /\ c2 = e
    BY <1>3, <2>2 DEF Created, Creating, Same
  <2> QED
    BY <1>4, <2>3, <2>4
<1>8. CASE DatabaseExists \/ CreateFiles
  <2>1. PICK kind \in {"success", "failure"} : Outcome(kind) /\ Creating
    BY <1>8 DEF DatabaseExists, CreateFiles, Listens, Creating
  <2>2. base.queue \in Id /\ base.job \in Request
    BY <2>1 DEF TypeInv, BaseTyped, Creating
  <2>3. PICK r : r = [base.job EXCEPT !.kind = kind]
    OBVIOUS
  <2>4. base_queue' = Send(base_queue, base.queue + 1, r)
    BY <2>1, <2>2, <2>3, IdProperties DEF Outcome
  <2>5. r \in BaseMsg[base.queue + 1]
    BY <2>2, <2>3, NewStmt, MsgProperties DEF Request
  <2>6. b2 = b + e
    BY <1>1, <1>3, <2>2, <2>4, <2>5, SendUnder
  <2>7. base'.pc = "command"
    BY <2>1 DEF Outcome, NewBase
  <2>8. c = e /\ c2 = 0
    BY <1>3, <2>1, <2>7 DEF Created, Creating, Same
  <2> QED
    BY <1>4, <2>6, <2>8
<1>9. CASE InsertName \/ WriteDBFile
  <2>1. /\ UNCHANGED base_queue
        /\ Creating /\ Creating' /\ base'.queue = base.queue
    BY <1>5, <1>9 DEF InsertName, WriteDBFile, Creating, Listens, queues
  <2>2. c2 = c
    BY <1>3, <2>1 DEF Created
  <2> QED
    BY <1>3, <1>4, <2>1, <2>2
<1> QED
  BY <1>6, <1>7, <1>8, <1>9 DEF BaseStep

(* A statement is under way from when its client sends it ...              *)
LEMMA SendTokens ==
  ASSUME TypeInv, TypeInv', NEW p \in Program, SendSql(p), NEW u \in Id
  PROVE  Tokens(u)' = Tokens(u) + Same(u, QueueId(p))
<1>1. Carries(worker_queue, WorkerMsg)
  BY DEF TypeInv, QueuesTyped
<1>2. UNCHANGED <<base_queue, base, sessions>>
  BY DEF SendSql
<1>3. PICK w \in Nat, w2 \in Nat, b \in Nat, c \in Nat, k \in Nat, e \in Nat :
        /\ w = Under(worker_queue, u) /\ w2 = Under(worker_queue', u)
        /\ b = Under(base_queue, u) /\ c = Created(u)
        /\ k = Cardinality(WorkingIn(sessions, u)) /\ e = Same(u, QueueId(p))
  BY TokensAdd DEF Same
<1>4. Created(u)' = Created(u)
  BY <1>2 DEF Created, Creating
<1>5. Tokens(u) = w + b + c + k /\ Tokens(u)' = w2 + b + c + k
  BY <1>2, <1>3, <1>4, TokensAdd
<1>6. QueueId(p) \in Id /\ LoginOf(p) \in Login /\ Client(p) \in ClientNumber
  BY ClientProperties DEF TypeInv, ClientsTyped, SendSql, Goes, Active
<1>7. sent[p] + 1 \in 1 .. MaxStatements
  BY BoundAssumption DEF SendSql, TypeInv, ClientsTyped
<1>8. PICK sql \in Sql(p) :
        worker_queue' =
          Send(worker_queue, QueueId(p),
               [by |-> p, client |-> Client(p), n |-> sent[p] + 1,
                kind |-> sql.kind, db |-> sql.db])
  BY DEF SendSql
<1>9. /\ sql.kind \in Asks /\ sql.db \in Db \cup {BaseDb}
      /\ sql.kind = "create" => sql.db \in Db
  BY <1>6, LoginAssumption DEF Sql, Asks
<1>10. PICK r : r = [by |-> p, client |-> Client(p), n |-> sent[p] + 1,
                     kind |-> sql.kind, db |-> sql.db]
  OBVIOUS
<1>11. r \in Ask
  BY <1>6, <1>7, <1>9, <1>10 DEF Ask, Stmt
<1>12. r \in WorkerMsg[QueueId(p)]
  BY <1>6, <1>11, MsgProperties
<1>13. worker_queue' = Send(worker_queue, QueueId(p), r)
  BY <1>8, <1>10
<1>14. w2 = w + e
  BY <1>1, <1>3, <1>6, <1>12, <1>13, SendUnder
<1> QED
  BY <1>3, <1>5, <1>14

(* ... until its client has the answer.                                    *)
LEMMA AnswerTokens ==
  ASSUME TypeInv, TypeInv', NEW p \in Program, ReceiveAnswer(p), NEW u \in Id
  PROVE  Tokens(u) = Tokens(u)' + Same(u, QueueId(p))
<1>1. Carries(worker_queue, WorkerMsg)
  BY DEF TypeInv, QueuesTyped
<1>2. UNCHANGED <<base_queue, base, sessions>>
  BY DEF ReceiveAnswer
<1>3. PICK w \in Nat, w2 \in Nat, b \in Nat, c \in Nat, k \in Nat, e \in Nat :
        /\ w = Under(worker_queue, u) /\ w2 = Under(worker_queue', u)
        /\ b = Under(base_queue, u) /\ c = Created(u)
        /\ k = Cardinality(WorkingIn(sessions, u)) /\ e = Same(u, QueueId(p))
  BY TokensAdd DEF Same
<1>4. Created(u)' = Created(u)
  BY <1>2 DEF Created, Creating
<1>5. Tokens(u) = w + b + c + k /\ Tokens(u)' = w2 + b + c + k
  BY <1>2, <1>3, <1>4, TokensAdd
<1>6. QueueId(p) \in Id
  BY ClientProperties DEF TypeInv, ClientsTyped, ReceiveAnswer, Goes, Active
<1>7. /\ Arrived(worker_queue, QueueId(p) + 1)
      /\ worker_queue' = Receive(worker_queue, QueueId(p) + 1)
  BY <1>6, IdProperties DEF ReceiveAnswer
<1>8. w = w2 + e
  BY <1>1, <1>3, <1>6, <1>7, ReceiveUnder
<1> QED
  BY <1>3, <1>5, <1>8

(* In between, it is passed on, or lost when the server is restarted.      *)
LEMMA OtherTokens ==
  ASSUME TypeInv, TypeInv', [Next]_vars, NEW u \in Id,
         \A p \in Program : ~SendSql(p) /\ ~ReceiveAnswer(p)
  PROVE  Tokens(u)' <= Tokens(u)
<1>1. PICK t \in Nat : t = Tokens(u)
  BY TokensAdd
<1>2. t <= t
  OBVIOUS
<1>3. CASE UNCHANGED <<worker_queue, base_queue, base, sessions>>
  <2>1. Tokens(u)' = Tokens(u)
    BY <1>3 DEF Tokens, Under, Created, Creating
  <2> QED
    BY <1>1, <1>2, <2>1
<1>4. CASE \E p \in Program : ProgramStep(p)
  BY <1>3, <1>4, ProgramFrame
     DEF ProgramStep, BuildClient, SendLogin, ReceiveResult, QuitClient, QuitProgram, Kill, queues
<1>5. CASE Connect
  <2>1. UNCHANGED <<worker_queue, base_queue, base>>
    BY <1>5, ConnectorFrame
  <2>2. CASE UNCHANGED sessions
    BY <1>3, <2>1, <2>2
  <2>3. CASE sessions' = Append(sessions, NewSession(connector.msg.login))
    <3>1. PICK r \in Session : r = NewSession(connector.msg.login) /\ r.pc = "starting"
      BY <1>5, NewSessionTyped DEF Connect, Listens
    <3>2. sessions \in Seq(Session) /\ Len(sessions) \in Nat
      BY LenProperties DEF TypeInv, SessionsTyped
    <3>3. /\ Len(sessions') = Len(sessions) + 1
          /\ sessions'[Len(sessions) + 1] = r
          /\ \A i \in 1 .. Len(sessions) : sessions'[i] = sessions[i]
      BY <2>3, <3>1, <3>2, AppendProperties
    <3>4. WorkingIn(sessions', u) = WorkingIn(sessions, u)
      <4>1. \A i : i \in 1 .. Len(sessions') <=> i \in 1 .. Len(sessions) \/ i = Len(sessions) + 1
        BY <3>2, <3>3
      <4> QED
        BY <3>1, <3>3, <4>1 DEF WorkingIn
    <3>5. Under(worker_queue', u) = Under(worker_queue, u) /\ Under(base_queue', u) = Under(base_queue, u)
      BY <2>1
    <3>6. Created(u)' = Created(u)
      BY <2>1 DEF Created, Creating
    <3>7. Tokens(u)' = Tokens(u)
      BY <3>4, <3>5, <3>6, TokensAdd
    <3> QED
      BY <1>1, <1>2, <3>7
  <2> QED
    BY <1>5, <2>2, <2>3 DEF Connect
<1>6. CASE ReceiveCall \/ ReceiveLogin
  BY <1>3, <1>6, ConnectorFrame DEF ReceiveCall, ReceiveLogin
<1>7. CASE OpenIncomplete \/ Overlap \/ StartStep
  BY <1>3, <1>7, StartFrame DEF OpenIncomplete, Overlap, queues
<1>8. ASSUME NEW s \in DOMAIN sessions, SessionStep(s)
      PROVE  Tokens(u)' <= Tokens(u)
  BY <1>1, <1>2, <1>8, SessionTokens
<1>9. CASE BaseStep
  BY <1>1, <1>2, <1>9, BaseTokens
<1>10. CASE Restart
  <2>1. /\ UNCHANGED <<worker_queue, base_queue>>
        /\ base' = NewBase /\ sessions' = <<>>
    BY <1>10 DEF Restart, queues
  <2>2. Created(u)' = 0
    BY <2>1 DEF Created, Creating, NewBase
  <2>3. WorkingIn(sessions', u) = {}
    BY <2>1 DEF WorkingIn
  <2>4. Cardinality(WorkingIn(sessions', u)) = 0
    BY <2>3, FS_EmptySet
  <2>5. PICK w \in Nat, b \in Nat, c \in Nat, k \in Nat :
          /\ w = Under(worker_queue, u) /\ b = Under(base_queue, u) /\ c = Created(u)
          /\ k = Cardinality(WorkingIn(sessions, u))
    BY TokensAdd
  <2>6. Tokens(u) = w + b + c + k
    BY <2>5, TokensAdd
  <2>7. Tokens(u)' = w + b + 0 + 0
    BY <2>1, <2>2, <2>4, <2>5, TokensAdd
  <2> QED
    BY <2>6, <2>7
<1>11. CASE Next
  BY <1>4, <1>5, <1>6, <1>7, <1>8, <1>9, <1>10, <1>11, StepCases
<1>12. CASE UNCHANGED vars
  BY <1>3, <1>12 DEF vars, queues
<1> QED
  BY <1>11, <1>12

(* Nothing is under way, if there is nothing under way.                    *)
Quiet(id) ==
  /\ Of(worker_queue, id) = {} /\ Of(base_queue, id) = {}
  /\ ~(Creating /\ base.queue = id)
  /\ WorkingIn(sessions, id) = {}

LEMMA QuietTokens ==
  ASSUME TypeInv, TypeInv', NEW u \in Id
  PROVE  Quiet(u) <=> Tokens(u) = 0
<1>1. PICK w \in Nat, b \in Nat, c \in Nat, k \in Nat :
        /\ w = Under(worker_queue, u) /\ b = Under(base_queue, u) /\ c = Created(u)
        /\ k = Cardinality(WorkingIn(sessions, u))
  BY TokensAdd
<1>2. Tokens(u) = w + b + c + k
  BY <1>1, TokensAdd
<1>3. Tokens(u) = 0 <=> w = 0 /\ b = 0 /\ c = 0 /\ k = 0
  BY <1>2
<1>4. Carries(worker_queue, WorkerMsg) /\ Carries(base_queue, BaseMsg)
  BY DEF TypeInv, QueuesTyped
<1>5. w = 0 <=> Of(worker_queue, u) = {}
  BY <1>1, <1>4, UnderProperties
<1>6. b = 0 <=> Of(base_queue, u) = {}
  BY <1>1, <1>4, UnderProperties
<1>7. c = 0 <=> ~(Creating /\ base.queue = u)
  BY <1>1 DEF Created
<1>8. k = 0 <=> WorkingIn(sessions, u) = {}
  <2>1. IsFiniteSet(WorkingIn(sessions, u))
    BY WorkingFinite DEF TypeInv, SessionsTyped
  <2> QED
    BY <1>1, <2>1, FS_EmptySet
<1> QED
  BY <1>3, <1>5, <1>6, <1>7, <1>8 DEF Quiet

(* A step adds nothing to what is under way for a queue id but what its    *)
(* client sends.                                                           *)
LEMMA NewestStays ==
  ASSUME TypeInv, TypeInv', [Next]_vars, NEW u \in Id, NEW n, Newest(u, n),
         \A p \in Program : ~(SendSql(p) /\ QueueId(p) = u)
  PROVE  Newest(u, n)'
<1>1. Carries(worker_queue, WorkerMsg) /\ Carries(base_queue, BaseMsg)
  BY DEF TypeInv, QueuesTyped
<1>2. sessions \in Seq(Session) /\ sessions' \in Seq(Session)
  BY DEF TypeInv, SessionsTyped
<1>3. ASSUME NEW s \in DOMAIN sessions, sessions[s].queue = u, sessions[s].pc \in {"work", "forward"}
      PROVE  sessions[s].job.n = n /\ sessions[s].job \in Ask
  <2>1. s \in WorkingIn(sessions, u)
    BY <1>2, <1>3, LenProperties DEF WorkingIn
  <2> QED
    BY <1>3, <2>1, JobTyped DEF Newest, Busy
<1>4. ASSUME NEW m \in Of(worker_queue', u)
      PROVE  m.n = n
  <2>1. ASSUME NEW s \in DOMAIN sessions, u = sessions[s].queue, sessions[s].pc = "work",
               NEW kind, m = [sessions[s].job EXCEPT !.kind = kind]
        PROVE  m.n = n
    BY <1>3, <2>1 DEF Ask, Stmt
  <2> QED
    BY <1>4, <2>1, NewWork DEF Newest
<1>5. ASSUME NEW m \in Of(base_queue', u)
      PROVE  m.n = n
  <2>1. ASSUME NEW s \in DOMAIN sessions, u = sessions[s].queue, ForwardName(s), m = sessions[s].job
        PROVE  m.n = n
    BY <1>3, <2>1 DEF ForwardName, Listens
  <2>2. ASSUME u = base.queue, DatabaseExists \/ CreateFiles,
               NEW kind, m = [base.job EXCEPT !.kind = kind]
        PROVE  m.n = n
    <3>1. Creating
      BY <2>2 DEF DatabaseExists, CreateFiles, Listens, Creating
    <3>2. base.job \in Request
      BY <3>1 DEF TypeInv, BaseTyped
    <3> QED
      BY <2>2, <3>1, <3>2 DEF Newest, Request, Stmt
  <2> QED
    BY <1>5, <2>1, <2>2, NewRequests DEF Newest
<1>6. ASSUME Creating', base'.queue = u
      PROVE  base'.job.n = n
  <2>1. base = [pc |-> base.pc, queue |-> base.queue, job |-> base.job]
    BY DEF TypeInv, BaseTyped
  <2>2. CASE UNCHANGED base
    BY <1>6, <2>2 DEF Newest, Creating
  <2>3. CASE BaseStep
    <3>1. CASE StartBase \/ ReceiveCommand
      BY <1>6, <2>1, <3>1 DEF StartBase, ReceiveCommand, Creating
    <3>2. CASE ReceiveRequest
      <4>1. PICK r : r = Head(base_queue[base.queue])
        OBVIOUS
      <4>2. base'.queue = base.queue /\ base'.job = r /\ Arrived(base_queue, base.queue)
        BY <2>1, <3>2, <4>1 DEF ReceiveRequest, RequestFrom
      <4>3. u \in Type /\ base.queue = u
        BY <1>6, <4>2, IdProperties
      <4>4. r \in Of(base_queue, u)
        BY <1>1, <4>1, <4>2, <4>3, ReceiveOf
      <4> QED
        BY <4>2, <4>4 DEF Newest
    <3>3. CASE DatabaseExists \/ CreateFiles
      BY <1>6, <3>3 DEF DatabaseExists, CreateFiles, Outcome, Creating, NewBase
    <3>4. CASE InsertName \/ WriteDBFile
      <4>1. Creating /\ base'.queue = base.queue /\ base'.job = base.job
        BY <2>1, <3>4 DEF InsertName, WriteDBFile, Creating, Listens
      <4> QED
        BY <1>6, <4>1 DEF Newest
    <3> QED
      BY <2>3, <3>1, <3>2, <3>3, <3>4 DEF BaseStep
  <2>4. CASE Restart
    BY <1>6, <2>4 DEF Restart, NewBase, Creating
  <2> QED
    BY <2>2, <2>3, <2>4, StepCases, ProgramFrame, StartFrame, ConnectorFrame, SessionFrame,
       OtherFrame DEF vars
<1>7. ASSUME NEW s \in WorkingIn(sessions', u)
      PROVE  sessions'[s].job.n = n
  <2>1. s \in 1 .. Len(sessions') /\ sessions'[s].queue = u /\ sessions'[s].pc \in {"work", "forward"}
    BY DEF WorkingIn
  <2>2. CASE UNCHANGED sessions
    <3>1. s \in DOMAIN sessions
      BY <1>2, <2>1, <2>2, LenProperties
    <3> QED
      BY <1>3, <2>1, <2>2, <3>1
  <2>3. ASSUME NEW t \in DOMAIN sessions, SessionStep(t)
        PROVE  sessions'[s].job.n = n
    <3>1. PICK x \in Session :
             /\ sessions' = [sessions EXCEPT ![t] = x] /\ x.queue = sessions[t].queue
             /\ x.pc \in {"work", "forward", "await"} =>
                  \/ ReceiveSql(t) /\ x.job = Head(worker_queue[sessions[t].queue])
                  \/ Busy(t) /\ x.job = sessions[t].job
      BY <2>3, SessionsChange
    <3>2. t \in 1 .. Len(sessions)
      BY JobTyped
    <3>3. /\ Len(sessions') = Len(sessions) /\ \A j \in 1 .. Len(sessions) : sessions'[j] = IF j = t THEN x ELSE sessions[j]
      BY <1>2, <3>1, <3>2, ExceptSeq
    <3>4. s \in 1 .. Len(sessions) /\ s \in DOMAIN sessions
      BY <1>2, <2>1, <3>3, LenProperties
    <3>5. CASE s # t
      BY <1>3, <2>1, <3>3, <3>4, <3>5
    <3>6. CASE s = t
      <4>1. x.queue = u /\ x.pc \in {"work", "forward"} /\ sessions[s].queue = u /\ sessions'[s] = x
        BY <2>1, <3>1, <3>3, <3>4, <3>6
      <4>2. CASE ReceiveSql(t)
        <5>1. PICK r : r = Head(worker_queue[u])
          OBVIOUS
        <5>2. sessions[t] \in Session
          BY JobTyped
        <5>3. Arrived(worker_queue, u) /\ sessions'[t].job = r
          BY <1>2, <3>6, <4>1, <4>2, <5>1, <5>2 DEF ReceiveSql, Session
        <5>4. r \in Of(worker_queue, u)
          BY <1>1, <5>1, <5>3, IdProperties, ReceiveOf
        <5> QED
          BY <3>6, <5>3, <5>4 DEF Newest
      <4>3. CASE ~ReceiveSql(t)
        <5>1. x.job = sessions[t].job
          BY <3>1, <4>1, <4>3
        <5>2. sessions[t].pc = "work"
          <6>1. ~StartWorker(t) /\ ~UserWork(t) /\ ~RefuseWork(t) /\ ~ForwardName(t) /\ ~ReturnOutcome(t)
            BY <1>2, <3>6, <4>1, JobTyped
               DEF StartWorker, UserWork, RefuseWork, ForwardName, ReturnOutcome, SendBack, Session
          <6> QED
            BY <2>3, <4>3, <6>1 DEF SessionStep, ForwardQueueId, Listens
        <5>3. sessions[s].job.n = n
          BY <1>3, <3>4, <3>6, <4>1, <5>2
        <5> QED
          BY <3>6, <4>1, <5>1, <5>3
      <4> QED
        BY <4>2, <4>3
    <3> QED
      BY <3>5, <3>6
  <2>4. CASE Restart
    <3>1. sessions' = <<>>
      BY <2>4 DEF Restart
    <3> QED
      BY <2>1, <3>1
  <2>5. ASSUME Connect, sessions' = Append(sessions, NewSession(connector.msg.login))
        PROVE  sessions'[s].job.n = n
    <3>1. PICK r \in Session : r = NewSession(connector.msg.login) /\ r.pc = "starting"
      BY <2>5, NewSessionTyped DEF Connect, Listens
    <3>2. Len(sessions) \in Nat
      BY <1>2, LenProperties
    <3>3. /\ Len(sessions') = Len(sessions) + 1
          /\ sessions'[Len(sessions) + 1] = r
          /\ \A i \in 1 .. Len(sessions) : sessions'[i] = sessions[i]
      BY <1>2, <2>5, <3>1, AppendProperties
    <3>4. s # Len(sessions) + 1
      BY <2>1, <3>1, <3>3
    <3>5. s \in 1 .. Len(sessions)
      BY <2>1, <3>2, <3>3, <3>4
    <3>6. s \in DOMAIN sessions
      BY <1>2, <3>5, LenProperties
    <3> QED
      BY <1>3, <2>1, <3>3, <3>5, <3>6
  <2>6. ReceiveCall \/ ReceiveLogin => UNCHANGED sessions
    BY DEF ReceiveCall, ReceiveLogin
  <2>7. Connect => UNCHANGED sessions
                   \/ sessions' = Append(sessions, NewSession(connector.msg.login))
    BY DEF Connect
  <2> QED
    BY <2>2, <2>3, <2>4, <2>5, <2>6, <2>7, StepCases, ProgramFrame, StartFrame,
       BaseFrame, OtherFrame DEF vars
<1> QED
  BY <1>4, <1>5, <1>6, <1>7 DEF Newest

(* What changes for a program that has a client, by no step that builds    *)
(* one.                                                                    *)
LEMMA OwnStep ==
  ASSUME TypeInv, [Next]_vars, NEW p \in Program, Active(p)',
         \A login \in Login : ~BuildClient(p, login)
  PROVE  /\ UNCHANGED built[p] /\ Active(p)
         /\ \/ SendLogin(p) \/ ReceiveResult(p) \/ SendSql(p) \/ ReceiveAnswer(p)
            \/ UNCHANGED <<program[p], sent[p], answer[p]>>
<1>1. CASE UNCHANGED clients
  BY <1>1 DEF clients, Active
<1>2. ASSUME NEW q \in Program, q # p, ProgramStep(q)
      PROVE  UNCHANGED <<program[p], built[p], sent[p], answer[p]>>
  <2>1. UNCHANGED program[p]
    BY <1>2, ProgramGoes DEF TypeInv, ClientsTyped
  <2>2. UNCHANGED <<built[p], sent[p], answer[p]>>
    <3>1. ASSUME NEW login \in Login, BuildClient(q, login)
          PROVE  UNCHANGED <<built[p], sent[p], answer[p]>>
      BY <1>2, <3>1, BuildKeeps DEF BuildClient, TypeInv, ClientsTyped
    <3>2. SendSql(q) => UNCHANGED <<built[p], sent[p], answer[p]>>
      BY <1>2 DEF SendSql, TypeInv, ClientsTyped
    <3>3. ReceiveAnswer(q) => UNCHANGED <<built[p], sent[p], answer[p]>>
      BY <1>2 DEF ReceiveAnswer, TypeInv, ClientsTyped
    <3> QED
      BY <1>2, <3>1, <3>2, <3>3 DEF ProgramStep, SendLogin, ReceiveResult, QuitClient,
                                    QuitProgram, Kill
  <2> QED
    BY <2>1, <2>2
<1>3. ASSUME ProgramStep(p)
      PROVE  SendLogin(p) \/ ReceiveResult(p) \/ SendSql(p) \/ ReceiveAnswer(p)
  <2>1. program \in [Program -> {"manager", "called", "waiting", "ready", "asked", "ended"}]
    BY DEF TypeInv, ClientsTyped
  <2>2. ~QuitClient(p) /\ ~QuitProgram(p) /\ ~Kill(p)
    BY <2>1 DEF QuitClient, QuitProgram, Kill, Goes, Active
  <2> QED
    BY <1>3, <2>2 DEF ProgramStep
<1>4. ASSUME SendLogin(p) \/ ReceiveResult(p) \/ SendSql(p) \/ ReceiveAnswer(p)
      PROVE  UNCHANGED built[p] /\ Active(p)
  BY <1>4 DEF SendLogin, ReceiveResult, SendSql, ReceiveAnswer, Goes, Active
<1>5. \/ UNCHANGED clients
      \/ \E q \in Program : ProgramStep(q)
  BY StepCases, StartFrame, ConnectorFrame, SessionFrame, BaseFrame, OtherFrame
     DEF clients, vars
<1>6. CASE \E q \in Program \ {p} : ProgramStep(q)
  BY <1>2, <1>6 DEF Active
<1> QED
  BY <1>1, <1>3, <1>4, <1>5, <1>6 DEF clients

(* Nothing is under way for a client that is new and has its queue id and  *)
(* place to itself.                                                        *)
LEMMA NewClientQuiet ==
  ASSUME OriginInv, TypeInv', NEW p \in Program, NEW login \in Login, BuildClient(p, login),
         Exclusive(p)'
  PROVE  QueueId(p)' \in Id /\ Quiet(QueueId(p)')
<1>1. TypeInv
  BY DEF OriginInv
<1>2. Client(p) \in Nat /\ Client(p)' = Client(p) + 1
  BY <1>1, ClientProperties, BuildKeeps
<1>3. PICK id : id = QueueId(p)'
  OBVIOUS
<1>4. id = QueueIds[Client(p) + 1] /\ id \in Id
  BY <1>1, <1>2, <1>3, ClientProperties DEF QueueId, BuildClient
<1>5. ASSUME NEW q \in Program, NEW i \in 1 .. Client(q), QueueIds[i] = id
      PROVE  FALSE
  <2>1. built'[q] \in Seq(Login)
    BY DEF TypeInv, ClientsTyped
  <2>2. Client(q) \in Nat /\ Client(q)' \in Nat /\ Client(q) <= Client(q)'
    <3>1. CASE q = p
      BY <1>2, <3>1
    <3>2. CASE q # p
      <4>1. Client(q)' = Client(q)
        BY <1>1, <3>2, BuildKeeps DEF Client
      <4> QED
        BY <1>1, <4>1, ClientProperties
    <3> QED
      BY <3>1, <3>2
  <2>3. i \in DOMAIN built'[q]
    BY <2>1, <2>2, LenProperties DEF Client
  <2>4. q = p /\ i = Client(p)'
    BY <1>3, <1>5, <2>3 DEF Exclusive
  <2> QED
    BY <1>2, <2>4
<1>6. ASSUME NEW m, m.by \in Program, FromClient(m, id)
      PROVE  FALSE
  BY <1>5, <1>6 DEF FromClient
<1>7. Of(worker_queue, id) = {} /\ Of(base_queue, id) = {}
  BY <1>1, <1>4, <1>6, OfBy DEF OriginInv, MessagesFrom
<1>8. ~(Creating /\ base.queue = id)
  <2>1. Creating => base.job.by \in Program
    BY <1>1 DEF TypeInv, BaseTyped, Request, Stmt
  <2> QED
    BY <1>6, <2>1 DEF OriginInv, ThreadsFrom
<1>9. WorkingIn(sessions, id) = {}
  <2>1. ASSUME NEW s \in 1 .. Len(sessions), sessions[s].queue = id
        PROVE  FALSE
    BY <1>5, <2>1 DEF OriginInv, ThreadsFrom, SessionFrom
  <2> QED
    BY <2>1 DEF WorkingIn
<1> QED
  BY <1>3, <1>4, <1>7, <1>8, <1>9 DEF Quiet

LEMMA MailNext == MailInv /\ [Next]_vars => MailInv'
<1> SUFFICES ASSUME MailInv, [Next]_vars
             PROVE  MailInv'
  OBVIOUS
<1>1. OriginInv /\ TypeInv /\ TypeInv' /\ OriginInv'
  BY OriginNext, TypeNext DEF MailInv, OriginInv
<1>2. SUFFICES ASSUME NEW p \in Program, Exclusive(p)', Active(p)',
                      NEW id \in Id, NEW n2 \in 0 .. MaxStatements,
                      id = QueueId(p)', n2 = sent'[p]
               PROVE  MailOf(p, id, n2)'
  BY <1>1 DEF MailInv
<1>3. ASSUME NEW login \in Login, BuildClient(p, login)
      PROVE  MailOf(p, id, n2)'
  <2>1. Quiet(id)
    BY <1>1, <1>2, <1>3, NewClientQuiet
  <2>2. UNCHANGED <<worker_queue, base_queue, base, sessions>>
    BY <1>3 DEF BuildClient
  <2>3. Tokens(id) = 0
    BY <1>1, <2>1, QuietTokens
  <2>4. Tokens(id)' = 0
    BY <2>2, <2>3 DEF Tokens, Under, Created, Creating
  <2>5. n2 = 0 /\ program'[p] = "called"
    BY <1>1, <1>2, <1>3 DEF BuildClient, Goes, TypeInv, ClientsTyped
  <2>6. Newest(id, n2)'
    BY <2>1, <2>2 DEF Newest, Quiet, Creating
  <2> QED
    BY <2>4, <2>5, <2>6 DEF MailOf
<1>4. ASSUME \A login \in Login : ~BuildClient(p, login)
      PROVE  MailOf(p, id, n2)'
  <2>1. /\ UNCHANGED built[p] /\ Active(p)
        /\ \/ SendLogin(p) \/ ReceiveResult(p) \/ SendSql(p) \/ ReceiveAnswer(p)
           \/ UNCHANGED <<program[p], sent[p], answer[p]>>
    BY <1>1, <1>2, <1>4, OwnStep
  <2>2. Exclusive(p) /\ Client(p)' = Client(p) /\ id = QueueId(p)
    BY <1>1, <1>2, <2>1, ExclusiveBefore
  <2>3. Client(p) > 0 /\ Client(p) \in DOMAIN built[p]
    <3>1. built[p] \in Seq(Login) /\ Client(p) > 0 /\ Client(p) \in Nat
      BY <1>1, <2>1, ClientProperties DEF TypeInv, ClientsTyped
    <3> QED
      BY <3>1, LenProperties DEF Client
  <2>4. PICK n \in 0 .. MaxStatements : n = sent[p]
    BY <1>1 DEF TypeInv, ClientsTyped
  <2>5. PICK t \in Nat, t2 \in Nat : t = Tokens(id) /\ t2 = Tokens(id)'
    BY <1>1, TokensAdd
  <2>6. ASSUME NEW q \in Program, q # p, SendSql(q) \/ ReceiveAnswer(q)
        PROVE  QueueId(q) # id
    <3>1. Active(q)
      BY <2>6 DEF SendSql, ReceiveAnswer, Goes, Active
    <3>2. Client(q) \in DOMAIN built[q]
      <4>1. built[q] \in Seq(Login) /\ Client(q) > 0 /\ Client(q) \in Nat
        BY <1>1, <3>1, ClientProperties DEF TypeInv, ClientsTyped
      <4> QED
        BY <4>1, LenProperties DEF Client
    <3> QED
      BY <2>2, <2>6, <3>2 DEF Exclusive, QueueId
  <2>7. /\ t <= 1 /\ (program[p] # "asked" => t = 0)
        /\ Newest(id, n)
        /\ program[p] \in {"called", "waiting"} => n = 0
        /\ program[p] = "ready" /\ n > 0 => Answered(p)
    <3>1. MailOf(p, id, n)
      BY <2>1, <2>2, <2>4 DEF MailInv
    <3> QED
      BY <2>5, <3>1 DEF MailOf
  <2>8. SUFFICES /\ t2 <= 1 /\ (program'[p] # "asked" => t2 = 0)
                 /\ Newest(id, n2)'
                 /\ program'[p] \in {"called", "waiting"} => n2 = 0
                 /\ program'[p] = "ready" /\ n2 > 0 => Answered(p)'
    BY <2>5 DEF MailOf
  <2>9. /\ program \in [Program -> {"manager", "called", "waiting", "ready", "asked", "ended"}]
        /\ sent \in [Program -> 0 .. MaxStatements]
        /\ answer \in [Program -> Stmt(Answers) \cup {NoAnswer}]
    BY <1>1, BoundAssumption DEF TypeInv, ClientsTyped
  <2>10. CASE SendSql(p)
    <3>1. program[p] = "ready" /\ program'[p] = "asked" /\ n2 = n + 1
      BY <1>2, <2>4, <2>9, <2>10 DEF SendSql, Goes
    <3>2. t = 0 /\ Quiet(id)
      BY <1>1, <2>5, <2>7, <3>1, QuietTokens
    <3>3. t2 = 1
      <4>1. Tokens(id)' = Tokens(id) + Same(id, QueueId(p))
        BY <1>1, <2>10, SendTokens
      <4>2. Same(id, QueueId(p)) = 1
        BY <2>2 DEF Same
      <4>3. Tokens(id) = 0
        BY <2>5, <3>2
      <4> QED
        BY <2>5, <4>1, <4>2, <4>3
    <3>4. UNCHANGED <<base_queue, base, sessions>>
      BY <2>10 DEF SendSql
    <3>5. ASSUME NEW m \in Of(worker_queue', id)
          PROVE  m.n = n2
      <4>1. m \notin Of(worker_queue, id) /\ m \notin Of(base_queue, id)
        BY <3>2 DEF Quiet
      <4>2. ASSUME NEW s \in DOMAIN sessions, id = sessions[s].queue, sessions[s].pc = "work"
            PROVE  FALSE
        <5>1. s \in WorkingIn(sessions, id)
          BY <1>1, <4>2, JobTyped DEF WorkingIn
        <5> QED
          BY <3>2, <5>1 DEF Quiet
      <4>3. PICK q \in Program : SendSql(q) /\ id = QueueId(q) /\ m.n = sent[q] + 1
        BY <1>1, <3>5, <4>1, <4>2, NewWork
      <4>4. q = p
        BY <2>6, <4>3
      <4> QED
        BY <2>4, <3>1, <4>3, <4>4
    <3>6. Of(base_queue', id) = {} /\ ~(Creating' /\ base'.queue = id) /\ WorkingIn(sessions', id) = {}
      BY <3>2, <3>4 DEF Quiet, Creating
    <3>7. Newest(id, n2)'
      BY <3>5, <3>6 DEF Newest
    <3> QED
      BY <3>1, <3>3, <3>7
  <2>11. ASSUME ~SendSql(p)
         PROVE  /\ Newest(id, n)'
                /\ ReceiveAnswer(p) => t = t2 + 1
                /\ ~ReceiveAnswer(p) => t2 <= t
    <3>1. \A q \in Program : ~(SendSql(q) /\ QueueId(q) = id)
      BY <2>6, <2>11
    <3>2. Newest(id, n)'
      BY <1>1, <2>7, <3>1, NewestStays
    <3>3. ReceiveAnswer(p) => t = t2 + 1
      BY <1>1, <2>2, <2>5, AnswerTokens DEF Same
    <3>4. ASSUME ~ReceiveAnswer(p)
          PROVE  t2 <= t
      <4>1. ASSUME NEW q \in Program, SendSql(q) \/ ReceiveAnswer(q)
            PROVE  t2 = t
        <5>1. Same(id, QueueId(q)) = 0
          BY <2>6, <2>11, <3>4, <4>1 DEF Same
        <5>2. t2 = t + 0 \/ t = t2 + 0
          BY <1>1, <2>5, <4>1, <5>1, SendTokens, AnswerTokens
        <5> QED
          BY <5>2
      <4>2. CASE \A q \in Program : ~SendSql(q) /\ ~ReceiveAnswer(q)
        BY <1>1, <2>5, <4>2, OtherTokens
      <4> QED
        BY <4>1, <4>2
    <3> QED
      BY <3>2, <3>3, <3>4
  <2>12. CASE ReceiveAnswer(p)
    <3>1. ~SendSql(p) /\ program[p] = "asked" /\ program'[p] = "ready" /\ n2 = n
      BY <1>2, <2>4, <2>9, <2>12 DEF SendSql, ReceiveAnswer, Goes
    <3>2. PICK m : m = Head(worker_queue[id + 1])
      OBVIOUS
    <3>3. Arrived(worker_queue, id + 1) /\ answer' = [answer EXCEPT ![p] = m] /\ id + 1 \in Type
      BY <2>2, <2>12, <3>2, IdProperties DEF ReceiveAnswer
    <3>4. m \in Of(worker_queue, id)
      BY <1>1, <3>2, <3>3, ReceiveOf DEF TypeInv, QueuesTyped
    <3>5. m.n = n
      BY <2>7, <3>4 DEF Newest
    <3>6. FromClient(m, QueueId(p)) /\ m.by \in Program
      BY <1>1, <2>2, <3>4, OfBy DEF OriginInv, MessagesFrom
    <3>7. m.by = p /\ m.client = Client(p)
      BY <1>1, <2>2, <2>3, <3>6, ExclusiveMessage
    <3>8. Answered(p)'
      BY <1>2, <2>2, <2>9, <3>1, <3>3, <3>5, <3>7 DEF Answered
    <3>9. t = t2 + 1 /\ Newest(id, n)'
      BY <2>11, <2>12, <3>1
    <3>10. t2 = 0 /\ Newest(id, n2)'
      BY <2>7, <3>1, <3>9
    <3> QED
      BY <3>1, <3>8, <3>10
  <2>13. CASE SendLogin(p) \/ ReceiveResult(p)
    <3>1. /\ ~SendSql(p) /\ ~ReceiveAnswer(p)
          /\ program[p] \in {"called", "waiting"} /\ n2 = n
      BY <1>2, <2>4, <2>13 DEF SendSql, ReceiveAnswer, SendLogin, ReceiveResult, Goes
    <3>2. n = 0 /\ t = 0
      BY <2>7, <3>1
    <3>3. t2 <= t /\ Newest(id, n)'
      BY <2>11, <3>1
    <3>4. t2 = 0 /\ n2 = 0 /\ Newest(id, n2)'
      BY <3>1, <3>2, <3>3
    <3> QED
      BY <3>4
  <2>14. CASE UNCHANGED <<program[p], sent[p], answer[p]>> /\ ~SendSql(p) /\ ~ReceiveAnswer(p)
    <3>1. t2 <= t /\ Newest(id, n)' /\ n2 = n
      BY <1>2, <2>4, <2>11, <2>14
    <3>2. Answered(p) => Answered(p)'
      BY <2>2, <2>14 DEF Answered
    <3>3. Newest(id, n2)'
      BY <3>1
    <3> QED
      BY <2>7, <2>14, <3>1, <3>2, <3>3
  <2> QED
    BY <2>1, <2>10, <2>12, <2>13, <2>14
<1> QED
  BY <1>3, <1>4

LEMMA MailInit == Init => MailInv
BY OriginInit DEF MailInv, Init, Active

LEMMA MailInvImpliesAnswersOwn == MailInv => AnswersOwn
<1> SUFFICES ASSUME MailInv, NEW p \in Program,
                    program[p] = "ready", sent[p] > 0, Exclusive(p)
             PROVE  Answered(p)
  BY DEF AnswersOwn, Answered
<1>1. TypeInv /\ Active(p)
  BY DEF MailInv, OriginInv, Active
<1>2. QueueId(p) \in Id /\ sent[p] \in 0 .. MaxStatements
  BY <1>1, ClientProperties DEF TypeInv, ClientsTyped
<1>3. MailOf(p, QueueId(p), sent[p])
  BY <1>1, <1>2 DEF MailInv
<1> QED
  BY <1>3 DEF MailOf

(* The answer a client shows is to the statement it sent last: there is    *)
(* one statement of each client under way at most, and it is the last one, *)
(* whatever the workers and the base-db thread do with it, as long as      *)
(* nobody shares the client's queue id and place.                          *)
THEOREM OwnAnswers == Spec => []AnswersOwn
<1>1. Init => MailInv
  BY MailInit
<1>2. MailInv /\ [Next]_vars => MailInv'
  BY MailNext
<1>3. MailInv => AnswersOwn
  BY MailInvImpliesAnswersOwn
<1> QED
  BY <1>1, <1>2, <1>3, PTL DEF Spec
-----------------------------------------------------------------------------
(* Calls and logins: whoever calls sends a login under the same queue id,  *)
(* or still owes it, as long as it lives. So each call that waits, or that *)
(* the connector has taken, has a login that waits or is owed.             *)
CallsIn(x, id) == {i \in 1 .. Len(x) : x[i] = id}

Listening(id) == IF connector.pc = "special" /\ connector.queue = id THEN 1 ELSE 0

Owing(id) ==
  {p \in Program : /\ built[p] # <<>> /\ QueueId(p) = id
                   /\ program[p] = "called" \/ (program[p] = "ended" /\ kills > 0)}

PairedInv ==
  /\ TypeInv
  /\ \A id \in Id :
       Cardinality(CallsIn(connector_queue[PublicType], id)) + Listening(id)
         <= Len(connector_queue[id]) + Cardinality(Owing(id))

LEMMA CallsFinite ==
  ASSUME NEW x \in Seq(Id), NEW id
  PROVE  IsFiniteSet(CallsIn(x, id)) /\ Cardinality(CallsIn(x, id)) \in Nat
<1>1. Len(x) \in Nat
  BY LenProperties
<1>2. IsFiniteSet(1 .. Len(x)) /\ CallsIn(x, id) \subseteq 1 .. Len(x)
  BY <1>1, FS_Interval DEF CallsIn
<1>3. IsFiniteSet(CallsIn(x, id))
  BY <1>2, FS_Subset
<1> QED
  BY <1>3, FS_CardinalityType

(* A call more at the end, ...                                             *)
LEMMA CallsAppend ==
  ASSUME NEW x \in Seq(Id), NEW m \in Id, NEW id \in Id
  PROVE  Cardinality(CallsIn(Append(x, m), id)) = Cardinality(CallsIn(x, id)) + Same(id, m)
<1>1. PICK y : y = Append(x, m)
  OBVIOUS
<1>2. PICK k \in Nat : k = Len(x)
  BY LenProperties
<1>3. Len(y) = k + 1 /\ y[k + 1] = m /\ \A i \in 1 .. k : y[i] = x[i]
  BY <1>1, <1>2, AppendProperties
<1>4. PICK S : S = CallsIn(x, id)
  OBVIOUS
<1>5. IsFiniteSet(S) /\ Cardinality(S) \in Nat /\ k + 1 \notin S
  <2>1. k + 1 \notin 1 .. k
    OBVIOUS
  <2>2. S \subseteq 1 .. k
    BY <1>2, <1>4 DEF CallsIn
  <2> QED
    BY <1>4, <2>1, <2>2, CallsFinite
<1>6. CASE m = id
  <2>1. CallsIn(y, id) = S \cup {k + 1}
    BY <1>2, <1>3, <1>4, <1>6 DEF CallsIn
  <2>2. Cardinality(S \cup {k + 1}) = Cardinality(S) + 1
    BY <1>5, FS_AddElement
  <2>3. Same(id, m) = 1
    BY <1>6 DEF Same
  <2> QED
    BY <1>1, <1>4, <2>1, <2>2, <2>3
<1>7. CASE m # id
  <2>1. CallsIn(y, id) = S
    BY <1>2, <1>3, <1>4, <1>7 DEF CallsIn
  <2>2. Same(id, m) = 0
    BY <1>7 DEF Same
  <2>3. PICK c \in Nat : c = Cardinality(S)
    BY <1>5
  <2>4. c = c + 0
    OBVIOUS
  <2> QED
    BY <1>1, <1>4, <2>1, <2>2, <2>3, <2>4
<1> QED
  BY <1>6, <1>7

(* ... and one less in front.                                              *)
LEMMA CallsTail ==
  ASSUME NEW x \in Seq(Id), x # <<>>, NEW id \in Id
  PROVE  Cardinality(CallsIn(Tail(x), id)) + Same(id, Head(x)) <= Cardinality(CallsIn(x, id))
<1>1. PICK y : y = Tail(x)
  OBVIOUS
<1>2. PICK k \in Nat : k = Len(x)
  BY LenProperties
<1>3. k > 0 /\ y \in Seq(Id) /\ Len(y) = k - 1 /\ Head(x) = x[1]
  BY <1>1, <1>2, HeadTailProperties, EmptySeq
<1>4. \A i \in 1 .. k - 1 : y[i] = x[i + 1]
  BY <1>1, <1>2, <1>3, HeadTailProperties
<1>5. PICK S : S = CallsIn(x, id)
  OBVIOUS
<1>6. PICK T : T = CallsIn(y, id)
  OBVIOUS
<1>7. /\ IsFiniteSet(S) /\ Cardinality(S) \in Nat
      /\ IsFiniteSet(T) /\ Cardinality(T) \in Nat
  BY <1>3, <1>5, <1>6, CallsFinite
<1>8. PICK U : U = S \ {1}
  OBVIOUS
<1>9. /\ IsFiniteSet(U) /\ Cardinality(U) \in Nat
      /\ Cardinality(S) = Cardinality(U) + (IF 1 \in S THEN 1 ELSE 0)
  BY <1>7, <1>8, CardinalityOfRest
<1>10. Cardinality(T) <= Cardinality(U)
  <2>1. PICK f : f = [i \in T |-> i + 1]
    OBVIOUS
  <2>2. \A i \in T : i \in 1 .. k - 1 /\ x[i + 1] = id
    BY <1>2, <1>3, <1>4, <1>6 DEF CallsIn
  <2>3. \A i \in T : i + 1 \in U
    <3>1. ASSUME NEW i \in T
          PROVE  i + 1 \in U
      <4>1. i \in 1 .. k - 1 /\ x[i + 1] = id
        BY <2>2
      <4>2. i + 1 \in 1 .. k /\ i + 1 # 1
        BY <4>1
      <4> QED
        BY <1>2, <1>5, <1>8, <4>1, <4>2 DEF CallsIn
    <3> QED
      BY <3>1
  <2>4. \A i, j \in T : f[i] = f[j] => i = j
    BY <2>1, <2>2
  <2>5. f \in [T -> U]
    BY <2>1, <2>3
  <2>6. f \in Injection(T, U)
    <3>1. DOMAIN f = T
      BY <2>1
    <3> QED
      BY <2>4, <2>5, <3>1 DEF Injection, IsInjective
  <2> QED
    BY <1>9, <2>6, FS_Injection
<1>11. 1 \in S <=> Head(x) = id
  BY <1>2, <1>3, <1>5 DEF CallsIn
<1>12. Same(id, Head(x)) = IF 1 \in S THEN 1 ELSE 0
  BY <1>11 DEF Same
<1>13. PICK c \in Nat, d \in Nat, e \in Nat :
         c = Cardinality(T) /\ d = Cardinality(U) /\ e = (IF 1 \in S THEN 1 ELSE 0)
  BY <1>7, <1>9
<1>14. c <= d /\ Cardinality(S) = d + e
  BY <1>9, <1>10, <1>13
<1>15. c + e <= d + e
  BY <1>14
<1> QED
  BY <1>1, <1>5, <1>6, <1>12, <1>13, <1>14, <1>15
LEMMA OwingFinite ==
  ASSUME NEW id
  PROVE  IsFiniteSet(Owing(id)) /\ Cardinality(Owing(id)) \in Nat
<1>1. IsFiniteSet(Owing(id))
  BY BoundAssumption, FS_Subset DEF Owing
<1> QED
  BY <1>1, FS_CardinalityType

(* A login is owed until it is sent.                                       *)
LEMMA OwingStays ==
  ASSUME TypeInv, [Next]_vars, NEW u \in Id, NEW r \in Owing(u), ~SendLogin(r)
  PROVE  r \in Owing(u)'
<1>1. /\ r \in Program /\ built[r] # <<>> /\ QueueId(r) = u
      /\ program[r] = "called" \/ (program[r] = "ended" /\ kills > 0)
  BY DEF Owing
<1>2. /\ program \in [Program -> {"manager", "called", "waiting", "ready", "asked", "ended"}]
      /\ kills \in Nat
  BY DEF TypeInv, ClientsTyped, ServerTyped
<1>3. CASE UNCHANGED <<program[r], built[r]>> /\ kills' = kills
  BY <1>1, <1>3 DEF Owing, QueueId, Client
<1>4. ASSUME NEW q \in Program, ProgramStep(q), q # r
      PROVE  r \in Owing(u)'
  <2>1. UNCHANGED program[r]
    BY <1>1, <1>2, <1>4, ProgramGoes
  <2>2. ASSUME NEW login \in Login, BuildClient(q, login)
        PROVE  UNCHANGED built[r] /\ UNCHANGED kills
    BY <1>1, <1>4, <2>2, BuildKeeps DEF BuildClient
  <2>3. CASE SendLogin(q) \/ ReceiveResult(q) \/ SendSql(q) \/ ReceiveAnswer(q) \/ QuitClient(q)
             \/ QuitProgram(q)
    BY <1>1, <1>3, <2>1, <2>3
       DEF SendLogin, ReceiveResult, SendSql, ReceiveAnswer, QuitClient, QuitProgram
  <2>4. CASE Kill(q)
    <3>1. UNCHANGED built[r] /\ kills' = kills + 1
      BY <2>4 DEF Kill
    <3> QED
      BY <1>1, <1>2, <2>1, <3>1 DEF Owing, QueueId, Client
  <2> QED
    BY <1>3, <1>4, <2>1, <2>2, <2>3, <2>4 DEF ProgramStep
<1>5. CASE ProgramStep(r)
  <2>1. Kill(r)
    BY <1>1, <1>5 DEF ProgramStep, BuildClient, ReceiveResult, SendSql, ReceiveAnswer,
                      QuitClient, QuitProgram, Goes
  <2>2. program'[r] = "ended" /\ kills' = kills + 1 /\ UNCHANGED built[r]
    BY <1>1, <1>2, <2>1 DEF Kill
  <2> QED
    BY <1>1, <1>2, <2>2 DEF Owing, QueueId, Client
<1>6. CASE UNCHANGED clients /\ kills' = kills
  BY <1>3, <1>6 DEF clients
<1>7. \/ UNCHANGED clients /\ kills' = kills
      \/ \E q \in Program : ProgramStep(q)
  BY StepCases, StartFrame, ConnectorFrame, SessionFrame, BaseFrame, OtherFrame
     DEF clients, vars
<1> QED
  BY <1>4, <1>5, <1>6, <1>7

LEMMA PairedNext == PairedInv /\ [Next]_vars => PairedInv'
<1> SUFFICES ASSUME PairedInv, [Next]_vars
             PROVE  PairedInv'
  OBVIOUS
<1>1. TypeInv /\ TypeInv'
  BY TypeNext DEF PairedInv
<1>2. SUFFICES ASSUME NEW u \in Id
               PROVE  Cardinality(CallsIn(connector_queue'[PublicType], u)) + Listening(u)'
                        <= Len(connector_queue'[u]) + Cardinality(Owing(u)')
  BY <1>1 DEF PairedInv
<1>3. /\ Carries(connector_queue, ConnectorMsg) /\ Carries(connector_queue', ConnectorMsg)
      /\ PublicType \in Type /\ u \in Type /\ u # PublicType
      /\ ConnectorMsg[PublicType] = Id
  BY <1>1, IdProperties, MsgProperties DEF TypeInv, QueuesTyped, Carries
<1>4. /\ connector_queue[PublicType] \in Seq(Id) /\ connector_queue'[PublicType] \in Seq(Id)
      /\ connector_queue[u] \in Seq(ConnectorMsg[u]) /\ connector_queue'[u] \in Seq(ConnectorMsg[u])
  BY <1>3 DEF Carries
<1>5. IsFiniteSet(Owing(u)) /\ IsFiniteSet(Owing(u)')
  <2>1. IsFiniteSet(Owing(u))
    BY OwingFinite
  <2>2. Owing(u)' \subseteq Program
    BY DEF Owing
  <2>3. IsFiniteSet(Owing(u)')
    BY <2>2, BoundAssumption, FS_Subset
  <2> QED
    BY <2>1, <2>3
<1>6. PICK c \in Nat, c2 \in Nat, l \in Nat, l2 \in Nat, n \in Nat, n2 \in Nat, o \in Nat, o2 \in Nat :
        /\ c = Cardinality(CallsIn(connector_queue[PublicType], u))
        /\ c2 = Cardinality(CallsIn(connector_queue'[PublicType], u))
        /\ l = Listening(u) /\ l2 = Listening(u)'
        /\ n = Len(connector_queue[u]) /\ n2 = Len(connector_queue'[u])
        /\ o = Cardinality(Owing(u)) /\ o2 = Cardinality(Owing(u)')
  <2>1. Listening(u) \in Nat /\ Listening(u)' \in Nat
    BY DEF Listening
  <2> QED
    BY <1>4, <1>5, <2>1, CallsFinite, LenProperties, FS_CardinalityType
<1>7. c + l <= n + o
  BY <1>6 DEF PairedInv
<1>8. SUFFICES c2 + l2 <= n2 + o2
  BY <1>6
<1>9. (\A p \in Program : ~SendLogin(p)) => o <= o2
  <2>1. SUFFICES ASSUME \A p \in Program : ~SendLogin(p)
                 PROVE  o <= o2
    OBVIOUS
  <2>2. Owing(u) \subseteq Owing(u)'
    BY <1>1, <2>1, OwingStays DEF Owing
  <2> QED
    BY <1>5, <1>6, <2>2, FS_Subset
<1>10. ASSUME NEW login \in Login, NEW p \in Program, BuildClient(p, login)
       PROVE  c2 + l2 <= n2 + o2
  <2>1. PICK id \in Id : id = QueueIds[Client(p) + 1] /\ id = QueueId(p)'
    BY <1>1, <1>10, ClientProperties, BuildKeeps DEF BuildClient, QueueId
  <2>2. connector_queue' = Send(connector_queue, PublicType, id) /\ UNCHANGED connector
    BY <1>10, <2>1 DEF BuildClient
  <2>3. /\ connector_queue'[PublicType] = Append(connector_queue[PublicType], id)
        /\ connector_queue'[u] = connector_queue[u]
    BY <1>3, <2>2 DEF Send, Carries
  <2>4. PICK e \in Nat : e = Same(u, id)
    BY DEF Same
  <2>5. c2 = c + e /\ n2 = n /\ l2 = l
    BY <1>4, <1>6, <2>2, <2>3, <2>4, CallsAppend DEF Listening
  <2>6. o + e <= o2
    <3>1. program[p] = "manager"
      BY <1>10 DEF BuildClient, Goes
    <3>2. p \notin Owing(u)
      BY <3>1 DEF Owing
    <3>3. Owing(u) \subseteq Owing(u)'
      <4>1. ASSUME NEW r \in Owing(u)
            PROVE  r \in Owing(u)'
        <5>1. r # p
          BY <3>2
        <5>2. ~SendLogin(r)
          <6>1. connector_queue' = Send(connector_queue, PublicType, id) /\ program'[r] = program[r]
            BY <1>1, <1>10, <2>2, <5>1 DEF BuildClient, Goes, Owing, TypeInv, ClientsTyped
          <6> QED
            BY <1>1, <6>1 DEF SendLogin, Goes, Owing, TypeInv, ClientsTyped
        <5> QED
          BY <1>1, <5>2, OwingStays
      <4> QED
        BY <4>1
    <3>4. CASE u = id
      <4>1. p \in Owing(u)'
        <5>1. built'[p] # <<>> /\ QueueId(p)' = u /\ program'[p] = "called"
          <6>1. Client(p)' = Client(p) + 1 /\ Client(p) \in Nat
            BY <1>1, <1>10, BuildKeeps, ClientProperties
          <6>2. built'[p] # <<>>
            BY <6>1 DEF Client
          <6> QED
            BY <1>1, <1>10, <2>1, <3>4, <6>2 DEF BuildClient, Goes, TypeInv, ClientsTyped
        <5> QED
          BY <5>1 DEF Owing
      <4>2. Cardinality(Owing(u) \cup {p}) = o + 1
        BY <1>5, <1>6, <3>2, FS_AddElement
      <4>3. Owing(u) \cup {p} \subseteq Owing(u)'
        BY <3>3, <4>1
      <4>4. o + 1 <= o2
        BY <1>5, <1>6, <4>2, <4>3, FS_Subset
      <4> QED
        BY <2>4, <3>4, <4>4 DEF Same
    <3>5. CASE u # id
      <4>1. o <= o2
        BY <1>5, <1>6, <3>3, FS_Subset
      <4>2. e = 0
        BY <2>4, <3>5 DEF Same
      <4> QED
        BY <4>1, <4>2
    <3> QED
      BY <3>4, <3>5
  <2> QED
    BY <1>7, <2>5, <2>6
<1>11. ASSUME NEW p \in Program, SendLogin(p)
       PROVE  c2 + l2 <= n2 + o2
  <2>1. program[p] = "called" /\ UNCHANGED <<connector, built, kills>>
    BY <1>11 DEF SendLogin, Goes
  <2>2. Client(p) > 0 /\ QueueId(p) \in Id /\ LoginOf(p) \in Login /\ Client(p) \in ClientNumber
    BY <1>1, <2>1, ClientProperties DEF TypeInv, ClientsTyped, Active
  <2>3. PICK m : m = [by |-> p, client |-> Client(p), login |-> LoginOf(p), kind |-> "login"]
    OBVIOUS
  <2>4. m \in ConnectorMsg[QueueId(p)]
    BY <2>2, <2>3, MsgProperties DEF Call
  <2>5. connector_queue' = Send(connector_queue, QueueId(p), m)
    BY <1>11, <2>3 DEF SendLogin
  <2>6. PICK e \in Nat : e = Same(u, QueueId(p))
    BY DEF Same
  <2>7. QueueId(p) \in Type /\ QueueId(p) # PublicType
    BY <2>2, IdProperties
  <2>8. c2 = c /\ l2 = l
    <3>1. connector_queue'[PublicType] = connector_queue[PublicType]
      BY <1>3, <2>5, <2>7 DEF Send, Carries
    <3> QED
      BY <1>6, <2>1, <3>1 DEF Listening
  <2>9. n2 = n + e
    <3>1. CASE u = QueueId(p)
      <4>1. connector_queue'[u] = Append(connector_queue[u], m) /\ m \in ConnectorMsg[u]
        BY <1>3, <2>4, <2>5, <3>1 DEF Send, Carries
      <4>2. n2 = n + 1
        BY <1>4, <1>6, <4>1, AppendProperties
      <4> QED
        BY <2>6, <3>1, <4>2 DEF Same
    <3>2. CASE u # QueueId(p)
      <4>1. connector_queue'[u] = connector_queue[u]
        BY <1>3, <2>5, <3>2 DEF Send, Carries
      <4> QED
        BY <1>6, <2>6, <3>2, <4>1 DEF Same
    <3> QED
      BY <3>1, <3>2
  <2>10. o <= o2 + e
    <3>1. Owing(u) \ {p} \subseteq Owing(u)'
      <4>1. ASSUME NEW r \in Owing(u), r # p
            PROVE  r \in Owing(u)'
        <5>1. ~SendLogin(r)
          <6>1. program'[r] = program[r] /\ r \in Program
            BY <1>1, <1>11, <4>1 DEF SendLogin, Goes, Owing, TypeInv, ClientsTyped
          <6> QED
            BY <1>1, <6>1 DEF SendLogin, Goes, TypeInv, ClientsTyped
        <5> QED
          BY <1>1, <5>1, OwingStays
      <4> QED
        BY <4>1
    <3>2. PICK d \in Nat : d = Cardinality(Owing(u) \ {p}) /\ o = d + (IF p \in Owing(u) THEN 1 ELSE 0)
      <4>1. PICK S : S = Owing(u)
        OBVIOUS
      <4>2. /\ Cardinality(S \ {p}) \in Nat
            /\ Cardinality(S) = Cardinality(S \ {p}) + (IF p \in S THEN 1 ELSE 0)
        BY <1>5, <4>1, CardinalityOfRest
      <4> QED
        BY <1>6, <4>1, <4>2
    <3>3. d <= o2
      BY <1>5, <1>6, <3>1, <3>2, FS_Subset
    <3>4. p \in Owing(u) => u = QueueId(p)
      BY DEF Owing
    <3>5. (IF p \in Owing(u) THEN 1 ELSE 0) <= e
      BY <2>6, <3>4 DEF Same
    <3> QED
      BY <3>2, <3>3, <3>5
  <2> QED
    BY <1>7, <2>8, <2>9, <2>10
<1>12. ASSUME NEW p \in Program, ReceiveResult(p)
       PROVE  c2 + l2 <= n2 + o2
  <2>1. program[p] = "waiting" /\ UNCHANGED connector /\ program'[p] # "waiting"
    BY <1>1, <1>12 DEF ReceiveResult, Goes, TypeInv, ClientsTyped
  <2>2. PICK t : t = QueueId(p) + 1
    OBVIOUS
  <2>3. QueueId(p) \in Id
    BY <1>1, <2>1, ClientProperties DEF TypeInv, ClientsTyped, Active
  <2>4. t \in Type /\ t \notin Id /\ t # PublicType
    BY <2>2, <2>3, IdProperties
  <2>5. connector_queue' = Receive(connector_queue, t)
    BY <1>12, <2>2, <2>3, IdProperties DEF ReceiveResult
  <2>6. connector_queue'[PublicType] = connector_queue[PublicType] /\ connector_queue'[u] = connector_queue[u]
    BY <1>3, <2>4, <2>5 DEF Receive, Carries
  <2>7. c2 = c /\ n2 = n /\ l2 = l
    BY <1>6, <2>1, <2>6 DEF Listening
  <2>8. \A q \in Program : ~SendLogin(q)
    <3>1. ASSUME NEW q \in Program, SendLogin(q)
          PROVE  FALSE
      <4>1. program'[q] = "waiting" /\ program[q] = "called"
        BY <1>1, <3>1 DEF SendLogin, Goes, TypeInv, ClientsTyped
      <4>2. q # p /\ program'[p] = program[p]
        BY <1>1, <2>1, <3>1, <4>1 DEF SendLogin, Goes, TypeInv, ClientsTyped
      <4> QED
        BY <2>1, <4>2
    <3> QED
      BY <3>1
  <2> QED
    BY <1>7, <1>9, <2>7, <2>8
<1>13. ASSUME \A p \in Program : ~SendLogin(p), c2 = c, n2 = n, l2 <= l
       PROVE  c2 + l2 <= n2 + o2
  BY <1>7, <1>9, <1>13
<1>14. connector = [pc |-> connector.pc, queue |-> connector.queue, msg |-> connector.msg]
  BY <1>1 DEF TypeInv, ConnectorTyped
<1>15. ASSUME UNCHANGED clients
       PROVE  \A p \in Program : ~SendLogin(p)
  BY <1>1, <1>15 DEF SendLogin, Goes, clients, TypeInv, ClientsTyped
<1>16. CASE ReceiveCall
  <2>1. PICK h : h = Head(connector_queue[PublicType])
    OBVIOUS
  <2>2. /\ Arrived(connector_queue, PublicType) /\ connector_queue' = Receive(connector_queue, PublicType)
        /\ connector.pc = "public" /\ connector'.pc = "special" /\ connector'.queue = h
    BY <1>14, <1>16, <2>1 DEF ReceiveCall, Listens
  <2>3. /\ connector_queue'[PublicType] = Tail(connector_queue[PublicType])
        /\ connector_queue'[u] = connector_queue[u] /\ connector_queue[PublicType] # <<>>
    BY <1>3, <2>2 DEF Receive, Carries, Arrived
  <2>4. PICK e \in Nat : e = Same(u, h)
    BY DEF Same
  <2>5. c2 + e <= c /\ n2 = n
    BY <1>4, <1>6, <2>1, <2>3, <2>4, CallsTail
  <2>6. l2 = e
    BY <1>6, <2>2, <2>4 DEF Listening, Same
  <2>7. o <= o2
    BY <1>9, <1>15, <1>16, ConnectorFrame
  <2> QED
    BY <1>7, <2>5, <2>6, <2>7
<1>17. CASE ReceiveLogin
  <2>1. connector.queue \in Id /\ connector.queue # PublicType /\ connector.queue \in Type
    BY <1>1, <1>17, IdProperties DEF ReceiveLogin, Listens, TypeInv, ConnectorTyped
  <2>2. /\ Arrived(connector_queue, connector.queue)
        /\ connector_queue' = Receive(connector_queue, connector.queue)
        /\ connector.pc = "special" /\ connector'.pc = "connect"
    BY <1>14, <1>17 DEF ReceiveLogin, Listens
  <2>3. c2 = c
    <3>1. connector_queue'[PublicType] = connector_queue[PublicType]
      BY <1>3, <2>1, <2>2 DEF Receive, Carries
    <3> QED
      BY <1>6, <3>1
  <2>4. PICK e \in Nat : e = Same(u, connector.queue)
    BY DEF Same
  <2>5. l = e /\ l2 = 0
    BY <1>6, <2>2, <2>4 DEF Listening, Same
  <2>6. n = n2 + e
    <3>1. CASE u = connector.queue
      <4>1. connector_queue'[u] = Tail(connector_queue[u]) /\ connector_queue[u] # <<>>
        BY <1>3, <2>2, <3>1 DEF Receive, Carries, Arrived
      <4>2. n2 = n - 1
        BY <1>4, <1>6, <4>1, HeadTailProperties
      <4> QED
        BY <2>4, <3>1, <4>2 DEF Same
    <3>2. CASE u # connector.queue
      <4>1. connector_queue'[u] = connector_queue[u]
        BY <1>3, <2>1, <2>2, <3>2 DEF Receive, Carries
      <4> QED
        BY <1>6, <2>4, <3>2, <4>1 DEF Same
    <3> QED
      BY <3>1, <3>2
  <2>7. o <= o2
    BY <1>9, <1>15, <1>17, ConnectorFrame
  <2> QED
    BY <1>7, <2>3, <2>5, <2>6, <2>7
<1>18. CASE Connect
  <2>1. connector.queue \in Id
    BY <1>1, <1>18 DEF Connect, Listens, TypeInv, ConnectorTyped
  <2>2. PICK kind \in {"connected", "refused"} : Reply(kind)
    BY <1>18 DEF Connect
  <2>3. PICK t : t = connector.queue + 1
    OBVIOUS
  <2>4. t \in Type /\ t \notin Id /\ t # PublicType
    BY <2>1, <2>3, IdProperties
  <2>5. /\ connector_queue' = Send(connector_queue, t, [connector.msg EXCEPT !.kind = kind])
        /\ connector' = NewConnector
    BY <2>1, <2>2, <2>3, IdProperties DEF Reply
  <2>6. connector_queue'[PublicType] = connector_queue[PublicType] /\ connector_queue'[u] = connector_queue[u]
    BY <1>3, <2>4, <2>5 DEF Send, Carries
  <2>7. c2 = c /\ n2 = n /\ l2 = 0
    BY <1>6, <2>5, <2>6 DEF Listening, NewConnector
  <2> QED
    BY <1>13, <1>15, <1>18, <2>7, ConnectorFrame
<1>19. CASE Restart
  <2>1. UNCHANGED <<queues, clients>> /\ connector' = NewConnector
    BY <1>19 DEF Restart
  <2>2. c2 = c /\ n2 = n /\ l2 = 0
    BY <1>6, <2>1 DEF Listening, NewConnector, queues
  <2> QED
    BY <1>13, <1>15, <2>1, <2>2
<1>20. CASE UNCHANGED <<connector_queue, connector>> /\ \A p \in Program : ~SendLogin(p)
  <2>1. c2 = c /\ n2 = n /\ l2 = l
    BY <1>6, <1>20 DEF Listening
  <2> QED
    BY <1>13, <1>20, <2>1
<1>21. ASSUME NEW p \in Program, ProgramStep(p)
       PROVE  c2 + l2 <= n2 + o2
  <2>1. CASE SendSql(p) \/ ReceiveAnswer(p) \/ QuitClient(p) \/ QuitProgram(p) \/ Kill(p)
    <3>1. UNCHANGED <<connector_queue, connector>>
      BY <2>1 DEF SendSql, ReceiveAnswer, QuitClient, QuitProgram, Kill, queues
    <3>2. CASE \E q \in Program : SendLogin(q)
      BY <1>11, <3>2
    <3> QED
      BY <1>20, <3>1, <3>2
  <2> QED
    BY <1>10, <1>11, <1>12, <1>21, <2>1 DEF ProgramStep
<1>22. CASE UNCHANGED <<connector_queue, connector, clients>>
  BY <1>15, <1>20, <1>22
<1> QED
  BY <1>16, <1>17, <1>18, <1>19, <1>21, <1>22, StepCases, StartFrame, SessionFrame, BaseFrame,
     OtherFrame DEF vars, queues, clients

LEMMA PairedInit == Init => PairedInv
<1> SUFFICES ASSUME Init, NEW id \in Id
             PROVE  Cardinality(CallsIn(connector_queue[PublicType], id)) + Listening(id)
                      <= Len(connector_queue[id]) + Cardinality(Owing(id))
  BY TypeInit DEF PairedInv
<1>1. connector_queue[PublicType] = <<>> /\ connector_queue[id] = <<>>
  BY IdProperties, MsgProperties DEF Init
<1>2. CallsIn(connector_queue[PublicType], id) = {}
  BY <1>1 DEF CallsIn
<1>3. Cardinality(CallsIn(connector_queue[PublicType], id)) = 0
  BY <1>2, FS_EmptySet
<1>4. Listening(id) = 0
  BY DEF Init, Listening, NewConnector
<1>5. Owing(id) = {}
  BY DEF Init, Owing
<1>6. Cardinality(Owing(id)) = 0
  BY <1>5, FS_EmptySet
<1>7. Len(connector_queue[id]) = 0
  BY <1>1
<1> QED
  BY <1>3, <1>4, <1>6, <1>7

LEMMA PairedInvImpliesHeldUpByDead == PairedInv => HeldUpByDead
<1> SUFFICES ASSUME PairedInv, connector.pc = "special", ~Arrived(connector_queue, connector.queue)
             PROVE  \E p \in Program :
                      /\ built[p] # <<>>
                      /\ QueueId(p) = connector.queue
                      /\ program[p] = "called" \/ (program[p] = "ended" /\ kills > 0)
  BY DEF HeldUpByDead
<1>1. TypeInv
  BY DEF PairedInv
<1>2. PICK id \in Id : id = connector.queue
  BY <1>1 DEF TypeInv, ConnectorTyped
<1>3. Len(connector_queue[id]) = 0
  BY <1>2 DEF Arrived
<1>4. Listening(id) = 1
  BY <1>2 DEF Listening
<1>5. connector_queue[PublicType] \in Seq(Id)
  BY <1>1, MsgProperties DEF TypeInv, QueuesTyped, Carries
<1>6. PICK c \in Nat, o \in Nat : /\ c = Cardinality(CallsIn(connector_queue[PublicType], id))
                                  /\ o = Cardinality(Owing(id))
  BY <1>5, CallsFinite, OwingFinite
<1>7. c + 1 <= 0 + o
  BY <1>3, <1>4, <1>6 DEF PairedInv
<1>8. Owing(id) # {}
  <2>1. CASE Owing(id) = {}
    <3>1. o = 0
      BY <1>6, <2>1, FS_EmptySet
    <3> QED
      BY <1>7, <3>1
  <2> QED
    BY <2>1
<1> QED
  BY <1>2, <1>8 DEF Owing

(* The connector waits for a login only if its client is about to send it, *)
(* or was killed before it could: calls and logins pair off, whoever       *)
(* shares a queue id, and whatever a restart finds in the queues.          *)
THEOREM OnlyDeadHoldUp == Spec => []HeldUpByDead
<1>1. Init => PairedInv
  BY PairedInit
<1>2. PairedInv /\ [Next]_vars => PairedInv'
  BY PairedNext
<1>3. PairedInv => HeldUpByDead
  BY PairedInvImpliesHeldUpByDead
<1> QED
  BY <1>1, <1>2, <1>3, PTL DEF Spec
=============================================================================
