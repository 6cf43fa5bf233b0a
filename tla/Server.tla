------------------------------- MODULE Server -------------------------------
(***************************************************************************)
(* The server loop (Server.cpp, main.cpp): Server::central accepts a       *)
(* connection, forks a child for it and closes its own descriptor; the     *)
(* child reads one request, answers it and exits (Server::handle_client).  *)
(*                                                                         *)
(* What matters here is what the kernel does with it: descriptors that     *)
(* fork() copies, connections that end when nobody holds them any more,    *)
(* the listening socket, children that nobody waits for, and calls of      *)
(* accept() and fork() whose result is never looked at.  A connection      *)
(* stands for its descriptor and for the address of its client.  What the  *)
(* child does with a request is the subject of Request and Announce.       *)
(***************************************************************************)
EXTENDS Integers, Sequences, FiniteSets

CONSTANTS
  Conn,       \* the connections that clients may make, each from its own address
  NoConn,     \* the descriptor -1, and the address before the first accept()
  Parent,     \* the process that runs central()
  Child,      \* the processes the kernel has left for fork()
  Backlog,    \* the second argument of listen()
  Segments,   \* the segments in which a request arrives
  MaxFaults   \* bound: processes killed, failed accept() and fork() calls

ASSUME NamesAssumption    == NoConn \notin Conn /\ Parent \notin Child
ASSUME SegmentsAssumption == Segments \in Nat \ {0}
ASSUME LimitsAssumption   == Backlog \in Nat /\ MaxFaults \in Nat

VARIABLES
  parent,   \* the loop of central(): its place and its variables
  child,    \* child[c]: the copy of them that fork() gave to c
  listens,  \* the processes that hold sockfd
  holds,    \* holds[p]: the connections of which process p holds a descriptor
  backlog,  \* the connections waiting for accept(); their order does not matter here
  client,   \* client[k]: the other end of connection k
  replies,  \* replies[k]: what has been written to connection k
  faults

kernel == <<listens, holds, backlog>>
vars   == <<parent, child, kernel, client, replies, faults>>

Process    == {Parent} \cup Child
Descriptor == Conn \cup {NoConn}

\* Where a child is in central() and handle_client().
Serving   == {"closeSockfd", "newDatabase", "read", "insertClientInfo", "write"}
Live(c)   == child[c].pc \in Serving \cup {"exit"}

ParentState ==
  [pc : {"accept", "fork", "close", "signal", "dead"},
   newsockfd : Descriptor, cliAddr : Descriptor,
   ignoresSigchld : BOOLEAN]
ChildState ==
  [pc : {"free", "zombie", "exit"} \cup Serving,
   newsockfd : Descriptor, cliAddr : Descriptor,
   received : 0 .. Segments]                    \* what the buffer holds of the request
ClientState == [state : {"new", "open", "gone"}, sent : 0 .. Segments]
\* An answer: the address it was computed for and what of the request was known.
Reply == [address : Descriptor, received : 0 .. Segments]

Free == [pc |-> "free", newsockfd |-> NoConn, cliAddr |-> NoConn, received |-> 0]

\* The constructor has bound and listened; cli_addr is not initialised.
Init ==
  /\ parent = [pc |-> "accept", newsockfd |-> NoConn, cliAddr |-> NoConn,
               ignoresSigchld |-> FALSE]
  /\ child = [c \in Child |-> Free]
  /\ listens = {Parent} /\ holds = [p \in Process |-> {}] /\ backlog = {}
  /\ client = [k \in Conn |-> [state |-> "new", sent |-> 0]]
  /\ replies = [k \in Conn |-> << >>]
  /\ faults = 0

Fault == faults < MaxFaults /\ faults' = faults + 1

\* The kernel closes the listening socket with its last holder, and resets the
\* connections that wait on it.
StopListening(p) ==
  /\ listens' = listens \ {p}
  /\ backlog' = IF listens' = {} THEN {} ELSE backlog

----------------------------------------------------------------------------
\* Clients.

Connect(k) ==
  /\ client[k].state = "new"
  /\ listens # {} /\ Cardinality(backlog) <= Backlog
  /\ client' = [client EXCEPT ![k].state = "open"]
  /\ backlog' = backlog \cup {k}
  /\ UNCHANGED <<parent, child, listens, holds, replies, faults>>

\* The next segment of the request arrives.
Send(k) ==
  /\ client[k].state = "open" /\ client[k].sent < Segments
  /\ client' = [client EXCEPT ![k].sent = @ + 1]
  /\ UNCHANGED <<parent, child, kernel, replies, faults>>

\* The client closes its end, with or without having sent a request.
Leave(k) ==
  /\ client[k].state = "open"
  /\ client' = [client EXCEPT ![k].state = "gone"]
  /\ UNCHANGED <<parent, child, kernel, replies, faults>>

----------------------------------------------------------------------------
\* The loop of central().

\* newsockfd = accept(sockfd, &cli_addr, &clilen)
Accept(k) ==
  /\ parent.pc = "accept" /\ k \in backlog
  /\ parent' = [parent EXCEPT !.pc = "fork", !.newsockfd = k, !.cliAddr = k]
  /\ backlog' = backlog \ {k}
  /\ holds' = [holds EXCEPT ![Parent] = @ \cup {k}]
  /\ UNCHANGED <<child, listens, client, replies, faults>>

\* accept() returns -1 and leaves cli_addr as it was; the loop goes on to fork().
AcceptFails ==
  /\ parent.pc = "accept" /\ Fault
  /\ parent' = [parent EXCEPT !.pc = "fork", !.newsockfd = NoConn]
  /\ UNCHANGED <<child, kernel, client, replies>>

\* pid = fork(): the child gets a copy of the variables and of every descriptor.
Fork(c) ==
  /\ parent.pc = "fork" /\ child[c].pc = "free"
  /\ parent' = [parent EXCEPT !.pc = "close"]
  /\ child' = [child EXCEPT ![c] = [pc |-> "closeSockfd", newsockfd |-> parent.newsockfd,
                                    cliAddr |-> parent.cliAddr, received |-> 0]]
  /\ holds' = [holds EXCEPT ![c] = holds[Parent]]
  /\ listens' = listens \cup {c}
  /\ UNCHANGED <<backlog, client, replies, faults>>

\* fork() returns -1, for want of a process or of memory: the else branch.
ForkFails ==
  /\ parent.pc = "fork"
  /\ \/ (\A c \in Child : child[c].pc # "free") /\ UNCHANGED faults
     \/ Fault
  /\ parent' = [parent EXCEPT !.pc = "close"]
  /\ UNCHANGED <<child, kernel, client, replies>>

\* Mutant of CloseNewsockfd: the parent keeps its descriptor.
KeepNewsockfd ==
  /\ parent.pc = "close"
  /\ parent' = [parent EXCEPT !.pc = "signal"]
  /\ UNCHANGED <<child, kernel, client, replies, faults>>

\* close(newsockfd)
CloseNewsockfd ==
  /\ parent.pc = "close"
  /\ parent' = [parent EXCEPT !.pc = "signal"]
  /\ holds' = [holds EXCEPT ![Parent] = @ \ {parent.newsockfd}]
  /\ UNCHANGED <<child, listens, backlog, client, replies, faults>>

\* Mutant of IgnoreSigchld: the call is missing.
KeepSigchld ==
  /\ parent.pc = "signal"
  /\ parent' = [parent EXCEPT !.pc = "accept"]
  /\ UNCHANGED <<child, kernel, client, replies, faults>>

\* signal(SIGCHLD, SIG_IGN): from now on the kernel reaps the children itself;
\* one that has ended before stays.
IgnoreSigchld ==
  /\ parent.pc = "signal"
  /\ parent' = [parent EXCEPT !.pc = "accept", !.ignoresSigchld = TRUE]
  /\ UNCHANGED <<child, kernel, client, replies, faults>>

\* The tracker's process is killed; its zombies go to init, which reaps them.
KillParent ==
  /\ parent.pc # "dead" /\ Fault
  /\ parent' = [parent EXCEPT !.pc = "dead"]
  /\ child' = [c \in Child |-> IF child[c].pc = "zombie" THEN Free ELSE child[c]]
  /\ holds' = [holds EXCEPT ![Parent] = {}]
  /\ StopListening(Parent)
  /\ UNCHANGED <<client, replies>>

----------------------------------------------------------------------------
\* A child.  Its end closes its descriptors.
End(c) ==
  /\ child' = [child EXCEPT ![c] =
       IF parent.pc = "dead" \/ parent.ignoresSigchld THEN Free
       ELSE [Free EXCEPT !.pc = "zombie"]]
  /\ holds' = [holds EXCEPT ![c] = {}]
  /\ StopListening(c)

Goto(c, s) == child' = [child EXCEPT ![c].pc = s]

\* Mutant of CloseSockfd: the child keeps the listening socket.
KeepSockfd(c) ==
  /\ child[c].pc = "closeSockfd"
  /\ Goto(c, "newDatabase")
  /\ UNCHANGED <<parent, kernel, client, replies, faults>>

\* close(sockfd)
CloseSockfd(c) ==
  /\ child[c].pc = "closeSockfd"
  /\ Goto(c, "newDatabase")
  /\ StopListening(c)
  /\ UNCHANGED <<parent, holds, client, replies, faults>>

\* delete db; db = new Database(logger).  ~Database deletes pstmt, res and
\* annInfo, which the parent's Database never initialised: the child goes on, or
\* dies of it.
NewDatabase(c) ==
  /\ child[c].pc = "newDatabase"
  /\ \/ Goto(c, "read") /\ UNCHANGED kernel
     \/ End(c)
  /\ UNCHANGED <<parent, client, replies, faults>>

\* read(newsockfd, buffer, 4096): waits for a first segment or for the client to
\* leave, without a timeout, and takes what has arrived by then.  On the
\* descriptor -1 it returns at once.
Read(c) ==
  LET k == child[c].newsockfd IN
  /\ child[c].pc = "read"
  /\ k \in Conn => client[k].sent > 0 \/ client[k].state = "gone"
  /\ child' = [child EXCEPT ![c].pc = "insertClientInfo",
                            ![c].received = IF k = NoConn THEN 0 ELSE client[k].sent]
  /\ UNCHANGED <<parent, kernel, client, replies, faults>>

\* Mutant of InsertClientInfo: the address is the loop's, as in a thread.
InsertClientInfoShared(c) ==
  /\ child[c].pc = "insertClientInfo"
  /\ child' = [child EXCEPT ![c].pc = "write", ![c].cliAddr = parent.cliAddr]
  /\ UNCHANGED <<parent, kernel, client, replies, faults>>

\* parseAndInsertMessage and the answer, for the address in the child's own
\* cli_addr.  A number that stoi refuses ends the child with an exception.
InsertClientInfo(c) ==
  /\ child[c].pc = "insertClientInfo"
  /\ \/ Goto(c, "write") /\ UNCHANGED kernel
     \/ child[c].received > 0 /\ End(c)
  /\ UNCHANGED <<parent, client, replies, faults>>

\* write(newsockfd, ...): nobody reads what is written to a client that has
\* left.  The result is ignored.
Write(c) ==
  LET k == child[c].newsockfd
      reply == [address |-> child[c].cliAddr, received |-> child[c].received]
  IN
  /\ child[c].pc = "write"
  /\ Goto(c, "exit")
  /\ replies' = IF k = NoConn \/ client[k].state = "gone" THEN replies
                ELSE [replies EXCEPT ![k] = Append(@, reply)]
  /\ UNCHANGED <<parent, kernel, client, faults>>

\* exit(0)
Exit(c) ==
  /\ child[c].pc = "exit"
  /\ End(c)
  /\ UNCHANGED <<parent, client, replies, faults>>

KillChild(c) ==
  /\ Live(c) /\ Fault
  /\ End(c)
  /\ UNCHANGED <<parent, client, replies>>

\* Every client has gone, or would come too late: the loop waits in accept(), or
\* the tracker is dead.  This is the only state without another step.
Quiet ==
  /\ parent.pc \in {"accept", "dead"} /\ backlog = {}
  /\ \A c \in Child : ~Live(c)
  /\ UNCHANGED vars

----------------------------------------------------------------------------
\* One round of central(), one child, one client.
Loop == (\E k \in Conn : Accept(k)) \/ (\E c \in Child : Fork(c)) \/ ForkFails
        \/ CloseNewsockfd \/ IgnoreSigchld

HandleClient(c) ==
  CloseSockfd(c) \/ NewDatabase(c) \/ Read(c) \/ InsertClientInfo(c) \/ Write(c) \/ Exit(c)

Clients == \E k \in Conn : Connect(k) \/ Send(k) \/ Leave(k)

Next ==
  \/ Clients \/ Loop \/ AcceptFails \/ KillParent
  \/ \E c \in Child : HandleClient(c) \/ KillChild(c)
  \/ Quiet

Spec == Init /\ [][Next]_vars

\* The kernel schedules the loop and every child.  Clients owe nothing, and no
\* call has to fail.
FairSpec == Spec /\ WF_vars(Loop) /\ \A c \in Child : WF_vars(HandleClient(c))

----------------------------------------------------------------------------
\* Every variable has the type the code and the kernel give it.
TypeOK ==
  /\ parent \in ParentState
  /\ child \in [Child -> ChildState]
  /\ listens \subseteq Process
  /\ holds \in [Process -> SUBSET Conn]
  /\ backlog \subseteq Conn
  /\ client \in [Conn -> ClientState]
  /\ replies \in [Conn -> Seq(Reply)]
  /\ faults \in Nat

\* Nobody waits for the children: central() ignores SIGCHLD instead, but only
\* after its first fork().  Whatever ends when, at most one zombie is left.
AtMostOneZombie ==
  \A c, d \in Child : child[c].pc = "zombie" /\ child[d].pc = "zombie" => c = d

\* A connection ends with the child that serves it, because no other process
\* holds it then: not a child that was forked later, and not the parent beyond
\* the round in which it accepted it.
OneHolder ==
  /\ \A c, d \in Child : holds[c] \cap holds[d] # {} => c = d
  /\ parent.pc \in {"accept", "signal"} => holds[Parent] = {}

\* A client gets at most one answer, computed for its own address and not for
\* that of a client the parent has accepted meanwhile or of the one before a
\* failed accept().
OwnAnswer ==
  \A k \in Conn :
    /\ Len(replies[k]) <= 1
    /\ \A i \in DOMAIN replies[k] : replies[k][i].address = k /\ replies[k][i].received > 0

\* A client that sends something or leaves has its connection closed in the end,
\* although other clients stay silent for ever, processes are killed and calls
\* fail: the loop waits for no child, and once the tracker is gone no child keeps
\* a listening socket on which clients would wait in vain.
Open(k) == k \in backlog \/ \E p \in Process : k \in holds[p]
EveryConnectionEnds ==
  \A k \in Conn : (client[k].sent > 0 \/ client[k].state = "gone") ~> ~Open(k)

=============================================================================
