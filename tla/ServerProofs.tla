---------------------------- MODULE ServerProofs ----------------------------
(***************************************************************************)
(* Proofs about the server loop, for any number of connections and         *)
(* processes, any backlog and any number of faults.                        *)
(***************************************************************************)
EXTENDS Server, TLAPS

\* What the step of a child, of the loop or of the rest can be.
LEMMA StepKinds ==
  ASSUME Next
  PROVE \/ \E k \in Conn : Connect(k)
        \/ \E k \in Conn : Send(k)
        \/ \E k \in Conn : Leave(k)
        \/ \E k \in Conn : Accept(k)
        \/ AcceptFails
        \/ \E c \in Child : Fork(c)
        \/ ForkFails
        \/ CloseNewsockfd
        \/ IgnoreSigchld
        \/ KillParent
        \/ \E c \in Child : CloseSockfd(c)
        \/ \E c \in Child : NewDatabase(c)
        \/ \E c \in Child : Read(c)
        \/ \E c \in Child : InsertClientInfo(c)
        \/ \E c \in Child : Write(c)
        \/ \E c \in Child : Exit(c)
        \/ \E c \in Child : KillChild(c)
        \/ UNCHANGED vars
  BY Zenon DEF Next, Clients, Loop, HandleClient, Quiet

\* The end of a child keeps every variable in its type.
LEMMA EndType ==
  ASSUME TypeOK, NEW c \in Child, End(c)
  PROVE /\ child' \in [Child -> ChildState]
        /\ listens' \subseteq Process
        /\ holds' \in [Process -> SUBSET Conn]
        /\ backlog' \subseteq Conn
<1>1. Free \in ChildState /\ [Free EXCEPT !.pc = "zombie"] \in ChildState
  BY SegmentsAssumption DEF Free, ChildState, Descriptor, Serving
<1>2. c \in Process
  BY DEF Process
<1> QED
  BY <1>1, <1>2 DEF End, StopListening, TypeOK

LEMMA InitType ==
  ASSUME Init
  PROVE TypeOK
<1>1. Free \in ChildState
  BY SegmentsAssumption DEF Free, ChildState, Descriptor
<1> QED
  BY <1>1, SegmentsAssumption
  DEF Init, TypeOK, ParentState, ClientState, Process, Descriptor

\* Every step keeps every variable in its type.
LEMMA TypeStep ==
  ASSUME TypeOK, [Next]_vars
  PROVE TypeOK'
<1> USE DEF TypeOK
<1>1. ASSUME NEW k \in Conn, Connect(k) PROVE TypeOK'
  BY <1>1 DEF Connect, ClientState
<1>2. ASSUME NEW k \in Conn, Send(k) PROVE TypeOK'
  BY <1>2, SegmentsAssumption DEF Send, ClientState, kernel
<1>3. ASSUME NEW k \in Conn, Leave(k) PROVE TypeOK'
  BY <1>3 DEF Leave, ClientState, kernel
<1>4. ASSUME NEW k \in Conn, Accept(k) PROVE TypeOK'
  BY <1>4 DEF Accept, ParentState, Descriptor, Process
<1>5. CASE AcceptFails
  <2>1. parent' \in ParentState
    BY <1>5 DEF AcceptFails, ParentState, Descriptor
  <2>2. faults' \in Nat
    BY <1>5 DEF AcceptFails, Fault
  <2> QED
    BY <1>5, <2>1, <2>2 DEF AcceptFails, kernel
<1>6. ASSUME NEW c \in Child, Fork(c) PROVE TypeOK'
  <2>1. child' \in [Child -> ChildState]
    BY <1>6, SegmentsAssumption DEF Fork, ChildState, ParentState, Serving
  <2>2. holds' \in [Process -> SUBSET Conn] /\ listens' \subseteq Process
    BY <1>6 DEF Fork, Process
  <2> QED
    BY <1>6, <2>1, <2>2 DEF Fork, ParentState
<1>7. CASE ForkFails
  <2>1. parent' \in ParentState
    BY <1>7 DEF ForkFails, ParentState
  <2>2. faults' \in Nat
    BY <1>7 DEF ForkFails, Fault
  <2> QED
    BY <1>7, <2>1, <2>2 DEF ForkFails, kernel
<1>8. CASE CloseNewsockfd
  BY <1>8 DEF CloseNewsockfd, ParentState, Process
<1>9. CASE IgnoreSigchld
  BY <1>9 DEF IgnoreSigchld, ParentState, kernel
<1>10. CASE KillParent
  <2>1. Free \in ChildState
    BY SegmentsAssumption DEF Free, ChildState, Descriptor
  <2>2. parent' \in ParentState
    BY <1>10 DEF KillParent, ParentState
  <2>3. faults' \in Nat
    BY <1>10 DEF KillParent, Fault
  <2>4. listens' \subseteq Process /\ backlog' \subseteq Conn
    BY <1>10 DEF KillParent, StopListening
  <2>5. child' \in [Child -> ChildState]
    BY <1>10, <2>1 DEF KillParent
  <2>6. holds' \in [Process -> SUBSET Conn]
    BY <1>10 DEF KillParent
  <2> QED
    BY <1>10, <2>2, <2>3, <2>4, <2>5, <2>6 DEF KillParent
<1>11. ASSUME NEW c \in Child, CloseSockfd(c) PROVE TypeOK'
  BY <1>11 DEF CloseSockfd, Goto, StopListening, ChildState, Serving, Process
<1>12. ASSUME NEW c \in Child, NewDatabase(c) PROVE TypeOK'
  <2>1. CASE End(c)
    BY <1>12, <2>1, EndType DEF NewDatabase
  <2>2. CASE Goto(c, "read") /\ UNCHANGED kernel
    <3>1. child' \in [Child -> ChildState]
      BY <1>12, <2>2 DEF NewDatabase, Goto, ChildState, Serving
    <3> QED
      BY <1>12, <2>2, <3>1 DEF NewDatabase, kernel
  <2> QED
    BY <1>12, <2>1, <2>2 DEF NewDatabase
<1>13. ASSUME NEW c \in Child, Read(c) PROVE TypeOK'
  <2>1. child[c].newsockfd \in Conn \cup {NoConn} /\ child[c].pc \in {"read"}
    BY <1>13 DEF Read, ChildState, Descriptor
  <2> DEFINE n == IF child[c].newsockfd = NoConn THEN 0 ELSE client[child[c].newsockfd].sent
  <2>3. n \in 0 .. Segments
    BY <2>1, SegmentsAssumption DEF ClientState
  <2>4. child' = [child EXCEPT ![c].pc = "insertClientInfo", ![c].received = n]
    BY <1>13 DEF Read
  <2>2. child' \in [Child -> ChildState]
    BY <2>3, <2>4 DEF ChildState, Serving
  <2> QED
    BY <1>13, <2>2 DEF Read, kernel
<1>14. ASSUME NEW c \in Child, InsertClientInfo(c) PROVE TypeOK'
  <2>1. CASE End(c)
    BY <1>14, <2>1, EndType DEF InsertClientInfo
  <2>2. CASE Goto(c, "write") /\ UNCHANGED kernel
    BY <1>14, <2>2 DEF InsertClientInfo, Goto, ChildState, Serving, kernel
  <2> QED
    BY <1>14, <2>1, <2>2 DEF InsertClientInfo
<1>15. ASSUME NEW c \in Child, Write(c) PROVE TypeOK'
  <2> DEFINE k == child[c].newsockfd
             r == [address |-> child[c].cliAddr, received |-> child[c].received]
  <2>1. k \in Conn \cup {NoConn} /\ r \in Reply
    BY DEF ChildState, Descriptor, Reply
  <2>2. k \in Conn => Append(replies[k], r) \in Seq(Reply)
    BY <2>1
  <2>3. replies' \in [Conn -> Seq(Reply)]
    <3>1. CASE k = NoConn \/ client[k].state = "gone"
      BY <1>15, <3>1 DEF Write
    <3>2. CASE ~(k = NoConn \/ client[k].state = "gone")
      <4>1. replies' = [replies EXCEPT ![k] = Append(@, r)]
        BY <1>15, <3>2 DEF Write
      <4> QED
        BY <2>1, <2>2, <3>2, <4>1
    <3> QED
      BY <3>1, <3>2
  <2>4. child' \in [Child -> ChildState]
    BY <1>15 DEF Write, Goto, ChildState, Serving
  <2> QED
    BY <1>15, <2>3, <2>4 DEF Write, kernel
<1>16. ASSUME NEW c \in Child, Exit(c) PROVE TypeOK'
  BY <1>16, EndType DEF Exit
<1>17. ASSUME NEW c \in Child, KillChild(c) PROVE TypeOK'
  BY <1>17, EndType DEF KillChild, Fault
<1>18. CASE UNCHANGED vars
  BY <1>18 DEF vars, kernel
<1> QED
  BY <1>1, <1>2, <1>3, <1>4, <1>5, <1>6, <1>7, <1>8, <1>9, <1>10, <1>11, <1>12, <1>13,
     <1>14, <1>15, <1>16, <1>17, <1>18, StepKinds, Zenon

\* Every variable keeps the type the code and the kernel give it.
THEOREM TypeCorrect == Spec => []TypeOK
<1>1. Init => TypeOK
  BY InitType
<1>2. TypeOK /\ [Next]_vars => TypeOK'
  BY TypeStep
<1> QED
  BY <1>1, <1>2, PTL DEF Spec

----------------------------------------------------------------------------
\* Why there is at most one zombie: until SIGCHLD is ignored the first round of
\* the loop is not over, so no more than one child has been forked.
ZombieInv ==
  /\ AtMostOneZombie
  /\ parent.pc # "dead" /\ ~parent.ignoresSigchld =>
       /\ parent.pc \in {"accept", "fork"} => \A c \in Child : child[c].pc = "free"
       /\ \A c, d \in Child : child[c].pc # "free" /\ child[d].pc # "free" => c = d

\* A child that ends becomes a zombie only in the first round.
LEMMA EndZombie ==
  ASSUME TypeOK, ZombieInv, NEW c \in Child, Live(c), End(c), parent' = parent
  PROVE ZombieInv'
<1>1. child[c].pc # "free" /\ child[c].pc # "zombie"
  BY DEF Live, Serving
<1>2. CASE parent.pc = "dead" \/ parent.ignoresSigchld
  <2>1. child' = [child EXCEPT ![c] = Free]
    BY <1>2 DEF End
  <2> QED
    BY <1>2, <2>1 DEF ZombieInv, AtMostOneZombie, Free, TypeOK
<1>3. CASE ~(parent.pc = "dead" \/ parent.ignoresSigchld)
  <2>1. child' = [child EXCEPT ![c] = [Free EXCEPT !.pc = "zombie"]]
    BY <1>3 DEF End
  <2>2. parent.pc \notin {"accept", "fork"}
    BY <1>1, <1>3 DEF ZombieInv
  <2>3. \A d \in Child : d # c => child'[d].pc = "free"
    BY <1>1, <1>3, <2>1 DEF ZombieInv, TypeOK
  <2> QED
    BY <2>1, <2>2, <2>3 DEF ZombieInv, AtMostOneZombie
<1> QED
  BY <1>2, <1>3

\* A child that goes on, and a step that touches neither loop nor children.
LEMMA GoOnZombie ==
  ASSUME TypeOK, ZombieInv, parent' = parent,
         child' \in [Child -> ChildState],
         \A d \in Child : child'[d].pc = child[d].pc \/
                           (child[d].pc \notin {"free", "zombie"} /\ child'[d].pc # "zombie")
  PROVE ZombieInv'
  BY DEF ZombieInv, AtMostOneZombie, TypeOK

LEMMA ZombieStep ==
  ASSUME TypeOK, TypeOK', ZombieInv, [Next]_vars
  PROVE ZombieInv'
<1>1. ASSUME NEW k \in Conn, Connect(k) \/ Send(k) \/ Leave(k) PROVE ZombieInv'
  BY <1>1 DEF Connect, Send, Leave, ZombieInv, AtMostOneZombie
<1>2. ASSUME NEW k \in Conn, Accept(k) PROVE ZombieInv'
  BY <1>2 DEF Accept, ZombieInv, AtMostOneZombie, TypeOK, ParentState
<1>3. CASE AcceptFails
  BY <1>3 DEF AcceptFails, ZombieInv, AtMostOneZombie, TypeOK, ParentState
<1>4. ASSUME NEW c \in Child, Fork(c) PROVE ZombieInv'
  <2>1. \A d \in Child : d # c => child'[d] = child[d]
    BY <1>4 DEF Fork, TypeOK
  <2>2. child'[c].pc = "closeSockfd" /\ parent'.pc = "close"
        /\ parent'.ignoresSigchld = parent.ignoresSigchld /\ parent.pc = "fork"
    BY <1>4 DEF Fork, TypeOK, ParentState
  <2> QED
    BY <2>1, <2>2 DEF ZombieInv, AtMostOneZombie
<1>5. CASE ForkFails
  BY <1>5 DEF ForkFails, ZombieInv, AtMostOneZombie, TypeOK, ParentState
<1>6. CASE CloseNewsockfd
  BY <1>6 DEF CloseNewsockfd, ZombieInv, AtMostOneZombie, TypeOK, ParentState
<1>7. CASE IgnoreSigchld
  BY <1>7 DEF IgnoreSigchld, ZombieInv, AtMostOneZombie, TypeOK, ParentState
<1>8. CASE KillParent
  <2>1. \A c \in Child : child'[c].pc # "zombie"
    BY <1>8 DEF KillParent, Free
  <2>2. parent'.pc = "dead"
    BY <1>8 DEF KillParent, TypeOK, ParentState
  <2> QED
    BY <2>1, <2>2 DEF ZombieInv, AtMostOneZombie
<1>9. ASSUME NEW c \in Child,
             CloseSockfd(c) \/ NewDatabase(c) \/ Read(c) \/ InsertClientInfo(c)
             \/ Write(c) \/ Exit(c) \/ KillChild(c)
      PROVE ZombieInv'
  <2>1. parent' = parent /\ Live(c)
    BY <1>9 DEF CloseSockfd, NewDatabase, Read, InsertClientInfo, Write, Exit, KillChild,
                Live, Serving
  <2>2. CASE End(c)
    BY <2>1, <2>2, EndZombie
  <2>3. CASE ~End(c)
    <3>1. /\ \A d \in Child : d # c => child'[d] = child[d]
          /\ child'[c].pc \in Serving \cup {"exit"}
      BY <1>9, <2>3 DEF CloseSockfd, NewDatabase, Read, InsertClientInfo, Write, Exit,
                        KillChild, Goto, TypeOK, ChildState, Serving
    <3>2. child' \in [Child -> ChildState]
      BY DEF TypeOK
    <3> QED
      BY <2>1, <3>1, <3>2, GoOnZombie DEF Live, Serving
  <2> QED
    BY <2>2, <2>3
<1>10. CASE UNCHANGED vars
  BY <1>10 DEF vars, ZombieInv, AtMostOneZombie
<1> QED
  BY <1>1, <1>2, <1>3, <1>4, <1>5, <1>6, <1>7, <1>8, <1>9, <1>10, StepKinds, Zenon

\* Although nobody waits for the children, at most one of them stays a zombie,
\* however many connections are served.
THEOREM ZombiesBounded == Spec => []AtMostOneZombie
<1>1. Init => ZombieInv
  BY DEF Init, ZombieInv, AtMostOneZombie, Free
<1>2. TypeOK /\ TypeOK' /\ ZombieInv /\ [Next]_vars => ZombieInv'
  BY ZombieStep
<1>3. ZombieInv => AtMostOneZombie
  BY DEF ZombieInv
<1> QED
  BY <1>1, <1>2, <1>3, TypeCorrect, PTL DEF Spec

----------------------------------------------------------------------------
\* Where a connection is: with a client that has not come, in the backlog, with
\* the parent, with one child, or closed.  A descriptor leaves the parent in the
\* round in which it came, so that no later child gets a copy of it.
Of(d) == {d} \ {NoConn}

HolderInv ==
  /\ \A c \in Child : holds[c] = IF Live(c) THEN Of(child[c].newsockfd) ELSE {}
  /\ holds[Parent] = IF parent.pc \in {"fork", "close"} THEN Of(parent.newsockfd) ELSE {}
  /\ \A c, d \in Child : holds[c] \cap holds[d] # {} => c = d
  /\ parent.pc = "fork" => \A c \in Child : holds[c] \cap holds[Parent] = {}
  /\ \A k \in backlog : client[k].state # "new" /\ \A p \in Process : k \notin holds[p]
  /\ \A p \in Process : \A k \in holds[p] : client[k].state # "new"

\* What a step of child c does to the descriptors: nothing, or c gives up its own.
ChildHolds(c) ==
  /\ parent' = parent /\ client' = client
  /\ backlog' \subseteq backlog
  /\ \A d \in Child : d # c => child'[d] = child[d]
  /\ \/ /\ holds' = holds
        /\ child'[c].pc \in Serving \cup {"exit"} /\ child'[c].newsockfd = child[c].newsockfd
     \/ /\ holds' = [holds EXCEPT ![c] = {}]
        /\ child'[c].pc \in {"free", "zombie"}

LEMMA EndHolds ==
  ASSUME TypeOK, NEW c \in Child, End(c), parent' = parent, client' = client
  PROVE ChildHolds(c)
<1>1. child'[c].pc \in {"free", "zombie"} /\ \A d \in Child : d # c => child'[d] = child[d]
  BY DEF End, Free, TypeOK
<1>2. backlog' \subseteq backlog /\ holds' = [holds EXCEPT ![c] = {}]
  BY DEF End, StopListening
<1> QED
  BY <1>1, <1>2 DEF ChildHolds

LEMMA ChildStepHolds ==
  ASSUME TypeOK, NEW c \in Child,
         CloseSockfd(c) \/ NewDatabase(c) \/ Read(c) \/ InsertClientInfo(c)
         \/ Write(c) \/ Exit(c) \/ KillChild(c)
  PROVE Live(c) /\ ChildHolds(c)
<1>1. parent' = parent /\ client' = client /\ Live(c)
  BY DEF CloseSockfd, NewDatabase, Read, InsertClientInfo, Write, Exit, KillChild,
         Live, Serving
<1>2. CASE End(c)
  BY <1>1, <1>2, EndHolds
<1>3. CASE ~End(c)
  <2>1. /\ \A d \in Child : d # c => child'[d] = child[d]
        /\ child'[c].pc \in Serving \cup {"exit"} /\ child'[c].newsockfd = child[c].newsockfd
    BY <1>3 DEF CloseSockfd, NewDatabase, Read, InsertClientInfo, Write, Exit,
                KillChild, Goto, TypeOK, ChildState, Serving
  <2>2. holds' = holds /\ backlog' \subseteq backlog
    BY <1>3 DEF CloseSockfd, NewDatabase, Read, InsertClientInfo, Write, Exit,
                KillChild, StopListening, kernel
  <2> QED
    BY <1>1, <2>1, <2>2 DEF ChildHolds
<1> QED
  BY <1>1, <1>2, <1>3

LEMMA HolderStep ==
  ASSUME TypeOK, HolderInv, [Next]_vars
  PROVE HolderInv'
<1>0. Parent \in Process /\ Child \subseteq Process /\ Parent \notin Child
  BY NamesAssumption DEF Process
<1>1. ASSUME NEW k \in Conn, Connect(k) PROVE HolderInv'
  BY <1>0, <1>1 DEF Connect, HolderInv, Live, TypeOK, ClientState
<1>2. ASSUME NEW k \in Conn, Send(k) \/ Leave(k) PROVE HolderInv'
  <2>1. \A j \in Conn : client'[j].state = "new" => client[j].state = "new"
    BY <1>2 DEF Send, Leave, TypeOK, ClientState
  <2>2. UNCHANGED <<parent, child, kernel>>
    BY <1>2 DEF Send, Leave
  <2> QED
    BY <2>1, <2>2 DEF HolderInv, Live, TypeOK, kernel
<1>3. ASSUME NEW k \in Conn, Accept(k) PROVE HolderInv'
  <2>1. /\ parent'.pc = "fork" /\ parent'.newsockfd = k
        /\ backlog' = backlog \ {k} /\ k \in backlog /\ client' = client /\ child' = child
        /\ holds[Parent] = {}
    BY <1>3 DEF Accept, HolderInv, TypeOK, ParentState
  <2>2. holds'[Parent] = {k} /\ \A c \in Child : holds'[c] = holds[c]
    BY <1>0, <1>3, <2>1 DEF Accept, TypeOK
  <2>3. k # NoConn
    BY NamesAssumption
  <2> QED
    BY <1>0, <2>1, <2>2, <2>3 DEF HolderInv, Live, Of, Process
<1>4. CASE AcceptFails
  BY <1>4 DEF AcceptFails, HolderInv, Live, Of, TypeOK, ParentState, kernel
<1>5. ASSUME NEW c \in Child, Fork(c) PROVE HolderInv'
  <2>1. /\ parent.pc = "fork" /\ parent'.pc = "close" /\ child[c].pc = "free"
        /\ parent'.newsockfd = parent.newsockfd
        /\ child'[c].pc = "closeSockfd" /\ child'[c].newsockfd = parent.newsockfd
        /\ \A d \in Child : d # c => child'[d] = child[d]
    BY <1>5 DEF Fork, TypeOK, ParentState
  <2>2. /\ backlog' = backlog /\ client' = client
        /\ holds'[c] = holds[Parent] /\ holds'[Parent] = holds[Parent]
        /\ \A d \in Child : d # c => holds'[d] = holds[d]
    BY <1>0, <1>5 DEF Fork, TypeOK
  <2> QED
    BY <1>0, <2>1, <2>2 DEF HolderInv, Live, Serving, Process
<1>6. CASE ForkFails
  BY <1>6 DEF ForkFails, HolderInv, Live, TypeOK, ParentState, kernel
<1>7. CASE CloseNewsockfd
  <2>1. /\ parent'.pc = "signal" /\ child' = child /\ backlog' = backlog /\ client' = client
        /\ parent.pc = "close"
    BY <1>7 DEF CloseNewsockfd, TypeOK, ParentState
  <2>2. holds'[Parent] = {} /\ \A c \in Child : holds'[c] = holds[c]
    BY <1>0, <1>7 DEF CloseNewsockfd, HolderInv, Of, TypeOK
  <2> QED
    BY <1>0, <2>1, <2>2 DEF HolderInv, Live, Process
<1>8. CASE IgnoreSigchld
  BY <1>8 DEF IgnoreSigchld, HolderInv, Live, TypeOK, ParentState, kernel
<1>9. CASE KillParent
  <2>1. /\ parent'.pc = "dead" /\ backlog' \subseteq backlog /\ client' = client
        /\ \A c \in Child : Live(c)' = Live(c) /\ (Live(c) => child'[c] = child[c])
    BY <1>9 DEF KillParent, StopListening, Live, Serving, Free, TypeOK, ParentState
  <2>2. holds'[Parent] = {} /\ \A c \in Child : holds'[c] = holds[c]
    BY <1>0, <1>9 DEF KillParent, TypeOK
  <2> QED
    BY <1>0, <2>1, <2>2 DEF HolderInv, Process
<1>10. ASSUME NEW c \in Child,
              CloseSockfd(c) \/ NewDatabase(c) \/ Read(c) \/ InsertClientInfo(c)
              \/ Write(c) \/ Exit(c) \/ KillChild(c)
       PROVE HolderInv'
  <2>1. Live(c) /\ ChildHolds(c)
    BY <1>10, ChildStepHolds
  <2>2. CASE holds' = holds
    BY <1>0, <2>1, <2>2 DEF HolderInv, ChildHolds, Live, Serving, TypeOK, Process
  <2>3. CASE holds' = [holds EXCEPT ![c] = {}]
    BY <1>0, <2>1, <2>3 DEF HolderInv, ChildHolds, Live, Serving, TypeOK, Process
  <2> QED
    BY <2>1, <2>2, <2>3 DEF ChildHolds
<1>11. CASE UNCHANGED vars
  BY <1>11 DEF vars, kernel, HolderInv, Live
<1> QED
  BY <1>1, <1>2, <1>3, <1>4, <1>5, <1>6, <1>7, <1>8, <1>9, <1>10, <1>11, StepKinds, Zenon

LEMMA HolderInit ==
  ASSUME Init
  PROVE HolderInv
  BY NamesAssumption DEF Init, HolderInv, Live, Serving, Free, Of, Process

LEMMA HolderCorrect == Spec => []HolderInv
<1>1. TypeOK /\ HolderInv /\ [Next]_vars => HolderInv'
  BY HolderStep
<1> QED
  BY <1>1, HolderInit, TypeCorrect, PTL DEF Spec

\* A connection is held by one child, and by the parent only in the round in
\* which it accepts it.
THEOREM OneHolderCorrect == Spec => []OneHolder
<1>1. HolderInv => OneHolder
  BY DEF HolderInv, OneHolder
<1> QED
  BY <1>1, HolderCorrect, PTL

----------------------------------------------------------------------------
\* Why an answer is the client's own: whoever holds a connection as newsockfd has
\* its address in cli_addr, which only a later successful accept() changes, and
\* what has been answered is never answered again.
AnswerInv ==
  /\ OwnAnswer
  /\ parent.pc = "fork" /\ parent.newsockfd \in Conn => parent.cliAddr = parent.newsockfd
  /\ \A c \in Child : Live(c) /\ child[c].newsockfd \in Conn =>
       /\ child[c].cliAddr = child[c].newsockfd
       /\ child[c].pc \in {"insertClientInfo", "write"} =>
            child[c].received > 0 \/ client[child[c].newsockfd].state = "gone"
  /\ \A k \in Conn : replies[k] # << >> =>
       /\ client[k].state # "new" /\ k \notin backlog
       /\ parent.pc = "fork" => parent.newsockfd # k
       /\ \A c \in Child : Live(c) /\ child[c].newsockfd = k => child[c].pc = "exit"

\* A step that writes nothing and in which child c, if any, goes on as it was
\* or ends.
LEMMA SilentChild ==
  ASSUME TypeOK, AnswerInv, NEW c \in Child, Live(c),
         UNCHANGED <<parent, client, replies>>, backlog' \subseteq backlog,
         \A d \in Child : d # c => child'[d] = child[d],
         \/ child'[c].pc \in {"free", "zombie"}
         \/ /\ child'[c].newsockfd = child[c].newsockfd /\ child'[c].cliAddr = child[c].cliAddr
            /\ child'[c].pc \in Serving
            /\ child[c].pc # "exit"
            /\ child'[c].newsockfd \in Conn /\ child'[c].pc \in {"insertClientInfo", "write"} =>
                 child'[c].received > 0 \/ client[child[c].newsockfd].state = "gone"
  PROVE AnswerInv'
<1>1. OwnAnswer'
  BY DEF AnswerInv, OwnAnswer
<1>2. \A d \in Child : Live(d)' /\ child'[d].newsockfd \in Conn =>
        /\ child'[d].cliAddr = child'[d].newsockfd
        /\ child'[d].pc \in {"insertClientInfo", "write"} =>
             child'[d].received > 0 \/ client[child'[d].newsockfd].state = "gone"
  BY DEF AnswerInv, Live, Serving
<1>3. \A k \in Conn : replies[k] # << >> =>
        \A d \in Child : Live(d)' /\ child'[d].newsockfd = k => child'[d].pc = "exit"
  BY DEF AnswerInv, Live, Serving
<1> QED
  BY <1>1, <1>2, <1>3 DEF AnswerInv

\* A child writes its one answer, to the client whose address it has.
LEMMA WriteStep ==
  ASSUME TypeOK, HolderInv, AnswerInv, NEW c \in Child, Write(c)
  PROVE AnswerInv'
<1> DEFINE k == child[c].newsockfd
           r == [address |-> child[c].cliAddr, received |-> child[c].received]
<1>1. /\ child[c].pc = "write" /\ Live(c) /\ child'[c].pc = "exit"
      /\ child'[c].newsockfd = k /\ child'[c].cliAddr = child[c].cliAddr
      /\ \A d \in Child : d # c => child'[d] = child[d]
      /\ UNCHANGED <<parent, client, backlog>>
  BY DEF Write, Goto, Live, Serving, TypeOK, ChildState, kernel
<1>2. CASE k = NoConn \/ client[k].state = "gone"
  <2>1. replies' = replies
    BY <1>2 DEF Write
  <2> QED
    BY <1>1, <2>1 DEF AnswerInv, OwnAnswer, Live, Serving
<1>3. CASE ~(k = NoConn \/ client[k].state = "gone")
  <2>1. k \in Conn /\ replies' = [replies EXCEPT ![k] = Append(@, r)]
    BY <1>3 DEF Write, TypeOK, ChildState, Descriptor
  <2>2. replies[k] = << >> /\ r.address = k /\ r.received > 0
    BY <1>1, <1>3, <2>1 DEF AnswerInv
  <2>3. k \in holds[c] /\ c \in Process
    BY <1>1, <1>3 DEF HolderInv, Of, Process
  <2>4. client[k].state # "new" /\ k \notin backlog
    BY <2>3 DEF HolderInv
  <2>5. parent.pc = "fork" => parent.newsockfd # k
    <3>1. SUFFICES ASSUME parent.pc = "fork", parent.newsockfd = k PROVE FALSE
      OBVIOUS
    <3>2. k \in holds[Parent]
      BY <1>3, <3>1 DEF HolderInv, Of
    <3> QED
      BY <2>3, <3>1, <3>2 DEF HolderInv
  <2>6. \A d \in Child : Live(d) /\ child[d].newsockfd = k => d = c
    BY <1>3, <2>3 DEF HolderInv, Of
  <2>7. replies'[k] = <<r>> /\ \A j \in Conn : j # k => replies'[j] = replies[j]
    BY <2>1, <2>2 DEF TypeOK
  <2>8. Len(<<r>>) = 1 /\ DOMAIN <<r>> = {1} /\ <<r>>[1] = r
    OBVIOUS
  <2>9. OwnAnswer'
    <3>1. ASSUME NEW j \in Conn
          PROVE /\ Len(replies'[j]) <= 1
                /\ \A i \in DOMAIN replies'[j] :
                     replies'[j][i].address = j /\ replies'[j][i].received > 0
      <4>1. CASE j = k
        <5> HIDE DEF k, r
        <5>1. replies'[j] = <<r>>
          BY <2>7, <4>1
        <5> QED
          BY <2>2, <2>8, <4>1, <5>1
      <4>2. CASE j # k
        BY <2>7, <4>2 DEF AnswerInv, OwnAnswer
      <4> QED
        BY <4>1, <4>2
    <3> QED
      BY <3>1 DEF OwnAnswer
  <2>10. \A d \in Child : Live(d)' /\ child'[d].newsockfd \in Conn =>
           /\ child'[d].cliAddr = child'[d].newsockfd
           /\ child'[d].pc \in {"insertClientInfo", "write"} =>
                child'[d].received > 0 \/ client[child'[d].newsockfd].state = "gone"
    BY <1>1 DEF AnswerInv, Live, Serving
  <2>11. ASSUME NEW j \in Conn, replies'[j] # << >>
         PROVE /\ client[j].state # "new" /\ j \notin backlog
               /\ parent.pc = "fork" => parent.newsockfd # j
               /\ \A d \in Child : Live(d)' /\ child'[d].newsockfd = j => child'[d].pc = "exit"
    <3>1. CASE j = k
      BY <1>1, <2>4, <2>5, <2>6, <3>1 DEF Live, Serving
    <3>2. CASE j # k
      BY <1>1, <2>7, <2>11, <3>2 DEF AnswerInv, Live, Serving
    <3> QED
      BY <3>1, <3>2
  <2> QED
    BY <1>1, <2>9, <2>10, <2>11 DEF AnswerInv
<1> QED
  BY <1>2, <1>3

LEMMA AnswerStep ==
  ASSUME TypeOK, TypeOK', HolderInv, AnswerInv, [Next]_vars
  PROVE AnswerInv'
<1>0. Parent \in Process /\ Child \subseteq Process /\ Parent \notin Child
  BY NamesAssumption DEF Process
<1>1. ASSUME NEW k \in Conn, Connect(k) PROVE AnswerInv'
  <2>1. replies[k] = << >>
    BY <1>1 DEF Connect, AnswerInv
  <2> QED
    BY <1>1, <2>1 DEF Connect, AnswerInv, OwnAnswer, Live, Serving, TypeOK, ClientState
<1>2. ASSUME NEW k \in Conn, Send(k) \/ Leave(k) PROVE AnswerInv'
  <2>1. /\ \A j \in Conn : client'[j].state = "new" => client[j].state = "new"
        /\ \A j \in Conn : client[j].state = "gone" => client'[j].state = "gone"
    BY <1>2 DEF Send, Leave, TypeOK, ClientState
  <2>2. UNCHANGED <<parent, child, kernel, replies>>
    BY <1>2 DEF Send, Leave
  <2> QED
    <3>1. \A c \in Child : Live(c)' = Live(c)
      BY <2>2 DEF Live
    <3>2. \A c \in Child : Live(c) /\ child[c].newsockfd \in Conn =>
            /\ child[c].cliAddr = child[c].newsockfd
            /\ child[c].pc \in {"insertClientInfo", "write"} =>
                 child[c].received > 0 \/ client'[child[c].newsockfd].state = "gone"
      <4>1. ASSUME NEW c \in Child, Live(c), child[c].newsockfd \in Conn
            PROVE /\ child[c].cliAddr = child[c].newsockfd
                  /\ child[c].pc \in {"insertClientInfo", "write"} =>
                       child[c].received > 0 \/ client[child[c].newsockfd].state = "gone"
        BY <4>1, Zenon DEF AnswerInv
      <4> QED
        BY <2>1, <4>1
    <3>3. OwnAnswer'
      BY <2>2 DEF AnswerInv, OwnAnswer
    <3>4. \A j \in Conn : replies[j] # << >> => client'[j].state # "new"
      BY <2>1, Zenon DEF AnswerInv
    <3> QED
      BY <2>2, <3>1, <3>2, <3>3, <3>4 DEF AnswerInv, kernel
<1>3. ASSUME NEW k \in Conn, Accept(k) PROVE AnswerInv'
  <2>1. /\ parent'.pc = "fork" /\ parent'.newsockfd = k /\ parent'.cliAddr = k
        /\ k \in backlog /\ backlog' \subseteq backlog
        /\ UNCHANGED <<child, client, replies>>
    BY <1>3 DEF Accept, TypeOK, ParentState
  <2>2. replies[k] = << >>
    BY <2>1 DEF AnswerInv
  <2> QED
    BY <2>1, <2>2 DEF AnswerInv, OwnAnswer, Live, Serving
<1>4. CASE AcceptFails
  <2>1. /\ parent'.newsockfd = NoConn /\ NoConn \notin Conn
        /\ UNCHANGED <<child, kernel, client, replies>>
    BY <1>4, NamesAssumption DEF AcceptFails, TypeOK, ParentState
  <2> QED
    BY <2>1 DEF AnswerInv, OwnAnswer, Live, Serving, kernel
<1>5. ASSUME NEW c \in Child, Fork(c) PROVE AnswerInv'
  <2>1. /\ parent.pc = "fork" /\ parent'.pc = "close" /\ child'[c].pc = "closeSockfd"
        /\ child'[c].newsockfd = parent.newsockfd /\ child'[c].cliAddr = parent.cliAddr
        /\ \A d \in Child : d # c => child'[d] = child[d]
        /\ UNCHANGED <<backlog, client, replies>>
    BY <1>5 DEF Fork, TypeOK, ParentState
  <2> QED
    BY <2>1 DEF AnswerInv, OwnAnswer, Live, Serving
<1>6. CASE ForkFails \/ CloseNewsockfd \/ IgnoreSigchld
  <2>1. parent'.pc # "fork" /\ UNCHANGED <<child, backlog, client, replies>>
    BY <1>6 DEF ForkFails, CloseNewsockfd, IgnoreSigchld, TypeOK, ParentState, kernel
  <2> QED
    BY <2>1 DEF AnswerInv, OwnAnswer, Live, Serving
<1>7. CASE KillParent
  <2>1. /\ parent'.pc = "dead" /\ backlog' \subseteq backlog /\ UNCHANGED <<client, replies>>
        /\ \A c \in Child : Live(c)' = Live(c) /\ (Live(c) => child'[c] = child[c])
    BY <1>7 DEF KillParent, StopListening, Live, Serving, Free, TypeOK, ParentState
  <2> QED
    BY <2>1 DEF AnswerInv, OwnAnswer
<1>8. ASSUME NEW c \in Child, Write(c) PROVE AnswerInv'
  BY <1>8, WriteStep
<1>9. ASSUME NEW c \in Child,
             CloseSockfd(c) \/ NewDatabase(c) \/ Read(c) \/ InsertClientInfo(c)
             \/ Exit(c) \/ KillChild(c)
      PROVE AnswerInv'
  <2>1. Live(c) /\ ChildHolds(c)
    BY <1>9, ChildStepHolds
  <2>2. UNCHANGED <<parent, client, replies>>
    BY <1>9 DEF CloseSockfd, NewDatabase, Read, InsertClientInfo, Exit, KillChild
  <2>3. CASE End(c)
    <3>1. child'[c].pc \in {"free", "zombie"}
      BY <2>3 DEF End, Free, TypeOK
    <3> QED
      BY <2>1, <2>2, <3>1, SilentChild DEF ChildHolds
  <2>4. CASE ~End(c)
    <3>1. /\ child'[c].newsockfd = child[c].newsockfd /\ child'[c].cliAddr = child[c].cliAddr
          /\ child'[c].pc \in Serving /\ child[c].pc # "exit"
      BY <1>9, <2>4 DEF CloseSockfd, NewDatabase, Read, InsertClientInfo, Exit, KillChild,
                        Goto, TypeOK, ChildState, Serving
    <3>2. child'[c].newsockfd \in Conn /\ child'[c].pc \in {"insertClientInfo", "write"} =>
            child'[c].received > 0 \/ client[child[c].newsockfd].state = "gone"
      <4>1. CASE Read(c)
        BY <2>1, <3>1, <4>1, NamesAssumption DEF Read, TypeOK, ChildState, ClientState
      <4>2. CASE CloseSockfd(c) \/ NewDatabase(c)
        BY <2>4, <4>2 DEF CloseSockfd, NewDatabase, Goto, TypeOK, ChildState
      <4>3. CASE InsertClientInfo(c)
        <5>1. child[c].pc = "insertClientInfo" /\ child'[c].received = child[c].received
          BY <2>4, <4>3 DEF InsertClientInfo, Goto, TypeOK, ChildState
        <5> QED
          BY <2>1, <3>1, <5>1 DEF AnswerInv
      <4> QED
        BY <1>9, <2>4, <4>1, <4>2, <4>3 DEF Exit, KillChild
    <3> QED
      BY <2>1, <2>2, <3>1, <3>2, SilentChild DEF ChildHolds
  <2> QED
    BY <2>3, <2>4
<1>10. CASE UNCHANGED vars
  BY <1>10 DEF vars, kernel, AnswerInv, OwnAnswer, Live, Serving
<1> QED
  BY <1>1, <1>2, <1>3, <1>4, <1>5, <1>6, <1>7, <1>8, <1>9, <1>10, StepKinds, Zenon

LEMMA AnswerInit ==
  ASSUME Init
  PROVE AnswerInv
  BY DEF Init, AnswerInv, OwnAnswer, Live, Serving, Free

\* A client gets at most one answer, and the one for its own address and request.
THEOREM OwnAnswerCorrect == Spec => []OwnAnswer
<1>1. TypeOK /\ TypeOK' /\ HolderInv /\ AnswerInv /\ [Next]_vars => AnswerInv'
  BY AnswerStep
<1>2. AnswerInv => OwnAnswer
  BY DEF AnswerInv
<1> QED
  BY <1>1, <1>2, AnswerInit, TypeCorrect, HolderCorrect, PTL DEF Spec

=============================================================================
