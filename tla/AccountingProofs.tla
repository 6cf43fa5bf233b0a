-------------------------- MODULE AccountingProofs --------------------------
(***************************************************************************)
(* The books of Accounting for every number of users, torrents, announces, *)
(* children and failures.  Everything rests on two facts: the announces of *)
(* a user who waits for each answer are processed one after the other      *)
(* (Serial), and those of other users never touch his rows (OthersClients, *)
(* OthersRecords).                                                         *)
(***************************************************************************)
EXTENDS Accounting, AnnounceProofs

\* A step of the books: an announce, a step of one child, a minute, or nothing.
LEMMA AccountingKinds ==
  ASSUME [AccountingNext]_<<vars, history>>
  PROVE  \/ \E c \in Child, r \in Request : Fork(c, r) /\ Send(r) /\ Join(c, r)
         \/ \E c \in Child : ChildStep(c) /\ UNCHANGED history
         \/ Tick /\ Minute
         \/ UNCHANGED <<vars, history>>
  BY DEF AccountingNext, Finished, ChildStep

\* Accounting only watches the tracker: what holds of Announce holds of it too.
THEOREM AccountingIsAnnounce == AccountingSpec => Spec
<1>1. AccountingInit => Init
  BY DEF AccountingInit
<1>2. [AccountingNext]_<<vars, history>> => [Next]_vars
  BY DEF AccountingNext, Next
<1> QED  BY <1>1, <1>2, PTL DEF AccountingSpec, Spec

----------------------------------------------------------------------------
HistoryOK ==
  /\ reported \in [Key -> Bytes] /\ moved \in [Key -> [Counter -> Int]]
  /\ seeded \in [Key -> Nat]
  /\ restarted \in [Key -> SUBSET {"below", "mixed"}]
  /\ company \in [Child -> Nat] /\ overlaps \in [User -> Nat]

LiveOf(u) == {c \in Child : Live(c) /\ child[c].req.user = u}

\* A user whose announces have never overlapped has at most one alive.
Serial == \A u \in User : Apart(u) => \A c, d \in LiveOf(u) : c = d

\* An address belongs to a user who announces from it.
Owned ==
  \A ip \in DOMAIN ipAddress : \E r \in Request : r.ip = ip /\ r.user = ipAddress[ip].user

\* Statements that follow the check of the account.
PastAccount == {"ipaIsBanned", "torrentExists"} \cup (Statement \ GateStatement)

\* Ground is what the proofs stand on: what Announce promises, and the books.
Books ==
  /\ HistoryOK /\ Serial /\ Owned
  /\ \A c \in Child : child[c].req \in Request
  /\ \A c \in Child : child[c].pc \in PastAccount => account[child[c].req.user] = "member"

Ground == TypeOK /\ ClientIdValid /\ JoinInv /\ Books

LEMMA SomeAlive ==
  ASSUME NEW S \in SUBSET Child
  PROVE  IsFiniteSet(S) /\ Cardinality(S) \in Nat /\ (Cardinality(S) = 0 <=> S = {})
<1>1. IsFiniteSet(S)  BY ChildAssumption, FS_Subset
<1> QED  BY <1>1, FS_CardinalityType, FS_EmptySet

\* What an announce does to the history.
LEMMA HistoryFork ==
  ASSUME TypeOK, HistoryOK, NEW c \in Child, NEW r \in Request, Send(r), Join(c, r)
  PROVE  HistoryOK'
<1> DEFINE k    == <<r.user, r.torrent>>
           base == IF Restart(reported[k], r.bytes) = {} THEN reported[k] ELSE Zero
<1>1. r \in RequestType /\ k \in Key  BY RequestAssumption DEF RequestType, Key
<1>2. r.bytes \in Bytes /\ reported[k] \in Bytes /\ Zero \in Bytes
  <2>1. Zero \in Bytes  BY WAssumption DEF Zero, Bytes, Word
  <2> QED  BY <1>1, <2>1 DEF HistoryOK, RequestType
<1>3. reported' \in [Key -> Bytes]  BY <1>2 DEF Send, HistoryOK
<1>4. moved' \in [Key -> [Counter -> Int]]
  <2>1. base \in Bytes  BY <1>2
  <2> HIDE DEF base
  <2>2. [n \in Counter |-> moved[k][n] + r.bytes[n] - base[n]] \in [Counter -> Int]
    BY <1>1, <1>2, <2>1, WAssumption DEF HistoryOK, Bytes, Word
  <2>3. moved' = [moved EXCEPT ![k] = [n \in Counter |-> moved[k][n] + r.bytes[n] - base[n]]]
    BY DEF Send, base
  <2> QED  BY <2>2, <2>3 DEF HistoryOK
<1>5. restarted' \in [Key -> SUBSET {"below", "mixed"}]
  <2>1. Restart(reported[k], r.bytes) \in SUBSET {"below", "mixed"}  BY DEF Restart
  <2> QED  BY <1>1, <2>1 DEF Send, HistoryOK
<1>6. company' \in [Child -> Nat]
  <2>1. Cardinality({d \in Child : Live(d)}) \in Nat  BY SomeAlive
  <2> QED  BY <2>1 DEF Join, HistoryOK
<1>7. overlaps' \in [User -> Nat]
  <2> DEFINE same == {d \in {e \in Child : Live(e)} : child[d].req.user = r.user}
  <2>1. Cardinality(same) \in Nat  BY SomeAlive
  <2>2. overlaps' = [overlaps EXCEPT ![r.user] = overlaps[r.user] + Cardinality(same)]
    BY DEF Join
  <2> QED  BY <1>1, <2>1, <2>2 DEF HistoryOK, RequestType
<1> QED  BY <1>3, <1>4, <1>5, <1>6, <1>7 DEF HistoryOK, Send

LEMMA SerialFork ==
  ASSUME TypeOK, HistoryOK, Serial, NEW c \in Child, NEW r \in Request, Fork(c, r), Join(c, r)
  PROVE  /\ Serial'
         /\ \A u \in User : Apart(u)' => Apart(u)
         /\ Apart(r.user)' => LiveOf(r.user) = {}
<1>0. child \in Children /\ r.user \in User
  BY RequestAssumption DEF TypeOK, Children, RequestType
<1>1. /\ child[c].pc = "idle" /\ child'[c].pc = "getUserId" /\ child'[c].req = r
      /\ \A d \in Child \ {c} : child'[d] = child[d]
  BY <1>0, ForkEffect
<1> DEFINE same == {d \in {e \in Child : Live(e)} : child[d].req.user = r.user}
<1>2. overlaps' = [overlaps EXCEPT ![r.user] = overlaps[r.user] + Cardinality(same)]
  BY DEF Join
<1>3. same = LiveOf(r.user) /\ Cardinality(same) \in Nat /\ (Cardinality(same) = 0 <=> same = {})
  BY SomeAlive DEF LiveOf
<1> HIDE DEF same
<1>4. overlaps[r.user] \in Nat /\ overlaps'[r.user] = overlaps[r.user] + Cardinality(same)
      /\ \A u \in User \ {r.user} : overlaps'[u] = overlaps[u]
  BY <1>0, <1>2 DEF HistoryOK
<1>5. ASSUME NEW u \in User, Apart(u)' PROVE Apart(u) /\ (u = r.user => LiveOf(u) = {})
  BY <1>3, <1>4, <1>5 DEF Apart
<1>6. \A u \in User : LiveOf(u)' = IF u = r.user THEN LiveOf(u) \cup {c} ELSE LiveOf(u)
  <2>1. ~Live(c) /\ Live(c)' /\ \A d \in Child \ {c} : Live(d)' <=> Live(d)
    BY <1>1 DEF Live, Ended
  <2>2. \A u : LiveOf(u)' = IF u = r.user THEN LiveOf(u) \cup {c} ELSE LiveOf(u)
    BY <1>1, <2>1 DEF LiveOf
  <2> QED  BY <2>2
<1>7. Serial'  BY <1>5, <1>6 DEF Serial
<1> QED  BY <1>0, <1>5, <1>7

\* A step of a child brings none to life.
LEMMA LiveStep ==
  ASSUME TypeOK, NEW c \in Child, ChildStep(c)
  PROVE  /\ Live(c)
         /\ \A d \in Child : child'[d].req = child[d].req /\ (Live(d)' => Live(d))
         /\ \A u : LiveOf(u)' \subseteq LiveOf(u)
<1>1. Moves(child[c], child'[c]) /\ \A d \in Child \ {c} : child'[d] = child[d]
  BY ChildStepEffect DEF Effect
<1>2. Live(c)
  BY <1>1 DEF Moves, Succeeds, Follows, Fails, Dies, Live, Statement, GateStatement, ClientStatement,
     UpdateStatement, BonusStatement, TotalsStatement, AnswerStatement, Ended
<1>3. \A d \in Child : child'[d].req = child[d].req /\ (Live(d)' => Live(d))
  BY <1>1, <1>2 DEF Moves, Live
<1> QED  BY <1>2, <1>3 DEF LiveOf

\* Addresses keep their owner; a new one belongs to the announcing user.
LEMMA AddressStep ==
  ASSUME NEW c \in Child, ChildStep(c)
  PROVE  /\ \A ip \in DOMAIN ipAddress : ip \in DOMAIN ipAddress' /\ ipAddress'[ip] = ipAddress[ip]
         /\ \A ip \in DOMAIN ipAddress' : ip \notin DOMAIN ipAddress =>
              ip = child[c].req.ip /\ ipAddress'[ip].user = child[c].req.user
<1>1. CASE Execute(c) /\ ~Writes(c)
  BY <1>1, OthersRead DEF rows
<1>2. CASE CreateIpAddress(c)
  BY <1>2 DEF CreateIpAddress, Put
<1>3. CASE Writes(c) /\ ~CreateIpAddress(c)
  BY <1>3 DEF Writes, UpdateClient, CreateClient, UpdateClientTorrents, CreateClientTorrent,
     UpdateUserBonusPoints, UpdateUserTorrentTotals, CreateUserTorrentTotals
<1>4. CASE Throw(c) \/ Die(c)
  BY <1>4 DEF Throw, Die, rows
<1> QED  BY <1>1, <1>2, <1>3, <1>4 DEF ChildStep

LEMMA AccountStep ==
  ASSUME TypeOK, NEW c \in Child, ChildStep(c), child'[c].pc \in PastAccount,
         child[c].pc \in PastAccount => account[child[c].req.user] = "member"
  PROVE  account[child[c].req.user] = "member"
<1>1. Moves(child[c], child'[c])  BY ChildStepEffect DEF Effect
<1>2. child[c].pc \notin PastAccount => child'[c].pc = "ipaIsBanned" /\ Succeeds(child[c], child'[c])
  BY <1>1 DEF Moves, Succeeds, Follows, Fails, Caught, Dies, PastAccount, Statement, GateStatement,
     ClientStatement, UpdateStatement, BonusStatement, TotalsStatement, AnswerStatement
<1> QED  BY <1>2 DEF Succeeds

LEMMA BooksStep ==
  ASSUME TypeOK, Books, [AccountingNext]_<<vars, history>>
  PROVE  Books'
<1>0. child \in Children  BY DEF TypeOK, Children
<1>1. ASSUME NEW c \in Child, NEW r \in Request, Fork(c, r), Send(r), Join(c, r)
      PROVE  Books'
  <2>1. HistoryOK' /\ Serial'  BY <1>1, HistoryFork, SerialFork DEF Books
  <2>2. /\ child'[c].pc = "getUserId" /\ child'[c].req = r
        /\ \A d \in Child \ {c} : child'[d] = child[d]
        /\ UNCHANGED <<ipAddress, account>>
    BY <1>0, <1>1, ForkEffect DEF Fork, rows, site
  <2>3. "getUserId" \notin PastAccount  BY DEF PastAccount, GateStatement
  <2> QED  BY <2>1, <2>2, <2>3 DEF Books, Owned
<1>2. ASSUME NEW c \in Child, ChildStep(c), UNCHANGED history
      PROVE  Books'
  <2>1. HistoryOK' /\ overlaps' = overlaps  BY <1>2 DEF HistoryOK, history, Books
  <2>2. Serial'  BY <1>2, <2>1, LiveStep DEF Serial, Apart, Books
  <2>3. \A d \in Child : child'[d].req = child[d].req  BY <1>2, LiveStep
  <2>4. Owned'
    <3> SUFFICES ASSUME NEW ip \in DOMAIN ipAddress'
                 PROVE  \E r \in Request : r.ip = ip /\ r.user = ipAddress'[ip].user
      BY DEF Owned
    <3>1. CASE ip \in DOMAIN ipAddress  BY <1>2, <3>1, AddressStep DEF Owned, Books
    <3>2. CASE ip \notin DOMAIN ipAddress  BY <1>2, <3>2, AddressStep DEF Books
    <3> QED  BY <3>1, <3>2
  <2>5. account' = account  BY <1>2, ChildStepTables DEF TableEffect
  <2>6. \A d \in Child \ {c} : child'[d] = child[d]
    BY <1>2, ChildStepEffect DEF Effect
  <2>7. child'[c].pc \in PastAccount => account[child[c].req.user] = "member"
    BY <1>2, AccountStep DEF Books
  <2>8. \A d \in Child : child'[d].pc \in PastAccount => account'[child'[d].req.user] = "member"
    BY <2>3, <2>5, <2>6, <2>7 DEF Books
  <2> QED  BY <2>1, <2>2, <2>3, <2>4, <2>8 DEF Books
<1>3. CASE Tick /\ Minute
  <2>1. /\ UNCHANGED <<child, ipAddress, account>>
        /\ UNCHANGED <<reported, moved, restarted, company, overlaps>>
    BY <1>3 DEF Tick, Minute, rows, site
  <2>2. seeded' \in [Key -> Nat]  BY <1>3 DEF Minute, Books, HistoryOK
  <2> QED  BY <2>1, <2>2 DEF Books, HistoryOK, Serial, Apart, LiveOf, Live, Owned
<1>4. CASE UNCHANGED <<vars, history>>
  BY <1>4 DEF vars, rows, site, history, Books, HistoryOK, Serial, Apart, LiveOf, Live, Owned
<1> QED  BY <1>1, <1>2, <1>3, <1>4, AccountingKinds

LEMMA GroundHolds == AccountingSpec => []Ground
<1>1. AccountingInit => Books
  <2> SUFFICES ASSUME AccountingInit PROVE Books
    OBVIOUS
  <2>1. child = [c \in Child |-> Idle] /\ ipAddress = Empty  BY DEF AccountingInit, Init
  <2>2. Idle.pc = "idle" /\ Idle.req \in Request
    BY RequestAssumption DEF Idle
  <2>3. HistoryOK
    <3>1. Zero \in Bytes /\ Zero \in [Counter -> Int]  BY WAssumption DEF Zero, Bytes, Word
    <3> QED  BY <3>1 DEF AccountingInit, HistoryOK
  <2>4. "idle" \notin PastAccount
    BY DEF PastAccount, Statement, GateStatement, ClientStatement, UpdateStatement, BonusStatement,
       TotalsStatement, AnswerStatement
  <2>5. Serial  BY <2>1, <2>2 DEF Serial, LiveOf, Live
  <2> QED  BY <2>1, <2>2, <2>3, <2>4, <2>5 DEF Books, Owned, Empty
<1>2. TypeOK /\ Books /\ [AccountingNext]_<<vars, history>> => Books'
  BY BooksStep
<1> QED
  BY <1>1, <1>2, AccountingIsAnnounce, TypeCorrect, ClientIdStaysValid, JoinInvHolds, PTL
     DEF AccountingSpec, Ground

----------------------------------------------------------------------------
\* The users of the addresses: where user u announces from, nobody else does, and
\* what leads to him has been made by his announces.
LEMMA PrivateAddress ==
  ASSUME Ground, NEW u \in User, Private(u), NEW c \in Child, child[c].req.ip \in DOMAIN ipAddress
  PROVE  ipAddress[child[c].req.ip].user = u <=> child[c].req.user = u
<1>1. PICK s \in Request : s.ip = child[c].req.ip /\ s.user = ipAddress[child[c].req.ip].user
  BY DEF Ground, Books, Owned
<1>2. child[c].req \in Request  BY DEF Ground, Books
<1> QED  BY <1>1, <1>2 DEF Private

LEMMA PrivateApart ==
  ASSUME Ground, NEW u \in User, Private(u), NEW c \in Child, NEW d \in Child,
         child[c].req.user = u, child[d].req.user # u
  PROVE  child[c].req.ip # child[d].req.ip
  BY DEF Ground, Books, Private

\* A step of child c changes only clients at its own address and port: one keeps
\* its place and may get a new peer id, and one may be added.
LEMMA OthersClients ==
  ASSUME TypeOK, NEW c \in Child, ChildStep(c), NEW i \in DOMAIN client'
  PROVE  \/ i \in DOMAIN client /\ client'[i] = client[i]
         \/ /\ client'[i].ip = child[c].req.ip /\ client'[i].port = child[c].req.port
            /\ \/ i \in DOMAIN client /\ client[i].ip = child[c].req.ip
                                      /\ client[i].port = child[c].req.port
               \/ /\ i \notin DOMAIN client /\ child[c].pc = "createClient"
                  /\ i = Len(client) + 1 /\ ClientIds(child[c].req) = {}
<1>0. client \in Seq(ClientRow)  BY DEF TypeOK
<1>1. CASE Execute(c) /\ ~Writes(c)
  BY <1>1, OthersRead DEF rows
<1>2. CASE CreateClient(c)
  <2>1. CASE client' = client  BY <2>1
  <2>2. CASE /\ ClientIds(child[c].req) = {}
             /\ client' = Append(client, [peer |-> child[c].req.peer, ip |-> child[c].req.ip,
                                          port |-> child[c].req.port])
    BY <1>0, <1>2, <2>2 DEF CreateClient, At
  <2> QED  BY <1>2, <2>1, <2>2 DEF CreateClient
<1>3. CASE UpdateClient(c)
  <2> DEFINE at == {j \in DOMAIN client : /\ client[j].ip = child[c].req.ip
                                          /\ client[j].port = child[c].req.port}
             changed == {j \in at : client[j].peer # child[c].req.peer}
  <2>1. CASE client' = client  BY <2>1
  <2>2. CASE client' = [j \in DOMAIN client |->
                          IF j \in changed THEN [client[j] EXCEPT !.peer = child[c].req.peer]
                          ELSE client[j]]
    <3>1. i \in DOMAIN client /\ client[i] \in ClientRow  BY <1>0, <2>2
    <3>2. CASE i \in changed  BY <2>2, <3>1, <3>2 DEF ClientRow
    <3>3. CASE i \notin changed  BY <2>2, <3>1, <3>3
    <3> QED  BY <3>2, <3>3
  <2> QED  BY <1>3, <2>1, <2>2 DEF UpdateClient
<1>4. CASE Writes(c) /\ ~CreateClient(c) /\ ~UpdateClient(c)
  BY <1>4 DEF Writes, CreateIpAddress, UpdateClientTorrents, CreateClientTorrent,
     UpdateUserBonusPoints, UpdateUserTorrentTotals, CreateUserTorrentTotals
<1>5. CASE Throw(c) \/ Die(c)
  BY <1>5 DEF Throw, Die, rows
<1> QED  BY <1>1, <1>2, <1>3, <1>4, <1>5 DEF ChildStep

\* The way to updateClient and createClient: only if the client is unknown there,
\* and then if no client is at the endpoint.
Endpoint(r) == {i \in DOMAIN client : client[i].ip = r.ip /\ client[i].port = r.port}

LEMMA UnknownClient ==
  ASSUME TypeOK, NEW c \in Child, ChildStep(c)
  PROVE  /\ child'[c].pc = "updateClient" =>
              ClientIds(child[c].req) = {} /\ client' = client
         /\ child'[c].pc = "createClient" =>
              /\ child[c].pc = "updateClient" /\ client' = client
              /\ \A i \in Endpoint(child[c].req) : client[i].peer = child[c].req.peer
<1>0. child \in Children /\ child[c] \in ChildState /\ Moves(child[c], child'[c])
  BY ChildStepEffect DEF TypeOK, Children, Effect
<1> SUFFICES ASSUME child'[c].pc \in {"updateClient", "createClient"}
             PROVE  /\ child'[c].pc = "updateClient" =>
                         ClientIds(child[c].req) = {} /\ client' = client
                    /\ child'[c].pc = "createClient" =>
                         /\ child[c].pc = "updateClient" /\ client' = client
                         /\ \A i \in Endpoint(child[c].req) : client[i].peer = child[c].req.peer
  OBVIOUS
<1>1. /\ child'[c].pc = "updateClient" => child[c].pc = "getClientId"
      /\ child'[c].pc = "createClient" => child[c].pc = "updateClient"
  BY <1>0 DEF Moves, Succeeds, Follows, Fails, Caught, Dies
<1>2. ~Throw(c) /\ ~Die(c)
  <2>1. CASE Throw(c)
    <3>1. child'[c].pc = Caught(child[c].pc)  BY <1>0, <2>1 DEF Throw, Raise, Children, ChildState
    <3> QED  BY <1>1, <3>1 DEF Caught, UpdateStatement, BonusStatement
  <2>2. CASE Die(c)
    <3>1. child'[c].pc = "dead"  BY <1>0, <2>2 DEF Die, Goto, Children, ChildState
    <3> QED  BY <3>1
  <2> QED  BY <2>1, <2>2
<1>3. GetClientId(c) \/ UpdateClient(c)
  BY <1>1, <1>2
     DEF ChildStep, Execute, At, GetUserId, UserCanLeech, IpaIsBanned, TorrentExists, GetIpaId,
         CreateIpAddress, GetIpaIdAgain, CreateClient,
         SetOldUploadAndDownload, NewSeedMinutes, UpdateClientTorrents, CreateClientTorrent,
         TotalTimeActive, CalcBonusPoints, UpdateUserBonusPoints, TotalsExist,
         UpdateUserTorrentTotals, CreateUserTorrentTotals, GetTorrentData, GetPeers,
         BuildErrorDict, BuildDictionary
<1>4. CASE GetClientId(c)
  <2>1. child[c].pc = "getClientId" /\ client' = client  BY <1>4 DEF GetClientId, At, rows
  <2>2. ClientIds(child[c].req) # {} => child'[c].pc = "setOldUploadAndDownload"
    BY <1>0, <1>4 DEF GetClientId, Children, ChildState
  <2> QED  BY <1>1, <2>1, <2>2
<1>5. CASE UpdateClient(c)
  <2> DEFINE changed == {j \in Endpoint(child[c].req) : client[j].peer # child[c].req.peer}
  <2>1. child[c].pc = "updateClient"  BY <1>5 DEF UpdateClient, At
  <2>2. changed # {} => child'[c].pc \in {"getIpaId", "buildErrorDict"}
    <3>1. ASSUME Raise(c) PROVE child'[c].pc = "buildErrorDict"
      BY <1>0, <2>1, <3>1 DEF Raise, Caught, Children, ChildState, UpdateStatement, BonusStatement
    <3>2. ASSUME child' = [child EXCEPT ![c].pc = "getIpaId", ![c].again = TRUE]
          PROVE  child'[c].pc = "getIpaId"
      BY <1>0, <3>2 DEF Children, ChildState
    <3> QED  BY <1>5, <3>1, <3>2 DEF UpdateClient, Endpoint
  <2>3. changed = {} => client' = client  BY <1>5 DEF UpdateClient, Endpoint
  <2> QED  BY <1>1, <2>1, <2>2, <2>3
<1> QED  BY <1>3, <1>4, <1>5

\* What is known of the clients of a user who waits and shares no address.
Calm(u) == Apart(u) /\ Private(u)
OwnerOf(i) == ipAddress[client[i].ip].user

ClientsOf(u) ==
  /\ \A i, j \in DOMAIN client :
       /\ client[i].ip = client[j].ip /\ client[i].port = client[j].port
       /\ OwnerOf(i) = u
       => i = j
  /\ \A c \in LiveOf(u) :
       /\ child[c].pc = "updateClient" => ClientIds(child[c].req) = {}
       /\ child[c].pc = "createClient" => Endpoint(child[c].req) = {}

ClientsInv == \A u \in User : Calm(u) => ClientsOf(u)

\* No client changes its address, and no address its owner.
LEMMA OwnerKept ==
  ASSUME Ground, NEW c \in Child, ChildStep(c)
  PROVE  \A i \in DOMAIN client : i \in DOMAIN client' /\ OwnerOf(i)' = OwnerOf(i)
<1>1. ClientsKept  BY ChildStepTables DEF TableEffect, Ground
<1>2. \A i \in DOMAIN client : client[i].ip \in DOMAIN ipAddress
  BY DEF Ground, JoinInv, JoinsComplete
<1> QED  BY <1>1, <1>2, AddressStep DEF ClientsKept, OwnerOf

LEMMA ClientsStep ==
  ASSUME Ground, NEW c \in Child, ChildStep(c), NEW u \in User, Calm(u), ClientsOf(u)
  PROVE  ClientsOf(u)'
<1>0. /\ TypeOK /\ Private(u) /\ Live(c)
      /\ \A d \in LiveOf(u) : d = c \/ (d # c /\ c \notin LiveOf(u))
      /\ \A d \in Child \ {c} : child'[d] = child[d]
      /\ child'[c].req = child[c].req
      /\ LiveOf(u)' \subseteq LiveOf(u)
  BY LiveStep, ChildStepEffect DEF Ground, Calm, Books, Serial, Effect
<1>1. ASSUME NEW i \in DOMAIN client', NEW j \in DOMAIN client',
             client'[i].ip = client'[j].ip, client'[i].port = client'[j].port,
             OwnerOf(i)' = u
      PROVE  i = j
  <2>1. ClientsKept  BY <1>0, ChildStepTables DEF TableEffect
  <2>2. \A k \in DOMAIN client' : k \notin DOMAIN client =>
          /\ k = Len(client) + 1 /\ client'[k].ip = child[c].req.ip
          /\ client'[k].port = child[c].req.port
          /\ child[c].pc = "createClient"
    BY <1>0, OthersClients
  <2>3. CASE child[c].req.user = u /\ child[c].pc = "createClient"
    <3>1. Endpoint(child[c].req) = {}  BY <1>0, <2>3 DEF ClientsOf, LiveOf
    <3>2. CASE i \in DOMAIN client /\ j \in DOMAIN client
      BY <1>1, <2>1, <3>2, OwnerKept DEF ClientsKept, ClientsOf
    <3>3. CASE i \in DOMAIN client /\ j \notin DOMAIN client
      <4>1. i \in Endpoint(child[c].req)  BY <1>1, <2>1, <2>2, <3>3 DEF Endpoint, ClientsKept
      <4> QED  BY <3>1, <4>1
    <3>4. CASE i \notin DOMAIN client /\ j \in DOMAIN client
      <4>1. j \in Endpoint(child[c].req)  BY <1>1, <2>1, <2>2, <3>4 DEF Endpoint, ClientsKept
      <4> QED  BY <3>1, <4>1
    <3>5. CASE i \notin DOMAIN client /\ j \notin DOMAIN client
      BY <2>2, <3>5
    <3> QED  BY <3>2, <3>3, <3>4, <3>5
  <2>4. CASE child[c].req.user # u \/ child[c].pc # "createClient"
    <3>1. ASSUME NEW k \in DOMAIN client', client'[k].ip = client'[i].ip, k \notin DOMAIN client
          PROVE  FALSE
      <4>1. child[c].pc = "createClient" /\ client'[i].ip = child[c].req.ip
        BY <2>2, <3>1
      <4>2. child[c].req.ip \in DOMAIN ipAddress
        BY <4>1 DEF Ground, JoinInv, Located
      <4>3. ipAddress[child[c].req.ip].user = u
        BY <1>1, <4>1, <4>2, AddressStep DEF OwnerOf
      <4>4. child[c].req.user = u
        BY <1>0, <4>2, <4>3, PrivateAddress
      <4> QED  BY <2>4, <4>1, <4>4
    <3>2. i \in DOMAIN client /\ j \in DOMAIN client  BY <1>1, <3>1
    <3> QED  BY <1>1, <2>1, <3>2, OwnerKept DEF ClientsKept, ClientsOf
  <2> QED  BY <2>3, <2>4
<1>2. ASSUME NEW d \in LiveOf(u), d # c
      PROVE  /\ child'[d].pc = "updateClient" => ClientIds(child[d].req)' = {}
             /\ child'[d].pc = "createClient" => Endpoint(child[d].req)' = {}
  <2>1. d \in Child /\ child[d].req.user = u /\ child[c].req.user # u /\ child'[d] = child[d]
    BY <1>0, <1>2 DEF LiveOf
  <2>2. child[d].req.ip # child[c].req.ip  BY <1>0, <2>1, PrivateApart
  <2>3. \A i \in DOMAIN client' : client'[i].ip = child[d].req.ip =>
          i \in DOMAIN client /\ client'[i] = client[i]
    BY <1>0, <2>2, OthersClients
  <2>4. Endpoint(child[d].req)' \subseteq Endpoint(child[d].req)
    BY <2>1, <2>3 DEF Endpoint
  <2>5. ClientIds(child[d].req)' \subseteq ClientIds(child[d].req)
    BY <2>1, <2>3 DEF ClientIds
  <2> QED  BY <1>2, <2>1, <2>4, <2>5 DEF ClientsOf
<1>3. ASSUME c \in LiveOf(u)
      PROVE  /\ child'[c].pc = "updateClient" => ClientIds(child[c].req)' = {}
             /\ child'[c].pc = "createClient" => Endpoint(child[c].req)' = {}
  <2>1. child'[c].pc = "updateClient" => ClientIds(child[c].req)' = {}
    BY <1>0, UnknownClient DEF ClientIds
  <2>2. ASSUME child'[c].pc = "createClient", NEW i \in Endpoint(child[c].req) PROVE FALSE
    <3>1. /\ child[c].pc = "updateClient" /\ client[i].peer = child[c].req.peer
          /\ ClientIds(child[c].req) = {}
      BY <1>0, <1>3, <2>2, UnknownClient DEF ClientsOf
    <3>2. i \in DOMAIN client /\ client[i] \in ClientRow  BY <1>0, <2>2 DEF Endpoint, TypeOK
    <3>3. client[i] = [peer |-> child[c].req.peer, ip |-> child[c].req.ip,
                       port |-> child[c].req.port]
      BY <2>2, <3>1, <3>2 DEF Endpoint, ClientRow
    <3> QED  BY <3>1, <3>2, <3>3 DEF ClientIds
  <2>3. child'[c].pc = "createClient" => Endpoint(child[c].req)' = Endpoint(child[c].req)
    BY <1>0, UnknownClient DEF Endpoint
  <2> QED  BY <2>1, <2>2, <2>3
<1>4. ASSUME NEW d \in LiveOf(u)'
      PROVE  /\ child'[d].pc = "updateClient" => ClientIds(child[d].req)' = {}
             /\ child'[d].pc = "createClient" => Endpoint(child[d].req)' = {}
  BY <1>0, <1>2, <1>3, <1>4
<1> QED  BY <1>1, <1>4 DEF ClientsOf

\* An announce starts at the first statement, and no other child moves.
LEMMA ForkQuiet ==
  ASSUME Ground, NEW c \in Child, NEW r \in Request, Fork(c, r), Join(c, r)
  PROVE  /\ child'[c].pc = "getUserId" /\ child'[c].req = r /\ ~Live(c)
         /\ \A d \in Child \ {c} : child'[d] = child[d]
         /\ \A u : LiveOf(u)' \subseteq LiveOf(u) \cup {c}
         /\ \A u \in User : Calm(u)' => Calm(u)
         /\ UNCHANGED <<rows, account, torrents, now>>
<1>1. /\ child[c].pc = "idle" /\ child'[c].pc = "getUserId" /\ child'[c].req = r
      /\ \A d \in Child \ {c} : child'[d] = child[d]
  BY ForkEffect DEF Ground, TypeOK, Children
<1>2. \A u : LiveOf(u)' \subseteq LiveOf(u) \cup {c}
  BY <1>1 DEF LiveOf, Live
<1>3. \A u \in User : Calm(u)' => Calm(u)
  BY SerialFork DEF Ground, Books, Calm, Private
<1> QED  BY <1>1, <1>2, <1>3 DEF Fork, site, Live

LEMMA ClientsHold == AccountingSpec => []ClientsInv
<1>1. AccountingInit => ClientsInv
  BY IdleFields DEF AccountingInit, Init, ClientsInv, ClientsOf, LiveOf, Live
<1>2. Ground /\ ClientsInv /\ [AccountingNext]_<<vars, history>> => ClientsInv'
  <2> SUFFICES ASSUME Ground, ClientsInv, [AccountingNext]_<<vars, history>>,
                      NEW u \in User, Calm(u)'
               PROVE  ClientsOf(u)'
    BY DEF ClientsInv
  <2>1. ASSUME NEW c \in Child, NEW r \in Request, Fork(c, r), Send(r), Join(c, r)
        PROVE  ClientsOf(u)'
    <3>1. ClientsOf(u)  BY <2>1, ForkQuiet DEF ClientsInv
    <3>2. client' = client /\ ipAddress' = ipAddress  BY <2>1, ForkQuiet DEF rows
    <3>3. ASSUME NEW d \in LiveOf(u)'
          PROVE  child'[d].pc = "getUserId" \/ (d \in LiveOf(u) /\ child'[d] = child[d])
      BY <2>1, ForkQuiet DEF LiveOf
    <3>4. ASSUME NEW d \in LiveOf(u)'
          PROVE  /\ child'[d].pc = "updateClient" => ClientIds(child[d].req)' = {}
                 /\ child'[d].pc = "createClient" => Endpoint(child[d].req)' = {}
      BY <3>1, <3>2, <3>3, <3>4 DEF ClientsOf, ClientIds, Endpoint
    <3>5. \A i \in DOMAIN client : OwnerOf(i)' = OwnerOf(i)  BY <3>2 DEF OwnerOf
    <3> QED  BY <3>1, <3>2, <3>4, <3>5 DEF ClientsOf
  <2>2. ASSUME NEW c \in Child, ChildStep(c), UNCHANGED history PROVE ClientsOf(u)'
    <3>1. Calm(u)  BY <2>2 DEF Calm, Apart, Private, history
    <3> QED  BY <2>2, <3>1, ClientsStep DEF ClientsInv
  <2>3. CASE (Tick /\ Minute) \/ UNCHANGED <<vars, history>>
    <3>1. UNCHANGED <<child, ipAddress, client, overlaps>>
      BY <2>3 DEF Tick, Minute, vars, rows, history
    <3>2. Calm(u)  BY <3>1 DEF Calm, Apart, Private
    <3> QED  BY <3>1, <3>2 DEF ClientsInv, ClientsOf, LiveOf, Live, ClientIds, Endpoint, OwnerOf
  <2> QED  BY <2>1, <2>2, <2>3, AccountingKinds
<1> QED  BY <1>1, <1>2, GroundHolds, PTL DEF AccountingSpec

\* A restarted client takes over the row of its endpoint: whatever fails and
\* whatever other users do, a user whose announces do not overlap never has two
\* clients at one address and port (updateClient before createClient).
THEOREM OneClientAtEachEndpoint == AccountingSpec => []OneClientPerEndpoint
<1>1. Ground /\ ClientsInv => OneClientPerEndpoint
  <2> SUFFICES ASSUME Ground, ClientsInv, NEW i \in DOMAIN client, NEW j \in DOMAIN client,
                      client[i].ip = client[j].ip, client[i].port = client[j].port,
                      Apart(OwnerOf(i)), Private(OwnerOf(i))
               PROVE  i = j
    BY DEF OneClientPerEndpoint, OwnerOf
  <2>1. OwnerOf(i) \in User
    BY DEF Ground, TypeOK, JoinInv, JoinsComplete, IpRow, OwnerOf
  <2> QED  BY <2>1 DEF ClientsInv, ClientsOf, Calm
<1> QED  BY <1>1, GroundHolds, ClientsHold, PTL

----------------------------------------------------------------------------
\* The records of a user for a torrent.
Records(u, t) == {i \in DOMAIN clientTorrents : clientTorrents[i].torrent = t /\ Owner(i) = u}

\* A record is left alone, rewritten by the UPDATE or new.
LEMMA RecordChange ==
  ASSUME TypeOK, NEW c \in Child, ChildStep(c), NEW i \in DOMAIN clientTorrents'
  PROVE  \/ i \in DOMAIN clientTorrents /\ clientTorrents'[i] = clientTorrents[i]
         \/ /\ i \in UserTorrentRows(child[c].req.torrent, child[c].req.user)
            /\ child[c].pc = "updateClientTorrents"
            /\ clientTorrents'[i] = Announced(c, IF child[c].req.event = "stopped" THEN 0 ELSE 1)
         \/ /\ i \notin DOMAIN clientTorrents /\ i = Len(clientTorrents) + 1
            /\ child[c].pc = "createClientTorrent"
            /\ clientTorrents'[i] = Announced(c, DefaultActive)
<1>0. clientTorrents \in Seq(TorrentRow)  BY DEF TypeOK
<1>1. CASE Execute(c) /\ ~Writes(c)
  BY <1>1, OthersRead DEF rows
<1>2. CASE UpdateClientTorrents(c)
  BY <1>2 DEF UpdateClientTorrents, At
<1>3. CASE CreateClientTorrent(c)
  <2>1. CASE clientTorrents' = clientTorrents  BY <2>1
  <2>2. CASE clientTorrents' = Append(clientTorrents, Announced(c, DefaultActive))
    BY <1>0, <1>3, <2>2 DEF CreateClientTorrent, At
  <2> QED  BY <1>3, <2>1, <2>2 DEF CreateClientTorrent
<1>4. CASE Writes(c) /\ ~UpdateClientTorrents(c) /\ ~CreateClientTorrent(c)
  BY <1>4 DEF Writes, CreateIpAddress, UpdateClient, CreateClient,
     UpdateUserBonusPoints, UpdateUserTorrentTotals, CreateUserTorrentTotals
<1>5. CASE Throw(c) \/ Die(c)
  BY <1>5 DEF Throw, Die, rows
<1> QED  BY <1>1, <1>2, <1>3, <1>4, <1>5 DEF ChildStep

\* How a child comes to createClientTorrent and past it.
LEMMA RecordOutcome ==
  ASSUME TypeOK, NEW c \in Child, ChildStep(c)
  PROVE  /\ child'[c].pc = "createClientTorrent" =>
              /\ child[c].pc = "updateClientTorrents" /\ clientTorrents' = clientTorrents
              /\ UserTorrentRows(child[c].req.torrent, child[c].req.user) = {}
         /\ child'[c].pc = "totalTimeActive" =>
              \/ /\ child[c].pc = "updateClientTorrents"
                 /\ UserTorrentRows(child[c].req.torrent, child[c].req.user) # {}
                 /\ \A i \in UserTorrentRows(child[c].req.torrent, child[c].req.user) :
                      clientTorrents'[i] = Announced(c, IF child[c].req.event = "stopped" THEN 0 ELSE 1)
              \/ /\ child[c].pc = "createClientTorrent"
                 /\ clientTorrents' = Append(clientTorrents, Announced(c, DefaultActive))
         /\ clientTorrents' # clientTorrents => child'[c].pc = "totalTimeActive"
<1>0. child \in Children /\ child[c] \in ChildState /\ Moves(child[c], child'[c])
  BY ChildStepEffect DEF TypeOK, Children, Effect
<1> DEFINE mine == UserTorrentRows(child[c].req.torrent, child[c].req.user)
<1>1. ASSUME Raise(c) PROVE child'[c].pc = Caught(child[c].pc)
  BY <1>0, <1>1 DEF Raise, Children, ChildState
<1>2. ASSUME NEW s, Goto(c, s) PROVE child'[c].pc = s
  BY <1>0, <1>2 DEF Goto, Children, ChildState
<1>6. ASSUME NEW R, Record(c, R) PROVE child'[c].pc = "totalTimeActive"
  BY <1>0, <1>6 DEF Record, Children, ChildState
<1>3. CASE UpdateClientTorrents(c)
  <2>1. child[c].pc = "updateClientTorrents" /\ Caught(child[c].pc) = "getTorrentData"
    <3>1. child[c].pc = "updateClientTorrents"  BY <1>3 DEF UpdateClientTorrents, At
    <3> QED  BY <3>1 DEF Caught, UpdateStatement, BonusStatement
  <2>2. CASE mine = {}
    <3>1. Goto(c, "createClientTorrent") /\ clientTorrents' = clientTorrents
      BY <1>3, <2>2 DEF UpdateClientTorrents
    <3> QED  BY <1>2, <2>1, <2>2, <3>1
  <2>3. CASE mine # {} /\ Raise(c) /\ clientTorrents' = clientTorrents
    BY <1>1, <2>1, <2>3
  <2>4. CASE /\ mine # {} /\ Record(c, mine)
             /\ clientTorrents' = [i \in DOMAIN clientTorrents |->
                  IF i \in mine THEN Announced(c, IF child[c].req.event = "stopped" THEN 0 ELSE 1)
                  ELSE clientTorrents[i]]
    <3>1. mine \subseteq DOMAIN clientTorrents  BY DEF UserTorrentRows
    <3> HIDE DEF mine
    <3>2. \A i \in mine :
            clientTorrents'[i] = Announced(c, IF child[c].req.event = "stopped" THEN 0 ELSE 1)
      BY <2>4, <3>1
    <3> QED  BY <1>6, <2>1, <2>4, <3>2 DEF mine
  <2> QED  BY <1>3, <2>2, <2>3, <2>4 DEF UpdateClientTorrents
<1>4. CASE CreateClientTorrent(c)
  <2>1. child[c].pc = "createClientTorrent" /\ Caught(child[c].pc) = "buildErrorDict"
    BY <1>4 DEF CreateClientTorrent, At, Caught, UpdateStatement, BonusStatement
  <2> QED  BY <1>1, <1>4, <1>6, <2>1 DEF CreateClientTorrent
<1>5. CASE ~UpdateClientTorrents(c) /\ ~CreateClientTorrent(c)
  <2>1. clientTorrents' = clientTorrents
    <3>1. CASE Execute(c) /\ ~Writes(c)  BY <3>1, OthersRead DEF rows
    <3>2. CASE Writes(c)
      BY <1>5, <3>2 DEF Writes, CreateIpAddress, UpdateClient, CreateClient,
         UpdateUserBonusPoints, UpdateUserTorrentTotals, CreateUserTorrentTotals
    <3>3. CASE Throw(c) \/ Die(c)  BY <3>3 DEF Throw, Die, rows
    <3> QED  BY <3>1, <3>2, <3>3 DEF ChildStep
  <2>2. child'[c].pc \in {"createClientTorrent", "totalTimeActive"} =>
          child[c].pc \in {"updateClientTorrents", "createClientTorrent"}
    BY <1>0 DEF Moves, Succeeds, Follows, Fails, Caught, Dies
  <2>3. child[c].pc \in {"updateClientTorrents", "createClientTorrent"} => Throw(c) \/ Die(c)
    BY <1>5
       DEF ChildStep, Execute, At, GetUserId, UserCanLeech, IpaIsBanned, TorrentExists, GetIpaId,
           CreateIpAddress, GetIpaIdAgain, GetClientId, UpdateClient, CreateClient,
           SetOldUploadAndDownload, NewSeedMinutes,
           TotalTimeActive, CalcBonusPoints, UpdateUserBonusPoints, TotalsExist,
           UpdateUserTorrentTotals, CreateUserTorrentTotals, GetTorrentData, GetPeers,
           BuildErrorDict, BuildDictionary
  <2>4. child[c].pc \in {"updateClientTorrents", "createClientTorrent"} =>
          child'[c].pc \in {"getTorrentData", "buildErrorDict", "dead"}
    BY <1>1, <1>2, <2>3 DEF Throw, Die, Caught, UpdateStatement, BonusStatement
  <2> QED  BY <2>1, <2>2, <2>4
<1> QED  BY <1>3, <1>4, <1>5

\* A child that writes its record does so for a client at its own address.
LEMMA AnnouncedOwner ==
  ASSUME Ground, NEW c \in Child, ChildStep(c), NEW u \in User, Private(u),
         child[c].pc \in {"updateClientTorrents", "createClientTorrent"},
         NEW k, k = child[c].clientId
  PROVE  /\ k \in DOMAIN client
         /\ client'[k].ip = child[c].req.ip /\ client'[k].port = child[c].req.port
         /\ OwnerOf(k)' = u <=> child[c].req.user = u
<1>1. /\ k \in DOMAIN client
      /\ client[k].ip = child[c].req.ip /\ client[k].port = child[c].req.port
  BY DEF Ground, ClientIdValid, WithClient, UpdateStatement
<1>2. ClientsKept  BY ChildStepTables DEF TableEffect, Ground
<1>3. OwnerOf(k)' = OwnerOf(k)  BY <1>1, OwnerKept
<1>4. child[c].req.ip \in DOMAIN ipAddress
  BY <1>1 DEF Ground, JoinInv, JoinsComplete
<1>5. OwnerOf(k) = u <=> child[c].req.user = u
  BY <1>1, <1>4, PrivateAddress DEF OwnerOf
<1> QED  BY <1>1, <1>2, <1>3, <1>5 DEF ClientsKept

\* What a step of child c does to a record, seen from user u at private addresses:
\* whose record it is does not change, and only u's announces write u's records.
RecordSeen(c, u, i) ==
  \/ /\ i \in DOMAIN clientTorrents /\ clientTorrents'[i] = clientTorrents[i]
     /\ Owner(i)' = Owner(i)
  \/ /\ i \in DOMAIN clientTorrents /\ child[c].pc = "updateClientTorrents"
     /\ i \in UserTorrentRows(child[c].req.torrent, child[c].req.user)
     /\ clientTorrents'[i] = Announced(c, IF child[c].req.event = "stopped" THEN 0 ELSE 1)
     /\ Owner(i)' = u <=> child[c].req.user = u
     /\ Owner(i) = child[c].req.user
     /\ clientTorrents[i].torrent = child[c].req.torrent
  \/ /\ i \notin DOMAIN clientTorrents /\ child[c].pc = "createClientTorrent"
     /\ i = Len(clientTorrents) + 1
     /\ clientTorrents'[i] = Announced(c, DefaultActive)
     /\ Owner(i)' = u <=> child[c].req.user = u

LEMMA RecordSeenStep ==
  ASSUME Ground, NEW c \in Child, ChildStep(c), NEW u \in User, Private(u),
         NEW i \in DOMAIN clientTorrents'
  PROVE  RecordSeen(c, u, i)
<1>0. TypeOK  BY DEF Ground
<1>1. CASE i \in DOMAIN clientTorrents /\ clientTorrents'[i] = clientTorrents[i]
  <2>1. clientTorrents[i].client \in DOMAIN client
    BY <1>1 DEF Ground, JoinInv, JoinsComplete
  <2>2. OwnerOf(clientTorrents[i].client)' = OwnerOf(clientTorrents[i].client)
    BY <1>1, <2>1, OwnerKept DEF OwnerOf
  <2> QED  BY <1>1, <2>2 DEF RecordSeen, Owner, OwnerOf
<1>2. CASE /\ i \in UserTorrentRows(child[c].req.torrent, child[c].req.user)
           /\ child[c].pc = "updateClientTorrents"
           /\ clientTorrents'[i] = Announced(c, IF child[c].req.event = "stopped" THEN 0 ELSE 1)
  <2>1. clientTorrents'[i].client = child[c].clientId  BY <1>2 DEF Announced
  <2>2. Owner(i)' = u <=> child[c].req.user = u
    BY <1>2, <2>1, AnnouncedOwner DEF Owner, OwnerOf
  <2> QED  BY <1>2, <2>2 DEF RecordSeen, UserTorrentRows, Owner
<1>3. CASE /\ i \notin DOMAIN clientTorrents /\ i = Len(clientTorrents) + 1
           /\ child[c].pc = "createClientTorrent"
           /\ clientTorrents'[i] = Announced(c, DefaultActive)
  <2>1. clientTorrents'[i].client = child[c].clientId  BY <1>3 DEF Announced
  <2>2. Owner(i)' = u <=> child[c].req.user = u
    BY <1>3, <2>1, AnnouncedOwner DEF Owner, OwnerOf
  <2> QED  BY <1>3, <2>2 DEF RecordSeen
<1> QED  BY <1>0, <1>1, <1>2, <1>3, RecordChange

\* The same for the records of u for one torrent.
LEMMA RecordsStep ==
  ASSUME Ground, NEW c \in Child, ChildStep(c), NEW u \in User, Private(u), NEW t
  PROVE  /\ \A i \in Records(u, t) :
              /\ i \in Records(u, t)'
              /\ \/ clientTorrents'[i] = clientTorrents[i]
                 \/ /\ child[c].pc = "updateClientTorrents"
                    /\ child[c].req.user = u /\ child[c].req.torrent = t
                    /\ clientTorrents'[i] =
                         Announced(c, IF child[c].req.event = "stopped" THEN 0 ELSE 1)
         /\ \A i \in Records(u, t)' :
              \/ i \in Records(u, t)
              \/ /\ i \notin DOMAIN clientTorrents /\ i = Len(clientTorrents) + 1
                 /\ child[c].pc = "createClientTorrent"
                 /\ child[c].req.user = u /\ child[c].req.torrent = t
                 /\ clientTorrents'[i] = Announced(c, DefaultActive)
<1>1. RecordsKept  BY ChildStepTables DEF TableEffect, Ground
<1>2. \A active : Announced(c, active).torrent = child[c].req.torrent  BY DEF Announced
<1>3. \A i \in DOMAIN clientTorrents' : RecordSeen(c, u, i)  BY RecordSeenStep
<1>4. ASSUME NEW i \in Records(u, t)
      PROVE  /\ i \in Records(u, t)'
             /\ \/ clientTorrents'[i] = clientTorrents[i]
                \/ /\ child[c].pc = "updateClientTorrents"
                   /\ child[c].req.user = u /\ child[c].req.torrent = t
                   /\ clientTorrents'[i] =
                        Announced(c, IF child[c].req.event = "stopped" THEN 0 ELSE 1)
  <2>1. /\ i \in DOMAIN clientTorrents /\ i \in DOMAIN clientTorrents' /\ Owner(i) = u
        /\ clientTorrents[i].torrent = t /\ clientTorrents'[i].torrent = t
    BY <1>1 DEF Records, RecordsKept
  <2>2. RecordSeen(c, u, i)  BY <1>3, <2>1
  <2>3. Owner(i)' = u  BY <2>1, <2>2 DEF RecordSeen
  <2> QED  BY <2>1, <2>2, <2>3 DEF RecordSeen, Records
<1>5. ASSUME NEW i \in Records(u, t)'
      PROVE  \/ i \in Records(u, t)
             \/ /\ i \notin DOMAIN clientTorrents /\ i = Len(clientTorrents) + 1
                /\ child[c].pc = "createClientTorrent"
                /\ child[c].req.user = u /\ child[c].req.torrent = t
                /\ clientTorrents'[i] = Announced(c, DefaultActive)
  <2>1. i \in DOMAIN clientTorrents' /\ Owner(i)' = u /\ clientTorrents'[i].torrent = t
    BY DEF Records
  <2>2. RecordSeen(c, u, i)  BY <1>3, <2>1
  <2>3. CASE i \in DOMAIN clientTorrents
    <3>1. clientTorrents[i].torrent = t  BY <1>1, <2>1, <2>3 DEF RecordsKept
    <3>2. Owner(i) = u  BY <2>1, <2>2, <2>3 DEF RecordSeen
    <3> QED  BY <2>3, <3>1, <3>2 DEF Records
  <2>4. CASE i \notin DOMAIN clientTorrents
    BY <1>2, <2>1, <2>2, <2>4 DEF RecordSeen
  <2> QED  BY <2>3, <2>4
<1> QED  BY <1>4, <1>5

\* What is known of the records of a user who waits and shares no address: one for
\* each torrent, none before the INSERT, each for a client that announces it.
RecordsOf(u) ==
  /\ \A t \in Torrent : \A i, j \in Records(u, t) : i = j
  /\ \A c \in LiveOf(u) :
       child[c].pc = "createClientTorrent" => Records(u, child[c].req.torrent) = {}
  /\ \A t \in Torrent : \A i \in Records(u, t) : \E r \in Request :
       /\ r.user = u /\ r.torrent = t
       /\ client[clientTorrents[i].client].ip = r.ip
       /\ client[clientTorrents[i].client].port = r.port

RecordsInv == \A u \in User : Calm(u) => RecordsOf(u)

LEMMA RecordsOfStep ==
  ASSUME Ground, NEW c \in Child, ChildStep(c), NEW u \in User, Calm(u), RecordsOf(u)
  PROVE  RecordsOf(u)'
<1>0. /\ TypeOK /\ Private(u) /\ Live(c)
      /\ \A d \in LiveOf(u) : d = c \/ (d # c /\ c \notin LiveOf(u))
      /\ \A d \in Child \ {c} : child'[d] = child[d]
      /\ child'[c].req = child[c].req
      /\ LiveOf(u)' \subseteq LiveOf(u)
  BY LiveStep, ChildStepEffect DEF Ground, Calm, Books, Serial, Effect
<1>1. child[c].req \in Request  BY DEF Ground, Books
<1>2. ASSUME NEW t \in Torrent, NEW i \in Records(u, t)', NEW j \in Records(u, t)' PROVE i = j
  <2>1. CASE child[c].req.user = u /\ child[c].pc = "createClientTorrent" /\ child[c].req.torrent = t
    <3>1. Records(u, t) = {}  BY <1>0, <2>1 DEF RecordsOf, LiveOf
    <3> QED  BY <1>0, <3>1, RecordsStep
  <2>2. CASE ~(child[c].req.user = u /\ child[c].pc = "createClientTorrent"
               /\ child[c].req.torrent = t)
    <3>1. i \in Records(u, t) /\ j \in Records(u, t)  BY <1>0, <2>2, RecordsStep
    <3> QED  BY <3>1 DEF RecordsOf
  <2> QED  BY <2>1, <2>2
<1>3. ASSUME NEW d \in LiveOf(u)', child'[d].pc = "createClientTorrent"
      PROVE  Records(u, child[d].req.torrent)' = {}
  <2>1. d \in LiveOf(u) /\ d \in Child  BY <1>0, <1>3 DEF LiveOf
  <2>2. child'[d].req = child[d].req  BY <1>0, <2>1
  <2>3. CASE d = c
    <3>1. /\ child[c].pc = "updateClientTorrents" /\ clientTorrents' = clientTorrents
          /\ UserTorrentRows(child[c].req.torrent, u) = {}
      BY <1>0, <1>3, <2>1, <2>3, RecordOutcome DEF LiveOf
    <3>2. account[u] = "member"
      BY <2>1, <2>3, <3>1 DEF LiveOf, Ground, Books, PastAccount, Statement, GateStatement,
         UpdateStatement
    <3>3. Records(u, child[c].req.torrent) = {}
      BY <3>1, <3>2 DEF Records, UserTorrentRows, Owner
    <3>4. ASSUME NEW t, t = child[c].req.torrent PROVE Records(u, t)' = {}
      BY <1>0, <3>1, <3>3, <3>4, RecordsStep
    <3> QED  BY <2>2, <2>3, <3>4 DEF Records
  <2>4. CASE d # c
    <3>1. child[d].pc = "createClientTorrent" /\ child[c].req.user # u
      BY <1>0, <1>3, <2>1, <2>4 DEF LiveOf
    <3>2. ASSUME NEW t, t = child[d].req.torrent PROVE Records(u, t)' = {}
      BY <1>0, <2>1, <3>1, <3>2, RecordsStep DEF RecordsOf
    <3> QED  BY <2>2, <3>2 DEF Records
  <2> QED  BY <2>3, <2>4
<1>4. ASSUME NEW t \in Torrent, NEW i \in Records(u, t)'
      PROVE  \E r \in Request :
               /\ r.user = u /\ r.torrent = t
               /\ client'[clientTorrents'[i].client].ip = r.ip
               /\ client'[clientTorrents'[i].client].port = r.port
  <2>1. CASE i \in Records(u, t) /\ clientTorrents'[i] = clientTorrents[i]
    <3>1. clientTorrents[i].client \in DOMAIN client
      BY <2>1 DEF Records, Ground, JoinInv, JoinsComplete
    <3>2. ClientsKept  BY <1>0, ChildStepTables DEF TableEffect
    <3> QED  BY <2>1, <3>1, <3>2 DEF RecordsOf, ClientsKept
  <2>2. CASE ~(i \in Records(u, t) /\ clientTorrents'[i] = clientTorrents[i])
    <3>1. /\ child[c].pc \in {"updateClientTorrents", "createClientTorrent"}
          /\ child[c].req.user = u /\ child[c].req.torrent = t
          /\ clientTorrents'[i].client = child[c].clientId
      <4>1. \A active : Announced(c, active).client = child[c].clientId  BY DEF Announced
      <4> QED  BY <1>0, <2>2, <4>1, RecordsStep
    <3>2. /\ client'[child[c].clientId].ip = child[c].req.ip
          /\ client'[child[c].clientId].port = child[c].req.port
      BY <1>0, <3>1, AnnouncedOwner
    <3> QED  BY <1>1, <3>1, <3>2
  <2> QED  BY <2>1, <2>2
<1> QED  BY <1>2, <1>3, <1>4 DEF RecordsOf

\* Nothing but a step of a child changes the records.
LEMMA RecordsQuiet ==
  ASSUME Ground, NEW u \in User, RecordsOf(u),
         UNCHANGED <<ipAddress, client, clientTorrents>>,
         \A d \in LiveOf(u)' :
           child'[d].pc = "getUserId" \/ (d \in LiveOf(u) /\ child'[d] = child[d])
  PROVE  RecordsOf(u)' /\ \A t : Records(u, t)' = Records(u, t)
<1>1. \A t : Records(u, t)' = Records(u, t)  BY DEF Records, Owner
<1>2. ASSUME NEW d \in LiveOf(u)', child'[d].pc = "createClientTorrent"
      PROVE  Records(u, child[d].req.torrent)' = {}
  <2>1. d \in LiveOf(u) /\ child'[d] = child[d]  BY <1>2
  <2>2. Records(u, child[d].req.torrent) = {}  BY <1>2, <2>1 DEF RecordsOf
  <2> QED  BY <2>1, <2>2 DEF Records, Owner
<1> QED  BY <1>1, <1>2 DEF RecordsOf

LEMMA RecordsHold == AccountingSpec => []RecordsInv
<1>1. AccountingInit => RecordsInv
  BY IdleFields DEF AccountingInit, Init, RecordsInv, RecordsOf, Records, LiveOf, Live
<1>2. Ground /\ RecordsInv /\ [AccountingNext]_<<vars, history>> => RecordsInv'
  <2> SUFFICES ASSUME Ground, RecordsInv, [AccountingNext]_<<vars, history>>,
                      NEW u \in User, Calm(u)'
               PROVE  RecordsOf(u)'
    BY DEF RecordsInv
  <2>1. ASSUME NEW c \in Child, NEW r \in Request, Fork(c, r), Send(r), Join(c, r)
        PROVE  RecordsOf(u)'
    <3>1. RecordsOf(u)  BY <2>1, ForkQuiet DEF RecordsInv
    <3>2. UNCHANGED <<ipAddress, client, clientTorrents>>  BY <2>1, ForkQuiet DEF rows
    <3>3. \A d \in LiveOf(u)' :
            child'[d].pc = "getUserId" \/ (d \in LiveOf(u) /\ child'[d] = child[d])
      BY <2>1, ForkQuiet DEF LiveOf
    <3> QED  BY <3>1, <3>2, <3>3, RecordsQuiet
  <2>2. ASSUME NEW c \in Child, ChildStep(c), UNCHANGED history PROVE RecordsOf(u)'
    <3>1. Calm(u)  BY <2>2 DEF Calm, Apart, Private, history
    <3> QED  BY <2>2, <3>1, RecordsOfStep DEF RecordsInv
  <2>3. CASE (Tick /\ Minute) \/ UNCHANGED <<vars, history>>
    <3>1. UNCHANGED <<child, ipAddress, client, clientTorrents, overlaps>>
      BY <2>3 DEF Tick, Minute, vars, rows, history
    <3>2. Calm(u)  BY <3>1 DEF Calm, Apart, Private
    <3>3. \A d \in LiveOf(u)' : d \in LiveOf(u) /\ child'[d] = child[d]
      BY <3>1 DEF LiveOf, Live
    <3> QED  BY <3>1, <3>2, <3>3, RecordsQuiet DEF RecordsInv
  <2> QED  BY <2>1, <2>2, <2>3, AccountingKinds
<1> QED  BY <1>1, <1>2, GroundHolds, PTL DEF AccountingSpec

LEMMA OwnersAreUsers ==
  ASSUME Ground, NEW i \in DOMAIN clientTorrents
  PROVE  Owner(i) \in User /\ clientTorrents[i].torrent \in Torrent
<1>1. clientTorrents[i] \in TorrentRow /\ clientTorrents[i].client \in DOMAIN client
  BY RecordType DEF Ground, JoinInv, JoinsComplete
<1>2. client[clientTorrents[i].client].ip \in DOMAIN ipAddress
  BY <1>1 DEF Ground, JoinInv, JoinsComplete
<1>3. Owner(i) \in User  BY <1>2 DEF Ground, TypeOK, IpRow, Owner
<1> QED  BY <1>1, <1>3 DEF TorrentRow

\* However often a client changes its peer id, port or address, and whatever fails:
\* a user whose announces do not overlap has one record per torrent, because the
\* UPDATE finds it by the user and moves it, and the INSERT only runs if it does not.
THEOREM OneRecordForEachTorrent == AccountingSpec => []OneRecordPerUserTorrent
<1>1. Ground /\ RecordsInv => OneRecordPerUserTorrent
  <2> SUFFICES ASSUME Ground, RecordsInv,
                      NEW i \in DOMAIN clientTorrents, NEW j \in DOMAIN clientTorrents,
                      Owner(i) = Owner(j), Apart(Owner(i)), Private(Owner(i)),
                      clientTorrents[i].torrent = clientTorrents[j].torrent
               PROVE  i = j
    BY DEF OneRecordPerUserTorrent
  <2> DEFINE u == Owner(i)
             t == clientTorrents[i].torrent
  <2>1. u \in User /\ t \in Torrent  BY OwnersAreUsers
  <2>2. i \in Records(u, t) /\ j \in Records(u, t)  BY DEF Records
  <2> HIDE DEF u, t
  <2>3. Calm(u)  BY DEF Calm, u
  <2> QED  BY <2>1, <2>2, <2>3 DEF RecordsInv, RecordsOf
<1> QED  BY <1>1, GroundHolds, RecordsHold, PTL

----------------------------------------------------------------------------
\* The fields of a child before the statements that set them.
Unread == {"idle"} \cup GateStatement \cup ClientStatement

UnsetInv ==
  \A c \in Child :
    /\ child[c].pc \in Unread => child[c].old = Zero
    /\ child[c].pc \in Unread \cup {"newSeedMinutes"} => child[c].minutes = 0
    /\ child[c].pc \in {"idle"} \cup Statement => child[c].peers = {}

LEMMA UnsetStep ==
  ASSUME TypeOK, UnsetInv, NEW c \in Child, ChildStep(c)
  PROVE  UnsetInv'
<1>1. Moves(child[c], child'[c]) /\ \A d \in Child \ {c} : child'[d] = child[d]
  BY ChildStepEffect DEF Effect
<1>2. FieldsKept(c)  BY FieldStep
<1> USE DEF Unread, Statement, GateStatement, ClientStatement, UpdateStatement, BonusStatement,
            TotalsStatement, AnswerStatement
<1>3. /\ child'[c].pc \in Unread =>
           child[c].pc \in Unread /\ child[c].pc # "setOldUploadAndDownload"
      /\ child'[c].pc \in Unread \cup {"newSeedMinutes"} => child[c].pc \in Unread
      /\ child'[c].pc \in {"idle"} \cup Statement => child[c].pc \in Statement /\ child[c].pc # "getPeers"
  BY <1>1 DEF Moves, Succeeds, Follows, Fails, Caught, Dies, Ended
<1>4. /\ child'[c].pc \in Unread => child'[c].old = Zero
      /\ child'[c].pc \in Unread \cup {"newSeedMinutes"} => child'[c].minutes = 0
      /\ child'[c].pc \in {"idle"} \cup Statement => child'[c].peers = {}
  BY <1>2, <1>3 DEF FieldsKept, SetOldUploadAndDownload, NewSeedMinutes, GetPeers, At, UnsetInv
<1> QED  BY <1>1, <1>4 DEF UnsetInv

LEMMA UnsetHolds == AccountingSpec => []UnsetInv
<1>1. AccountingInit => UnsetInv
  <2>1. Idle.old = Zero /\ Idle.minutes = 0 /\ Idle.peers = {}  BY DEF Idle
  <2> QED  BY <2>1 DEF AccountingInit, Init, UnsetInv
<1>2. Ground /\ UnsetInv /\ [AccountingNext]_<<vars, history>> => UnsetInv'
  <2> SUFFICES ASSUME Ground, UnsetInv, [AccountingNext]_<<vars, history>> PROVE UnsetInv'
    OBVIOUS
  <2>1. ASSUME NEW c \in Child, NEW r \in Request, Fork(c, r), Join(c, r) PROVE UnsetInv'
    <3>1. child[c] \in ChildState /\ child[c].pc = "idle"
      BY <2>1 DEF Ground, TypeOK, Fork, At
    <3>2. /\ child'[c].old = child[c].old /\ child'[c].minutes = child[c].minutes
          /\ child'[c].peers = child[c].peers
      BY <2>1, <3>1 DEF Fork, Ground, TypeOK, ChildState
    <3> QED  BY <2>1, <3>1, <3>2, ForkQuiet DEF UnsetInv, Unread
  <2>2. ASSUME NEW c \in Child, ChildStep(c) PROVE UnsetInv'
    BY <2>2, UnsetStep DEF Ground
  <2>3. CASE Tick \/ UNCHANGED vars
    BY <2>3 DEF Tick, vars, UnsetInv
  <2> QED  BY <2>1, <2>2, <2>3, AccountingKinds
<1> QED  BY <1>1, <1>2, GroundHolds, PTL DEF AccountingSpec

\* What setOldUploadAndDownload finds.
LEMMA OldRead ==
  ASSUME TypeOK, NEW c \in Child, ChildStep(c), child'[c].pc = "newSeedMinutes"
  PROVE  /\ child[c].pc = "setOldUploadAndDownload" /\ clientTorrents' = clientTorrents
         /\ \/ \E i \in TorrentClientRows(child[c].req.torrent, child[c].clientId) :
                 child'[c].old = clientTorrents[i].bytes
            \/ /\ TorrentClientRows(child[c].req.torrent, child[c].clientId) = {}
               /\ child'[c].old = child[c].old
<1>0. child \in Children /\ child[c] \in ChildState /\ Moves(child[c], child'[c])
  BY ChildStepEffect DEF TypeOK, Children, Effect
<1>1. child[c].pc = "setOldUploadAndDownload" /\ clientTorrents' = clientTorrents
  BY <1>0, RecordOutcome DEF Moves, Succeeds, Follows, Fails, Caught, Dies
<1>2. ~Throw(c) /\ ~Die(c)
  <2>1. CASE Throw(c)
    <3>1. child'[c].pc = Caught(child[c].pc)  BY <1>0, <2>1 DEF Throw, Raise, Children, ChildState
    <3> QED  BY <1>1, <3>1 DEF Caught, UpdateStatement, BonusStatement
  <2>2. CASE Die(c)
    <3>1. child'[c].pc = "dead"  BY <1>0, <2>2 DEF Die, Goto, Children, ChildState
    <3> QED  BY <3>1
  <2> QED  BY <2>1, <2>2
<1>3. SetOldUploadAndDownload(c)
  BY <1>1, <1>2
     DEF ChildStep, Execute, At, GetUserId, UserCanLeech, IpaIsBanned, TorrentExists, GetIpaId,
         CreateIpAddress, GetIpaIdAgain, GetClientId, UpdateClient, CreateClient,
         NewSeedMinutes, UpdateClientTorrents, CreateClientTorrent,
         TotalTimeActive, CalcBonusPoints, UpdateUserBonusPoints, TotalsExist,
         UpdateUserTorrentTotals, CreateUserTorrentTotals, GetTorrentData, GetPeers,
         BuildErrorDict, BuildDictionary
<1>4. ASSUME NEW o, child' = [child EXCEPT ![c].pc = "newSeedMinutes", ![c].old = o]
      PROVE  child'[c].old = o
  BY <1>0, <1>4 DEF Children, ChildState
<1>5. ASSUME Goto(c, "newSeedMinutes") PROVE child'[c].old = child[c].old
  BY <1>0, <1>5 DEF Goto, Children, ChildState
<1> QED  BY <1>1, <1>3, <1>4, <1>5 DEF SetOldUploadAndDownload

\* A counter that has not fallen is counted exactly.
LEMMA IncrementExact ==
  ASSUME NEW a \in Word, NEW b \in Word, b <= a
  PROVE  Increment(a, b) = a - b
<1>1. (a - b) % W = a - b  BY WAssumption DEF Word
<1> QED  BY <1>1, WAssumption DEF Increment, Word

\* The totals of a key change in two statements of the children with that key.
LEMMA TotalsChange ==
  ASSUME TypeOK, NEW c \in Child, ChildStep(c)
  PROVE  \/ totals' = totals
         \/ /\ child[c].pc = "updateUserTorrentTotals" /\ child'[c].pc = "getTorrentData"
            /\ DOMAIN totals' = DOMAIN totals
            /\ \A k \in DOMAIN totals : k # TotalsKey(c) => totals'[k] = totals[k]
            /\ TotalsKey(c) \in DOMAIN totals =>
                 totals'[TotalsKey(c)] =
                   [bytes |-> [n \in Counter |-> totals[TotalsKey(c)].bytes[n] +
                                 Increment(child[c].req.bytes[n], child[c].old[n])],
                    timeActive |-> totals[TotalsKey(c)].timeActive + child[c].minutes]
         \/ /\ child[c].pc = "createUserTorrentTotals" /\ child'[c].pc = "getTorrentData"
            /\ TotalsKey(c) \notin DOMAIN totals
            /\ DOMAIN totals' = DOMAIN totals \cup {TotalsKey(c)}
            /\ \A k \in DOMAIN totals : totals'[k] = totals[k]
            /\ totals'[TotalsKey(c)] = [bytes |-> child[c].req.bytes, timeActive |-> 0]
<1>0. child \in Children /\ child[c] \in ChildState  BY DEF TypeOK, Children
<1>1. CASE UpdateUserTorrentTotals(c) /\ totals' # totals
  <2>1. ASSUME NEW b, child' = [child EXCEPT ![c].pc = "getTorrentData", ![c].credit = b]
        PROVE  child'[c].pc = "getTorrentData"
    BY <1>0, <2>1 DEF Children, ChildState
  <2> QED  BY <1>1, <2>1 DEF UpdateUserTorrentTotals, At
<1>2. CASE CreateUserTorrentTotals(c) /\ totals' # totals
  <2>1. ASSUME NEW b, child' = [child EXCEPT ![c].pc = "getTorrentData", ![c].credit = b]
        PROVE  child'[c].pc = "getTorrentData"
    BY <1>0, <2>1 DEF Children, ChildState
  <2> QED  BY <1>2, <2>1 DEF CreateUserTorrentTotals, At, Put
<1>3. CASE ~UpdateUserTorrentTotals(c) /\ ~CreateUserTorrentTotals(c)
  <2>1. CASE Execute(c) /\ ~Writes(c)  BY <2>1, OthersRead DEF rows
  <2>2. CASE Writes(c)
    BY <1>3, <2>2 DEF Writes, CreateIpAddress, UpdateClient, CreateClient, UpdateClientTorrents,
       CreateClientTorrent, UpdateUserBonusPoints
  <2>3. CASE Throw(c) \/ Die(c)  BY <2>3 DEF Throw, Die, rows
  <2> QED  BY <2>1, <2>2, <2>3 DEF ChildStep
<1> QED  BY <1>1, <1>2, <1>3

----------------------------------------------------------------------------
\* The credit of an orderly client that has not restarted: the totals are never
\* ahead of its record, and the record never ahead of its reports.
Waiting  == {"newSeedMinutes", "updateClientTorrents", "createClientTorrent"}
Crediting == BonusStatement \cup TotalsStatement

Running(u, t) ==
  LET k == <<u, t>> IN
  /\ moved[k] = reported[k]
  /\ \A i \in Records(u, t), n \in Counter : clientTorrents[i].bytes[n] <= reported[k][n]
  /\ k \in DOMAIN totals =>
       \E i \in Records(u, t) : \A n \in Counter : totals[k].bytes[n] <= clientTorrents[i].bytes[n]

\* What setOldUploadAndDownload has found is still there.
OldFound(u, t, c) ==
  /\ \A i \in Records(u, t) : child[c].old = clientTorrents[i].bytes
  /\ Records(u, t) = {} => child[c].old = Zero

Reporting(u, t, c) ==
  LET k == <<u, t>> IN
  /\ child[c].req.bytes = reported[k]
  /\ child[c].pc \in Waiting => OldFound(u, t, c)
  /\ child[c].pc \in Crediting =>
       /\ \E i \in Records(u, t) : clientTorrents[i].bytes = child[c].req.bytes
       /\ \A n \in Counter :
            /\ child[c].old[n] <= child[c].req.bytes[n]
            /\ k \in DOMAIN totals => totals[k].bytes[n] <= child[c].old[n]

Steady(u, t) == Orderly(<<u, t>>) /\ restarted[<<u, t>>] = {}

RunningInv ==
  \A u \in User, t \in Torrent : Steady(u, t) =>
    /\ Running(u, t)
    /\ \A c \in LiveOf(u) : child[c].req.torrent = t => Reporting(u, t, c)

\* With one endpoint, the records of the announcing client are those of its user.
LEMMA SettledRows ==
  ASSUME Ground, ClientsInv, RecordsInv, NEW u \in User, NEW t \in Torrent, Orderly(<<u, t>>),
         NEW c \in Child, child[c].req.user = u, child[c].req.torrent = t,
         child[c].pc \in WithClient
  PROVE  TorrentClientRows(t, child[c].clientId) = Records(u, t)
<1>1. Calm(u) /\ ClientsOf(u) /\ RecordsOf(u)
  BY DEF Orderly, Calm, ClientsInv, RecordsInv
<1>2. /\ child[c].clientId \in DOMAIN client
      /\ client[child[c].clientId].ip = child[c].req.ip
      /\ client[child[c].clientId].port = child[c].req.port
  BY DEF Ground, ClientIdValid
<1>3. child[c].req \in Request  BY DEF Ground, Books
<1>4. OwnerOf(child[c].clientId) = u
  <2>1. child[c].req.ip \in DOMAIN ipAddress  BY <1>2 DEF Ground, JoinInv, JoinsComplete
  <2> QED  BY <1>1, <1>2, <2>1, PrivateAddress DEF OwnerOf, Calm
<1>5. ASSUME NEW i \in Records(u, t) PROVE clientTorrents[i].client = child[c].clientId
  <2>1. PICK r \in Request :
          /\ r.user = u /\ r.torrent = t
          /\ client[clientTorrents[i].client].ip = r.ip
          /\ client[clientTorrents[i].client].port = r.port
    BY <1>1 DEF RecordsOf
  <2>2. r.ip = child[c].req.ip /\ r.port = child[c].req.port
    BY <1>3, <2>1 DEF Orderly, Settled
  <2>3. clientTorrents[i].client \in DOMAIN client
    BY DEF Records, Ground, JoinInv, JoinsComplete
  <2> QED  BY <1>1, <1>2, <1>4, <2>1, <2>2, <2>3 DEF ClientsOf
<1>6. ASSUME NEW i \in TorrentClientRows(t, child[c].clientId) PROVE i \in Records(u, t)
  BY <1>4 DEF TorrentClientRows, Records, Owner, OwnerOf
<1> QED  BY <1>5, <1>6 DEF TorrentClientRows, Records

\* A child that has recorded its announce has a record that says so.
LEMMA RecordedNow ==
  ASSUME Ground, NEW c \in Child, ChildStep(c), child'[c].pc = "totalTimeActive",
         NEW u \in User, Private(u), child[c].req.user = u,
         NEW t, t = child[c].req.torrent
  PROVE  \E i \in Records(u, t)' : clientTorrents'[i].bytes = child[c].req.bytes
<1>0. TypeOK  BY DEF Ground
<1>1. \A active : /\ Announced(c, active).bytes = child[c].req.bytes
                  /\ Announced(c, active).torrent = t
  BY DEF Announced
<1>2. CASE /\ child[c].pc = "updateClientTorrents"
           /\ UserTorrentRows(t, u) # {}
           /\ \A i \in UserTorrentRows(t, u) :
                clientTorrents'[i] = Announced(c, IF child[c].req.event = "stopped" THEN 0 ELSE 1)
  <2>1. PICK i \in UserTorrentRows(t, u) : TRUE  BY <1>2
  <2>2. i \in Records(u, t)  BY DEF UserTorrentRows, Records, Owner
  <2>3. i \in Records(u, t)'  BY <2>2, RecordsStep
  <2> QED  BY <1>1, <1>2, <2>3
<1>3. CASE /\ child[c].pc = "createClientTorrent"
           /\ clientTorrents' = Append(clientTorrents, Announced(c, DefaultActive))
  <2>0. PICK i : i = Len(clientTorrents) + 1  OBVIOUS
  <2>1. clientTorrents \in Seq(TorrentRow)  BY <1>0 DEF TypeOK
  <2>2. /\ i \in DOMAIN clientTorrents' /\ i \notin DOMAIN clientTorrents
        /\ clientTorrents'[i] = Announced(c, DefaultActive)
    BY <1>3, <2>0, <2>1
  <2>3. RecordSeen(c, u, i)  BY <2>2, RecordSeenStep
  <2>4. Owner(i)' = u  BY <2>2, <2>3 DEF RecordSeen
  <2>5. i \in Records(u, t)'  BY <1>1, <2>2, <2>4 DEF Records
  <2> QED  BY <1>1, <2>2, <2>5
<1> QED  BY <1>0, <1>2, <1>3, RecordOutcome

LEMMA CountersNat ==
  ASSUME Ground
  PROVE  /\ \A c \in Child : /\ child[c].req.bytes \in Bytes /\ child[c].old \in Bytes
         /\ \A i \in DOMAIN clientTorrents : clientTorrents[i].bytes \in Bytes
         /\ \A k \in DOMAIN totals : totals[k].bytes \in Bytes
         /\ \A b \in Bytes, n \in Counter : b[n] \in Word /\ b[n] \in Nat
         /\ \A n \in Counter : Zero[n] = 0
<1>1. \A b \in Bytes, n \in Counter : b[n] \in Word /\ b[n] \in Nat
  BY WAssumption DEF Bytes, Word
<1>2. \A c \in Child : child[c] \in ChildState  BY DEF Ground, TypeOK
<1>3. \A c \in Child : child[c].req.bytes \in Bytes /\ child[c].old \in Bytes
  BY <1>2 DEF ChildState, RequestType
<1>4. \A i \in DOMAIN clientTorrents : clientTorrents[i].bytes \in Bytes
  BY RecordType DEF Ground
<1>5. \A k \in DOMAIN totals : totals[k].bytes \in Bytes  BY DEF Ground, TypeOK, TotalsRow
<1> QED  BY <1>1, <1>3, <1>4, <1>5 DEF Zero

LEMMA RecordsSame ==
  ASSUME Ground, NEW c \in Child, ChildStep(c), NEW u \in User, Private(u), NEW t,
         clientTorrents' = clientTorrents
  PROVE  Records(u, t)' = Records(u, t)
<1>1. \A i \in Records(u, t) : i \in Records(u, t)'  BY RecordsStep
<1>2. \A i \in Records(u, t)' : i \in DOMAIN clientTorrents  BY DEF Records
<1>3. \A i \in Records(u, t)' : i \in Records(u, t)  BY <1>2, RecordsStep
<1> QED  BY <1>1, <1>3

LEMMA OldFoundStep ==
  ASSUME Ground, ClientsInv, RecordsInv, UnsetInv,
         NEW u \in User, NEW t \in Torrent, Orderly(<<u, t>>),
         NEW c \in LiveOf(u), child[c].req.torrent = t, ChildStep(c),
         child[c].pc \in Waiting => OldFound(u, t, c), child'[c].pc \in Waiting
  PROVE  OldFound(u, t, c)'
<1>0. /\ TypeOK /\ Private(u) /\ c \in Child /\ child[c].req.user = u /\ RecordsOf(u)
      /\ Moves(child[c], child'[c])
  BY ChildStepEffect DEF Ground, Orderly, LiveOf, Calm, RecordsInv, Effect
<1>1. clientTorrents' = clientTorrents  BY <1>0, RecordOutcome DEF Waiting
<1>2. Records(u, t)' = Records(u, t)  BY <1>0, <1>1, RecordsSame
<1>3. CASE child'[c].pc = "newSeedMinutes"
  <2>1. child[c].pc = "setOldUploadAndDownload"  BY <1>0, <1>3, OldRead
  <2>2. TorrentClientRows(t, child[c].clientId) = Records(u, t)
    BY <1>0, <2>1, SettledRows DEF WithClient
  <2>3. child[c].old = Zero
    BY <1>0, <2>1 DEF UnsetInv, Unread, ClientStatement
  <2>4. \/ \E i \in Records(u, t) : child'[c].old = clientTorrents[i].bytes
        \/ Records(u, t) = {} /\ child'[c].old = Zero
    BY <1>0, <1>3, <2>2, <2>3, OldRead
  <2>5. \A i, j \in Records(u, t) : i = j  BY <1>0 DEF RecordsOf
  <2> QED  BY <1>1, <1>2, <2>4, <2>5 DEF OldFound
<1>4. CASE child'[c].pc # "newSeedMinutes"
  <2>1. child[c].pc \in {"newSeedMinutes", "updateClientTorrents"}
    BY <1>0, <1>4 DEF Waiting, Moves, Succeeds, Follows, Fails, Caught, Dies
  <2>2. child'[c].old = child[c].old
    BY <1>0, <2>1, FieldStep DEF FieldsKept, SetOldUploadAndDownload, At
  <2> QED  BY <1>1, <1>2, <2>1, <2>2 DEF OldFound, Waiting
<1> QED  BY <1>3, <1>4

\* The announce of the key itself takes a step.
LEMMA ReportingStep ==
  ASSUME Ground, Ground', ClientsInv, RecordsInv, UnsetInv, UNCHANGED history,
         NEW u \in User, NEW t \in Torrent, Orderly(<<u, t>>), Running(u, t),
         NEW c \in LiveOf(u), child[c].req.torrent = t, Reporting(u, t, c), ChildStep(c)
  PROVE  Running(u, t)' /\ Reporting(u, t, c)'
<1> DEFINE k == <<u, t>>
<1>0. /\ TypeOK /\ Private(u) /\ c \in Child /\ child[c].req.user = u /\ TotalsKey(c) = k
      /\ child'[c].req = child[c].req /\ Calm(u) /\ RecordsOf(u)
      /\ Moves(child[c], child'[c])
      /\ reported' = reported /\ moved' = moved
  BY LiveStep, ChildStepEffect
     DEF Ground, Orderly, LiveOf, TotalsKey, Calm, RecordsInv, Effect, history
<1>1. \A active : Announced(c, active).bytes = child[c].req.bytes  BY DEF Announced
<1>2. /\ \A i \in Records(u, t) : i \in Records(u, t)' /\
           (clientTorrents'[i].bytes = clientTorrents[i].bytes \/
            clientTorrents'[i].bytes = reported[k])
      /\ \A i \in Records(u, t)' : i \in Records(u, t) \/ clientTorrents'[i].bytes = reported[k]
  BY <1>0, <1>1, RecordsStep DEF Reporting
<1>3. reported[k] \in Bytes
  BY DEF Ground, Books, HistoryOK, Key
<1>4. \A i \in Records(u, t)', n \in Counter : clientTorrents'[i].bytes[n] <= reported[k][n]
  BY <1>2, <1>3, CountersNat DEF Running
<1>5. ASSUME k \in DOMAIN totals'
      PROVE  \E i \in Records(u, t)' : \A n \in Counter :
               totals'[k].bytes[n] <= clientTorrents'[i].bytes[n]
  <2>1. CASE totals' = totals
    <3>1. PICK i \in Records(u, t) : \A n \in Counter :
            totals[k].bytes[n] <= clientTorrents[i].bytes[n]
      BY <1>5, <2>1 DEF Running
    <3>2. \A n \in Counter : clientTorrents[i].bytes[n] <= reported[k][n]  BY DEF Running
    <3>3. i \in DOMAIN clientTorrents  BY DEF Records
    <3>4. \A n \in Counter : totals[k].bytes[n] <= reported[k][n]
      BY <1>3, <1>5, <2>1, <3>1, <3>2, <3>3, CountersNat
    <3> QED  BY <1>2, <2>1, <3>1, <3>4
  <2>2. CASE child'[c].pc = "getTorrentData" /\ totals' # totals
    <3>1. clientTorrents' = clientTorrents /\ child[c].pc \in Crediting
      BY <1>0, <2>2, RecordOutcome, TotalsChange DEF Crediting, TotalsStatement
    <3>2. PICK i \in Records(u, t) : clientTorrents[i].bytes = child[c].req.bytes
      BY <3>1 DEF Reporting
    <3>3. \A n \in Counter : totals'[k].bytes[n] <= child[c].req.bytes[n]
      <4>1. CASE totals'[k] = [bytes |-> child[c].req.bytes, timeActive |-> 0]
        BY <1>0, <4>1, CountersNat
      <4>2. CASE /\ k \in DOMAIN totals
                 /\ totals'[k] =
                   [bytes |-> [n \in Counter |-> totals[k].bytes[n] +
                                 Increment(child[c].req.bytes[n], child[c].old[n])],
                    timeActive |-> totals[k].timeActive + child[c].minutes]
        <5> TAKE n \in Counter
        <5>1. /\ child[c].req.bytes[n] \in Word /\ child[c].old[n] \in Word
              /\ child[c].req.bytes[n] \in Nat /\ child[c].old[n] \in Nat
              /\ totals[k].bytes[n] \in Nat
          BY <1>0, <4>2, CountersNat
        <5>2. child[c].old[n] <= child[c].req.bytes[n] /\ totals[k].bytes[n] <= child[c].old[n]
          BY <3>1, <4>2 DEF Reporting
        <5>3. Increment(child[c].req.bytes[n], child[c].old[n]) =
                child[c].req.bytes[n] - child[c].old[n]
          BY <5>1, <5>2, IncrementExact
        <5>4. totals'[k].bytes[n] = totals[k].bytes[n] +
                Increment(child[c].req.bytes[n], child[c].old[n])
          BY <4>2
        <5> QED  BY <5>1, <5>2, <5>3, <5>4
      <4> HIDE DEF k
      <4> QED  BY <1>0, <1>5, <2>2, <4>1, <4>2, TotalsChange
    <3>4. i \in Records(u, t)' /\ clientTorrents'[i].bytes = child[c].req.bytes
      BY <1>2, <3>1, <3>2
    <3> QED  BY <3>3, <3>4
  <2> QED  BY <1>0, <2>1, <2>2, TotalsChange
<1>6. Running(u, t)'
  BY <1>0, <1>4, <1>5 DEF Running
<1>7. child'[c].pc \in Waiting => OldFound(u, t, c)'
  BY OldFoundStep DEF Reporting
<1>8. ASSUME child'[c].pc \in Crediting
      PROVE  /\ \E i \in Records(u, t)' : clientTorrents'[i].bytes = child[c].req.bytes
             /\ \A n \in Counter :
                  /\ child'[c].old[n] <= child[c].req.bytes[n]
                  /\ k \in DOMAIN totals' => totals'[k].bytes[n] <= child'[c].old[n]
  <2>1. totals' = totals
    BY <1>0, <1>8, TotalsChange DEF Crediting, BonusStatement, TotalsStatement
  <2>2. CASE child'[c].pc = "totalTimeActive"
    <3>1. child[c].pc \in {"updateClientTorrents", "createClientTorrent"}
      BY <1>0, <2>2, RecordOutcome
    <3>2. child'[c].old = child[c].old
      BY <1>0, <3>1, FieldStep DEF FieldsKept, SetOldUploadAndDownload, At
    <3>3. \E i \in Records(u, t)' : clientTorrents'[i].bytes = child[c].req.bytes
      BY <1>0, <2>2, RecordedNow
    <3>4. /\ \A i \in Records(u, t) : child[c].old = clientTorrents[i].bytes
          /\ Records(u, t) = {} => child[c].old = Zero
      BY <3>1 DEF Reporting, Waiting, OldFound
    <3>5. \A n \in Counter : child[c].old[n] <= child[c].req.bytes[n]
      <4>1. CASE Records(u, t) = {}  BY <1>0, <3>4, <4>1, CountersNat
      <4>2. CASE Records(u, t) # {}  BY <3>4, <4>2 DEF Running, Reporting
      <4> QED  BY <4>1, <4>2
    <3>6. k \in DOMAIN totals => \A n \in Counter : totals[k].bytes[n] <= child[c].old[n]
      BY <3>4 DEF Running
    <3> QED  BY <2>1, <3>2, <3>3, <3>5, <3>6
  <2>3. CASE child'[c].pc # "totalTimeActive"
    <3>1. child[c].pc \in Crediting
      BY <1>0, <1>8, <2>3 DEF Crediting, BonusStatement, TotalsStatement, Moves, Succeeds, Follows,
         Fails, Caught, Dies, UpdateStatement
    <3>2. child'[c].old = child[c].old
      BY <1>0, <3>1, FieldStep
         DEF FieldsKept, SetOldUploadAndDownload, At, Crediting, BonusStatement, TotalsStatement
    <3>3. clientTorrents' = clientTorrents  BY <1>0, <2>3, RecordOutcome
    <3>4. PICK i \in Records(u, t) : clientTorrents[i].bytes = child[c].req.bytes
      BY <3>1 DEF Reporting
    <3>5. i \in Records(u, t)'  BY <1>2
    <3> QED  BY <2>1, <3>1, <3>2, <3>3, <3>4, <3>5 DEF Reporting
  <2> QED  BY <2>2, <2>3
<1>9. Reporting(u, t, c)'
  BY <1>0, <1>7, <1>8 DEF Reporting
<1> QED  BY <1>6, <1>9

\* A step of anybody else leaves the rows of the key alone.
LEMMA BystanderRows ==
  ASSUME Ground, NEW u \in User, NEW t \in Torrent, Private(u),
         NEW c \in Child, ChildStep(c), ~(child[c].req.user = u /\ child[c].req.torrent = t)
  PROVE  /\ Records(u, t)' = Records(u, t)
         /\ \A i \in Records(u, t) : clientTorrents'[i] = clientTorrents[i]
         /\ <<u, t>> \in DOMAIN totals' <=> <<u, t>> \in DOMAIN totals
         /\ <<u, t>> \in DOMAIN totals => totals'[<<u, t>>] = totals[<<u, t>>]
<1> DEFINE k == <<u, t>>
<1>0. TypeOK /\ TotalsKey(c) # k  BY DEF Ground, TotalsKey
<1>1. \A i \in Records(u, t) : i \in Records(u, t)' /\ clientTorrents'[i] = clientTorrents[i]
  BY RecordsStep
<1>2. \A i \in Records(u, t)' : i \in Records(u, t)
  BY RecordsStep
<1>3. k # TotalsKey(c)  BY <1>0
<1> HIDE DEF k
<1>4. DOMAIN totals' = DOMAIN totals \/ DOMAIN totals' = DOMAIN totals \cup {TotalsKey(c)}
  BY <1>0, TotalsChange
<1>5. k \in DOMAIN totals => totals'[k] = totals[k]
  BY <1>0, <1>3, TotalsChange
<1> QED  BY <1>1, <1>2, <1>3, <1>4, <1>5 DEF k

LEMMA BystanderStep ==
  ASSUME Ground, UNCHANGED history,
         NEW u \in User, NEW t \in Torrent, Orderly(<<u, t>>), Running(u, t),
         NEW c \in Child, ChildStep(c), ~(child[c].req.user = u /\ child[c].req.torrent = t)
  PROVE  /\ Running(u, t)'
         /\ \A d \in LiveOf(u)' : d # c /\ Reporting(u, t, d) => Reporting(u, t, d)'
<1> DEFINE k == <<u, t>>
<1>0. /\ TypeOK /\ Private(u) /\ TotalsKey(c) # k
      /\ \A d \in Child \ {c} : child'[d] = child[d]
      /\ reported' = reported /\ moved' = moved
  BY ChildStepEffect DEF Ground, Orderly, TotalsKey, Effect, history
<1>1. Records(u, t)' = Records(u, t) /\
      \A i \in Records(u, t) : clientTorrents'[i] = clientTorrents[i]
  BY <1>0, BystanderRows
<1>2. (k \in DOMAIN totals' <=> k \in DOMAIN totals) /\
      (k \in DOMAIN totals => totals'[k] = totals[k])
  BY <1>0, BystanderRows
<1>3. Running(u, t)'
  BY <1>0, <1>1, <1>2 DEF Running
<1>4. ASSUME NEW d \in LiveOf(u)', d # c, Reporting(u, t, d) PROVE Reporting(u, t, d)'
  <2>1. child'[d] = child[d]  BY <1>0, <1>4 DEF LiveOf
  <2> QED  BY <1>0, <1>1, <1>2, <1>4, <2>1 DEF Reporting, OldFound
<1> QED  BY <1>3, <1>4

\* An announce starts: the client of its key reports, and has not restarted.
LEMMA RunningFork ==
  ASSUME Ground, RunningInv, NEW c \in Child, NEW r \in Request, Fork(c, r), Send(r), Join(c, r)
  PROVE  RunningInv'
<1> SUFFICES ASSUME NEW u \in User, NEW t \in Torrent, Steady(u, t)'
             PROVE  /\ Running(u, t)'
                    /\ \A d \in LiveOf(u)' : child'[d].req.torrent = t => Reporting(u, t, d)'
  BY DEF RunningInv
<1> DEFINE k == <<u, t>>
<1>0. /\ child'[c].pc = "getUserId" /\ child'[c].req = r
      /\ \A d \in Child \ {c} : child'[d] = child[d]
      /\ LiveOf(u)' \subseteq LiveOf(u) \cup {c}
      /\ Calm(u)' => Calm(u)
      /\ UNCHANGED <<ipAddress, client, clientTorrents, totals>>
      /\ k \in Key
  BY ForkQuiet DEF rows, Key
<1>1. Orderly(k) /\ restarted'[k] = {} /\ r \in RequestType
  BY <1>0, RequestAssumption DEF Steady, Orderly, Calm, Private, Settled
<1>2. Records(u, t)' = Records(u, t)  BY <1>0 DEF Records, Owner
<1>3. "getUserId" \notin Waiting \cup Crediting
  BY DEF Waiting, Crediting, BonusStatement, TotalsStatement
<1>4. CASE k = <<r.user, r.torrent>>
  <2>1. /\ reported' = [reported EXCEPT ![k] = r.bytes]
        /\ restarted' = [restarted EXCEPT ![k] = restarted[k] \cup Restart(reported[k], r.bytes)]
        /\ moved' = [moved EXCEPT ![k] = [n \in Counter |->
             moved[k][n] + r.bytes[n] -
               (IF Restart(reported[k], r.bytes) = {} THEN reported[k] ELSE Zero)[n]]]
    BY <1>4 DEF Send
  <2>2. /\ reported \in [Key -> Bytes] /\ moved \in [Key -> [Counter -> Int]]
        /\ restarted \in [Key -> SUBSET {"below", "mixed"}]
    BY DEF Ground, Books, HistoryOK
  <2> HIDE DEF k
  <2>3. restarted[k] = {} /\ Restart(reported[k], r.bytes) = {}
    BY <1>0, <1>1, <2>1, <2>2
  <2>4. \A n \in Counter : r.bytes[n] >= reported[k][n]
    BY <2>3 DEF Restart
  <2>5. Running(u, t)  BY <1>1, <2>3 DEF RunningInv, Steady, k
  <2>6. \A b \in Bytes, n \in Counter : b[n] \in Nat  BY CountersNat
  <2>7. r.bytes \in Bytes /\ reported[k] \in Bytes /\ reported'[k] = r.bytes
    BY <1>0, <1>1, <2>1, <2>2 DEF RequestType
  <2>8. moved'[k] = reported'[k]
    <3>1. moved[k] = reported[k]  BY <2>5 DEF Running, k
    <3>2. moved'[k] = [n \in Counter |-> reported[k][n] + r.bytes[n] - reported[k][n]]
      BY <1>0, <2>1, <2>2, <2>3, <3>1
    <3>3. \A n \in Counter : reported[k][n] + r.bytes[n] - reported[k][n] = r.bytes[n]
      BY <2>6, <2>7
    <3>4. r.bytes = [n \in Counter |-> r.bytes[n]]  BY <2>7 DEF Bytes
    <3> QED  BY <2>7, <3>2, <3>3, <3>4
  <2>9. \A i \in Records(u, t), n \in Counter : clientTorrents[i].bytes[n] <= r.bytes[n]
    <3> TAKE i \in Records(u, t), n \in Counter
    <3>1. clientTorrents[i].bytes[n] <= reported[k][n]  BY <2>5 DEF Running, k
    <3>2. clientTorrents[i].bytes[n] \in Nat  BY CountersNat DEF Records
    <3> QED  BY <2>4, <2>6, <2>7, <3>1, <3>2
  <2>10. Running(u, t)'
    BY <1>0, <1>2, <2>5, <2>7, <2>8, <2>9 DEF Running, k
  <2>11. LiveOf(u) = {}
    <3>1. u = r.user /\ Apart(u)'  BY <1>4 DEF k, Steady, Orderly
    <3> QED  BY <3>1, SerialFork DEF Ground, Books
  <2>12. Reporting(u, t, c)'
    BY <1>0, <1>3, <2>7 DEF Reporting, k
  <2> QED  BY <1>0, <2>10, <2>11, <2>12
<1>5. CASE k # <<r.user, r.torrent>>
  <2>1. /\ reported'[k] = reported[k] /\ moved'[k] = moved[k] /\ restarted'[k] = restarted[k]
    BY <1>0, <1>5 DEF Send, Ground, Books, HistoryOK
  <2>2. /\ Running(u, t)
        /\ \A d \in LiveOf(u) : child[d].req.torrent = t => Reporting(u, t, d)
    BY <1>1, <2>1 DEF RunningInv, Steady
  <2>3. Running(u, t)'  BY <1>0, <1>2, <2>1, <2>2 DEF Running
  <2>4. ASSUME NEW d \in LiveOf(u)', child'[d].req.torrent = t PROVE Reporting(u, t, d)'
    <3>1. d # c  BY <1>0, <1>5, <2>4 DEF LiveOf
    <3>2. d \in LiveOf(u) /\ child'[d] = child[d]  BY <1>0, <2>4, <3>1 DEF LiveOf
    <3> QED  BY <1>0, <1>2, <2>1, <2>2, <2>4, <3>2 DEF Reporting, OldFound
  <2> QED  BY <2>3, <2>4
<1> QED  BY <1>4, <1>5

LEMMA RunningHolds == AccountingSpec => []RunningInv
<1>1. AccountingInit => RunningInv
  <2> SUFFICES ASSUME AccountingInit, NEW u \in User, NEW t \in Torrent
               PROVE  Running(u, t) /\ LiveOf(u) = {}
    BY DEF RunningInv
  <2>1. clientTorrents = << >> /\ totals = Empty /\ child = [c \in Child |-> Idle]
    BY DEF AccountingInit, Init
  <2>2. moved[<<u, t>>] = Zero /\ reported[<<u, t>>] = Zero
    BY DEF AccountingInit, Key
  <2> QED  BY <2>1, <2>2, IdleFields DEF Running, Records, Empty, LiveOf, Live
<1>2. /\ Ground /\ Ground' /\ ClientsInv /\ RecordsInv /\ UnsetInv /\ RunningInv
      /\ [AccountingNext]_<<vars, history>>
      => RunningInv'
  <2> SUFFICES ASSUME Ground, Ground', ClientsInv, RecordsInv, UnsetInv, RunningInv,
                      [AccountingNext]_<<vars, history>>
               PROVE  RunningInv'
    OBVIOUS
  <2>1. ASSUME NEW c \in Child, NEW r \in Request, Fork(c, r), Send(r), Join(c, r)
        PROVE  RunningInv'
    BY <2>1, RunningFork
  <2>2. ASSUME NEW c \in Child, ChildStep(c), UNCHANGED history PROVE RunningInv'
    <3> SUFFICES ASSUME NEW u \in User, NEW t \in Torrent, Steady(u, t)'
                 PROVE  /\ Running(u, t)'
                        /\ \A d \in LiveOf(u)' : child'[d].req.torrent = t => Reporting(u, t, d)'
      BY DEF RunningInv
    <3>0. Steady(u, t) /\ Orderly(<<u, t>>)
      BY <2>2 DEF Steady, Orderly, Apart, Private, Settled, history
    <3>1. /\ Running(u, t)
          /\ \A d \in LiveOf(u) : child[d].req.torrent = t => Reporting(u, t, d)
      BY <3>0 DEF RunningInv
    <3>2. /\ LiveOf(u)' \subseteq LiveOf(u) /\ \A d \in Child : child'[d].req = child[d].req
          /\ Live(c)
      BY <2>2, LiveStep DEF Ground
    <3>3. \A d, e \in LiveOf(u) : d = e
      BY <3>0 DEF Ground, Books, Serial, Orderly
    <3>4. CASE child[c].req.user = u /\ child[c].req.torrent = t
      <4>1. c \in LiveOf(u)  BY <3>2, <3>4 DEF LiveOf
      <4>2. Running(u, t)' /\ Reporting(u, t, c)'
        BY <2>2, <3>0, <3>1, <3>4, <4>1, ReportingStep
      <4>3. \A d \in LiveOf(u)' : d = c  BY <3>2, <3>3, <4>1
      <4> QED  BY <4>2, <4>3
    <3>5. CASE ~(child[c].req.user = u /\ child[c].req.torrent = t)
      <4>1. /\ Running(u, t)'
            /\ \A d \in LiveOf(u)' : d # c /\ Reporting(u, t, d) => Reporting(u, t, d)'
        BY <2>2, <3>0, <3>1, <3>5, BystanderStep
      <4>2. ASSUME NEW d \in LiveOf(u)', child'[d].req.torrent = t PROVE Reporting(u, t, d)'
        <5>1. d \in LiveOf(u) /\ child[d].req.torrent = t /\ d # c
          BY <3>2, <3>5, <4>2 DEF LiveOf
        <5> QED  BY <3>1, <4>1, <5>1
      <4> QED  BY <4>1, <4>2
    <3> QED  BY <3>4, <3>5
  <2>3. CASE (Tick /\ Minute) \/ UNCHANGED <<vars, history>>
    <3>1. UNCHANGED <<child, ipAddress, client, clientTorrents, totals, reported, moved, restarted,
                      overlaps>>
      BY <2>3 DEF Tick, Minute, vars, rows, history
    <3>2. \A u \in User, t \in Torrent : Steady(u, t)' => Steady(u, t)
      BY <3>1 DEF Steady, Orderly, Apart, Private, Settled
    <3>3. \A u, t : Running(u, t) => Running(u, t)'
      BY <3>1 DEF Running, Records, Owner
    <3>4. \A u, t : \A d \in Child : Reporting(u, t, d) => Reporting(u, t, d)'
      BY <3>1 DEF Reporting, OldFound, Records, Owner
    <3>5. \A u \in User : LiveOf(u)' = LiveOf(u)  BY <3>1 DEF LiveOf, Live
    <3> QED
      <4> SUFFICES ASSUME NEW u \in User, NEW t \in Torrent, Steady(u, t)'
                   PROVE  /\ Running(u, t)'
                          /\ \A d \in LiveOf(u)' : child'[d].req.torrent = t => Reporting(u, t, d)'
        BY DEF RunningInv
      <4>1. /\ Running(u, t)
            /\ \A d \in LiveOf(u) : child[d].req.torrent = t => Reporting(u, t, d)
        BY <3>2 DEF RunningInv
      <4>2. \A d \in LiveOf(u) : d \in Child  BY DEF LiveOf
      <4> QED  BY <3>1, <3>3, <3>4, <3>5, <4>1, <4>2
  <2> QED  BY <2>1, <2>2, <2>3, AccountingKinds
<1> QED
  BY <1>1, <1>2, GroundHolds, ClientsHold, RecordsHold, UnsetHolds, PTL DEF AccountingSpec

\* A client at its own address and port that waits for each answer and does not
\* restart is never credited more than it has reported, whatever statement of
\* insertClientInfo fails, whichever child dies and whatever other users do: the
\* totals never run ahead of the record, nor the record ahead of the reports.
THEOREM RunningClientsAreNotOvercredited == AccountingSpec => []CreditBoundedWhileRunning
<1>1. Ground /\ RunningInv => CreditBoundedWhileRunning
  <2> SUFFICES ASSUME Ground, RunningInv, NEW k \in DOMAIN totals, Orderly(k), restarted[k] = {}
               PROVE  Bounded(k)
    BY DEF CreditBoundedWhileRunning
  <2>1. PICK u \in User, t \in Torrent : k = <<u, t>>  BY DEF Ground, TypeOK
  <2>2. Running(u, t)  BY <2>1 DEF RunningInv, Steady
  <2>3. PICK i \in Records(u, t) : \A n \in Counter : totals[k].bytes[n] <= clientTorrents[i].bytes[n]
    BY <2>1, <2>2 DEF Running
  <2>4. moved[k] = reported[k] /\ \A n \in Counter : clientTorrents[i].bytes[n] <= reported[k][n]
    BY <2>1, <2>2 DEF Running
  <2>5. reported[k] \in Bytes /\ i \in DOMAIN clientTorrents
    BY <2>1 DEF Ground, Books, HistoryOK, Key, Records
  <2> QED  BY <2>3, <2>4, <2>5, CountersNat DEF Bounded
<1> QED  BY <1>1, GroundHolds, RunningHolds, PTL

----------------------------------------------------------------------------
\* The count of seeders and the list of peers.  The count can only fall behind by
\* what others record in between, so each child must have counted the others that
\* have still to record theirs.
Unrecorded == GateStatement \cup ClientStatement \cup Waiting

FreshRows(t)      == {i \in DOMAIN clientTorrents : clientTorrents[i].torrent = t /\ Fresh(i)}
OthersLive(c)     == {d \in Child \ {c} : Live(d)}
OthersPending(c)  == {d \in Child \ {c} : child[d].pc \in Unrecorded}

PeersInv ==
  \A c \in Child :
    /\ Live(c) => Cardinality(OthersLive(c)) <= company[c]
    /\ child[c].pc = "getPeers" =>
         Cardinality(FreshRows(child[c].req.torrent)) + Cardinality(OthersPending(c)) <=
           child[c].seeders + company[c]
    /\ Cardinality(child[c].peers) \in Nat
    /\ Cardinality(child[c].peers) <= child[c].seeders + company[c]

LEMMA NowStep ==
  ASSUME NEW c \in Child, ChildStep(c)
  PROVE  now' = now
<1>1. CASE Execute(c) /\ ~Writes(c)  BY <1>1, OthersRead
<1>2. CASE Writes(c)
  BY <1>2 DEF Writes, CreateIpAddress, UpdateClient, CreateClient, UpdateClientTorrents,
     CreateClientTorrent, UpdateUserBonusPoints, UpdateUserTorrentTotals, CreateUserTorrentTotals
<1>3. CASE Throw(c) \/ Die(c)  BY <1>3 DEF Throw, Die
<1> QED  BY <1>1, <1>2, <1>3 DEF ChildStep

\* With a unique key, the UPDATE rewrites at most one record.
LEMMA OneRowUpdated ==
  ASSUME TypeOK, UniqueTorrentClient, NEW c \in Child, ChildStep(c),
         child[c].pc = "updateClientTorrents", child'[c].pc = "totalTimeActive"
  PROVE  \A i, j \in UserTorrentRows(child[c].req.torrent, child[c].req.user) : i = j
<1>0. child \in Children /\ child[c] \in ChildState  BY DEF TypeOK, Children
<1> DEFINE mine  == UserTorrentRows(child[c].req.torrent, child[c].req.user)
           equal == mine \cup TorrentClientRows(child[c].req.torrent, child[c].clientId)
<1>1. ~Raise(c) /\ ~Die(c)
  <2>1. ASSUME Raise(c) PROVE FALSE
    <3>1. child'[c].pc = Caught(child[c].pc)  BY <1>0, <2>1 DEF Raise, Children, ChildState
    <3> QED  BY <3>1 DEF Caught, UpdateStatement, BonusStatement
  <2>2. ASSUME Die(c) PROVE FALSE
    <3>1. child'[c].pc = "dead"  BY <1>0, <2>2 DEF Die, Goto, Children, ChildState
    <3> QED  BY <3>1
  <2> QED  BY <2>1, <2>2
<1>2. UpdateClientTorrents(c)
  BY <1>1
     DEF ChildStep, Throw, Execute, At, GetUserId, UserCanLeech, IpaIsBanned, TorrentExists, GetIpaId,
         CreateIpAddress, GetIpaIdAgain, GetClientId, UpdateClient, CreateClient,
         SetOldUploadAndDownload, NewSeedMinutes, CreateClientTorrent,
         TotalTimeActive, CalcBonusPoints, UpdateUserBonusPoints, TotalsExist,
         UpdateUserTorrentTotals, CreateUserTorrentTotals, GetTorrentData, GetPeers,
         BuildErrorDict, BuildDictionary
<1>3. mine = {} \/ ~(Cardinality(equal) > 1)
  <2> SUFFICES ASSUME mine # {}, Cardinality(equal) > 1 PROVE FALSE
    OBVIOUS
  <2>1. Raise(c)  BY <1>2 DEF UpdateClientTorrents
  <2> QED  BY <1>1, <2>1
<1>4. ASSUME NEW i \in mine, NEW j \in mine, i # j PROVE FALSE
  <2>1. equal \subseteq DOMAIN clientTorrents
    BY DEF UserTorrentRows, TorrentClientRows
  <2>2. IsFiniteSet(DOMAIN clientTorrents)
    <3> HIDE DEF mine, equal
    <3>1. DOMAIN clientTorrents = 1 .. Len(clientTorrents) /\ Len(clientTorrents) \in Nat
      BY DEF TypeOK
    <3>2. IsFiniteSet(1 .. Len(clientTorrents))  BY ONLY <3>1, FS_Interval
    <3> QED  BY <3>1, <3>2
  <2>3. IsFiniteSet(equal)  BY <2>1, <2>2, FS_Subset
  <2>4. {i} \cup {j} \in SUBSET equal
    <3>1. mine \subseteq equal  OBVIOUS
    <3> HIDE DEF mine, equal
    <3> QED  BY <1>4, <3>1
  <2> HIDE DEF equal, mine
  <2>5. Cardinality({i} \cup {j}) = 2
    <3>1. IsFiniteSet({i}) /\ Cardinality({i}) = 1 /\ j \notin {i}  BY <1>4, FS_Singleton
    <3>2. Cardinality({i} \cup {j}) = Cardinality({i}) + 1  BY ONLY <3>1, FS_AddElement
    <3> QED  BY <3>1, <3>2
  <2>6. Cardinality({i} \cup {j}) <= Cardinality(equal)  BY <2>3, <2>4, FS_Subset
  <2>7. Cardinality(equal) \in Nat  BY <2>3, FS_CardinalityType
  <2> QED  BY <1>3, <1>4, <2>5, <2>6, <2>7
<1> QED  BY <1>4

\* Each announce makes at most one more record fresh, when it is recorded.
LEMMA FreshStep ==
  ASSUME TypeOK, UniqueTorrentClient, NEW c \in Child, ChildStep(c), NEW t
  PROVE  \/ FreshRows(t)' \subseteq FreshRows(t)
         \/ /\ child[c].pc \in Unrecorded /\ child'[c].pc \notin Unrecorded
            /\ \E j : FreshRows(t)' \subseteq FreshRows(t) \cup {j}
<1>0. now' = now  BY NowStep
<1>1. CASE clientTorrents' = clientTorrents
  BY <1>0, <1>1 DEF FreshRows, Fresh
<1>2. CASE clientTorrents' # clientTorrents
  <2>1. child'[c].pc = "totalTimeActive"  BY <1>2, RecordOutcome
  <2>2. child[c].pc \in {"updateClientTorrents", "createClientTorrent"}  BY <2>1, RecordOutcome
  <2>3. \A i \in DOMAIN clientTorrents' :
          i \in DOMAIN clientTorrents /\ clientTorrents'[i] = clientTorrents[i] =>
            (i \in FreshRows(t)' => i \in FreshRows(t))
    BY <1>0 DEF FreshRows, Fresh
  <2>4. \A i \in FreshRows(t)' : i \in DOMAIN clientTorrents'  BY DEF FreshRows
  <2>5. \E j : FreshRows(t)' \subseteq FreshRows(t) \cup {j}
    <3>1. CASE child[c].pc = "createClientTorrent"
      <4>1. PICK j : j = Len(clientTorrents) + 1  OBVIOUS
      <4>2. FreshRows(t)' \subseteq FreshRows(t) \cup {j}
        BY <2>3, <2>4, <3>1, <4>1, RecordChange
      <4> QED  BY <4>2
    <3>2. CASE child[c].pc = "updateClientTorrents"
      <4>1. PICK j : \A i \in UserTorrentRows(child[c].req.torrent, child[c].req.user) : i = j
        BY <2>1, <3>2, OneRowUpdated
      <4>2. FreshRows(t)' \subseteq FreshRows(t) \cup {j}
        BY <2>3, <2>4, <3>2, <4>1, RecordChange
      <4> QED  BY <4>2
    <3> QED  BY <2>2, <3>1, <3>2
  <2> QED
    BY <2>1, <2>2, <2>5 DEF Unrecorded, GateStatement, ClientStatement, Waiting
<1> QED  BY <1>1, <1>2

\* The fresh rows of a torrent can be counted, now and after a step.
LEMMA FreshCount ==
  ASSUME TypeOK, NEW t, NEW S \in SUBSET FreshRows(t)
  PROVE  IsFiniteSet(S) /\ Cardinality(S) \in Nat /\ Cardinality(S) <= Cardinality(FreshRows(t))
<1>1. DOMAIN clientTorrents = 1 .. Len(clientTorrents) /\ Len(clientTorrents) \in Nat
  BY DEF TypeOK
<1>2. IsFiniteSet(FreshRows(t))
  <2>1. FreshRows(t) \in SUBSET (1 .. Len(clientTorrents))  BY <1>1 DEF FreshRows
  <2>2. IsFiniteSet(1 .. Len(clientTorrents))  BY <1>1, FS_Interval
  <2> QED  BY <2>1, <2>2, FS_Subset
<1> QED  BY <1>2, FS_Subset, FS_CardinalityType

\* getTorrentData counts the fresh rows of the torrent.
LEMMA SeedersCounted ==
  ASSUME TypeOK, NEW c \in Child, ChildStep(c), child'[c].pc = "getPeers",
         NEW t, t = child[c].req.torrent
  PROVE  /\ child[c].pc = "getTorrentData"
         /\ child'[c].seeders = Cardinality(FreshRows(t)) /\ FreshRows(t)' = FreshRows(t)
<1>0. child \in Children /\ child[c] \in ChildState /\ Moves(child[c], child'[c])
  BY ChildStepEffect DEF TypeOK, Children, Effect
<1>1. child[c].pc = "getTorrentData"
  BY <1>0 DEF Moves, Succeeds, Follows, Fails, Caught, Dies
<1>2. ~Raise(c) /\ ~Die(c)
  <2>1. ASSUME Raise(c) PROVE FALSE
    <3>1. child'[c].pc = Caught(child[c].pc)  BY <1>0, <2>1 DEF Raise, Children, ChildState
    <3> QED  BY <3>1, <1>1 DEF Caught, UpdateStatement, BonusStatement
  <2>2. ASSUME Die(c) PROVE FALSE
    <3>1. child'[c].pc = "dead"  BY <1>0, <2>2 DEF Die, Goto, Children, ChildState
    <3> QED  BY <3>1
  <2> QED  BY <2>1, <2>2
<1>3. GetTorrentData(c)
  BY <1>1, <1>2
     DEF ChildStep, Throw, Execute, At, GetUserId, UserCanLeech, IpaIsBanned, TorrentExists, GetIpaId,
         CreateIpAddress, GetIpaIdAgain, GetClientId, UpdateClient, CreateClient,
         SetOldUploadAndDownload, NewSeedMinutes, UpdateClientTorrents, CreateClientTorrent,
         TotalTimeActive, CalcBonusPoints, UpdateUserBonusPoints, TotalsExist,
         UpdateUserTorrentTotals, CreateUserTorrentTotals, GetPeers, BuildErrorDict,
         BuildDictionary
<1>4. \E n : child' = [child EXCEPT ![c].pc = "getPeers", ![c].leechers = n,
                                   ![c].seeders = Cardinality(FreshRows(t))]
  <2>1. ~Goto(c, "dead")
    <3>1. Goto(c, "dead") => child'[c].pc = "dead"  BY <1>0 DEF Goto, Children, ChildState
    <3> QED  BY <3>1
  <2> DEFINE ofTorrent == {j \in DOMAIN clientTorrents : clientTorrents[j].torrent = t}
             fresh     == {i \in ofTorrent : Fresh(i)}
             leeching  == {i \in ofTorrent : clientTorrents[i].isActive = 1 /\ clientTorrents[i].left > 0}
  <2>2. fresh = FreshRows(t)  BY DEF FreshRows
  <2>3. child' = [child EXCEPT ![c].pc = "getPeers", ![c].seeders = Cardinality(fresh),
                               ![c].leechers = Cardinality(leeching)]
    BY <1>3, <2>1 DEF GetTorrentData
  <2> HIDE DEF fresh, leeching
  <2>4. child' = [child EXCEPT ![c].pc = "getPeers", ![c].leechers = Cardinality(leeching),
                               ![c].seeders = Cardinality(FreshRows(t))]
    BY <1>0, <2>2, <2>3 DEF Children, ChildState
  <2> QED  BY <2>4
<1>5. child'[c].seeders = Cardinality(FreshRows(t))
  BY <1>0, <1>4 DEF Children, ChildState
<1>6. UNCHANGED <<clientTorrents, now>>  BY <1>3 DEF GetTorrentData, rows
<1> QED  BY <1>1, <1>5, <1>6 DEF FreshRows, Fresh

\* getPeers lists fresh rows only.
LEMMA PeersListed ==
  ASSUME TypeOK, NEW c \in Child, GetPeers(c)
  PROVE  child'[c].peers \in SUBSET FreshRows(child[c].req.torrent)
<1>1. child \in Children /\ child[c] \in ChildState  BY DEF TypeOK, Children
<1> QED  BY <1>1 DEF GetPeers, FreshRows, Children, ChildState

LEMMA PeersStep ==
  ASSUME Ground, Ground', UnsetInv, PeersInv, UniqueTorrentClient,
         NEW c \in Child, ChildStep(c), company' = company
  PROVE  PeersInv'
<1>0. /\ child'[c].req = child[c].req /\ Moves(child[c], child'[c]) /\ FieldsKept(c)
      /\ \A d \in Child \ {c} : child'[d] = child[d]
      /\ TypeOK /\ TypeOK' /\ Live(c)
      /\ company \in [Child -> Nat]
      /\ \A d \in Child : child[d].seeders \in Nat /\ child'[d].seeders \in Nat
  BY ChildStepEffect, FieldStep, LiveStep DEF Ground, Books, HistoryOK, Effect, TypeOK, ChildState
<1>1. ASSUME NEW d \in Child, Live(d)' PROVE Cardinality(OthersLive(d)') <= company[d]
  <2>1. Live(d) /\ OthersLive(d)' \subseteq OthersLive(d)
    BY <1>0, <1>1, LiveStep DEF OthersLive
  <2>2. OthersLive(d)' \in SUBSET OthersLive(d) /\ OthersLive(d) \in SUBSET Child
    BY <2>1 DEF OthersLive
  <2>3. IsFiniteSet(OthersLive(d)) /\ Cardinality(OthersLive(d)) \in Nat
        /\ Cardinality(OthersLive(d)') \in Nat
    BY <2>2, SomeAlive
  <2>4. Cardinality(OthersLive(d)') <= Cardinality(OthersLive(d))
    BY <2>2, <2>3, FS_Subset
  <2> QED  BY <1>0, <2>1, <2>3, <2>4 DEF PeersInv
<1>2. child'[c].pc \in Unrecorded => child[c].pc \in Unrecorded
  BY <1>0 DEF Unrecorded, Waiting, GateStatement, ClientStatement, Moves, Succeeds, Follows, Fails,
     Caught, UpdateStatement, BonusStatement, Dies
<1>3. ASSUME NEW d \in Child, child'[d].pc = "getPeers", NEW t, t = child[d].req.torrent
      PROVE  Cardinality(FreshRows(t)') + Cardinality(OthersPending(d)') <=
               child'[d].seeders + company[d]
  <2>1. OthersPending(d)' \subseteq OthersPending(d)  BY <1>0, <1>2 DEF OthersPending
  <2>2. OthersPending(d)' \in SUBSET OthersPending(d) /\ OthersPending(d) \in SUBSET Child
    BY <2>1 DEF OthersPending
  <2>3. /\ IsFiniteSet(OthersPending(d)) /\ Cardinality(OthersPending(d)) \in Nat
        /\ Cardinality(OthersPending(d)') \in Nat
        /\ Cardinality(OthersPending(d)') <= Cardinality(OthersPending(d))
    BY <2>2, SomeAlive, FS_Subset
  <2>4. /\ IsFiniteSet(FreshRows(t)) /\ Cardinality(FreshRows(t)) \in Nat
        /\ Cardinality(FreshRows(t)') \in Nat
    <3>1. IsFiniteSet(FreshRows(t)) /\ Cardinality(FreshRows(t)) \in Nat
      BY <1>0, FreshCount
    <3>2. FreshRows(t)' \in SUBSET DOMAIN clientTorrents'  BY DEF FreshRows
    <3>3. clientTorrents' \in Seq(TorrentRow)  BY <1>0 DEF TypeOK
    <3> QED  BY <3>1, <3>2, <3>3, RowCount
  <2>5. CASE d = c
    <3>1. child'[c].seeders = Cardinality(FreshRows(t)) /\ FreshRows(t)' = FreshRows(t)
      BY <1>0, <1>3, <2>5, SeedersCounted
    <3>2. OthersPending(c) \in SUBSET OthersLive(c) /\ OthersLive(c) \in SUBSET Child
      BY DEF OthersPending, OthersLive, Unrecorded, Live, Ended, Waiting, GateStatement, ClientStatement
    <3>3. /\ Cardinality(OthersPending(c)) <= Cardinality(OthersLive(c))
          /\ Cardinality(OthersLive(c)) \in Nat
      BY <3>2, SomeAlive, FS_Subset
    <3>4. Cardinality(OthersLive(c)) <= company[c]  BY <1>0 DEF PeersInv
    <3> QED  BY <1>0, <2>3, <2>4, <2>5, <3>1, <3>3, <3>4
  <2>6. CASE d # c
    <3>1. /\ child'[d] = child[d]
          /\ Cardinality(FreshRows(t)) + Cardinality(OthersPending(d)) <= child[d].seeders + company[d]
      BY <1>0, <1>3, <2>6 DEF PeersInv
    <3>2. CASE FreshRows(t)' \subseteq FreshRows(t)
      <4>1. Cardinality(FreshRows(t)') <= Cardinality(FreshRows(t))  BY <2>4, <3>2, FS_Subset
      <4> QED  BY <1>0, <2>3, <2>4, <3>1, <4>1
    <3>3. CASE /\ child[c].pc \in Unrecorded /\ child'[c].pc \notin Unrecorded
               /\ \E j : FreshRows(t)' \subseteq FreshRows(t) \cup {j}
      <4>1. PICK j : FreshRows(t)' \subseteq FreshRows(t) \cup {j}  BY <3>3
      <4>2. Cardinality(FreshRows(t)') <= Cardinality(FreshRows(t)) + 1
        <5>1. /\ IsFiniteSet(FreshRows(t) \cup {j})
              /\ Cardinality(FreshRows(t) \cup {j}) <= Cardinality(FreshRows(t)) + 1
              /\ Cardinality(FreshRows(t) \cup {j}) \in Nat
          BY <2>4, FS_AddElement
        <5>2. Cardinality(FreshRows(t)') <= Cardinality(FreshRows(t) \cup {j})
          BY <4>1, <5>1, FS_Subset
        <5> QED  BY <2>4, <5>1, <5>2
      <4>3. Cardinality(OthersPending(d)') <= Cardinality(OthersPending(d)) - 1
        <5>1. c \in OthersPending(d) /\ OthersPending(d)' \in SUBSET (OthersPending(d) \ {c})
          BY <2>1, <2>6, <3>3 DEF OthersPending
        <5>2. /\ IsFiniteSet(OthersPending(d) \ {c})
              /\ Cardinality(OthersPending(d) \ {c}) = Cardinality(OthersPending(d)) - 1
          BY <2>3, <5>1, FS_RemoveElement
        <5>3. Cardinality(OthersPending(d)') <= Cardinality(OthersPending(d) \ {c})
          BY <5>1, <5>2, FS_Subset
        <5> QED  BY <5>2, <5>3
      <4> QED  BY <1>0, <2>3, <2>4, <3>1, <4>2, <4>3
    <3> QED  BY <1>0, <3>2, <3>3, FreshStep
  <2> QED  BY <2>5, <2>6
<1>4. ASSUME NEW d \in Child
      PROVE  /\ Cardinality(child'[d].peers) \in Nat
             /\ Cardinality(child'[d].peers) <= child'[d].seeders + company[d]
  <2>1. /\ Cardinality(child[d].peers) \in Nat
        /\ Cardinality(child[d].peers) <= child[d].seeders + company[d]
    BY DEF PeersInv
  <2>2. CASE child'[d].peers = child[d].peers /\ child'[d].seeders = child[d].seeders
    BY <2>1, <2>2
  <2>3. CASE d = c /\ GetTorrentData(c)
    <3>1. child[c].peers = {}
      BY <2>3 DEF GetTorrentData, At, UnsetInv, Statement, AnswerStatement
    <3>2. child'[c].peers = child[c].peers  BY <1>0, <2>3 DEF FieldsKept, GetTorrentData, GetPeers, At
    <3> QED  BY <1>0, <2>3, <3>1, <3>2, FS_EmptySet
  <2>4. CASE d = c /\ GetPeers(c)
    <3>1. child'[c].seeders = child[c].seeders
      BY <1>0, <2>4 DEF FieldsKept, GetTorrentData, GetPeers, At
    <3> DEFINE fresh == FreshRows(child[c].req.torrent)
    <3>2. Cardinality(fresh) + Cardinality(OthersPending(c)) <= child[c].seeders + company[c]
      BY <2>4 DEF GetPeers, At, PeersInv
    <3>3. Cardinality(child'[c].peers) <= Cardinality(fresh) /\ Cardinality(child'[c].peers) \in Nat
          /\ Cardinality(fresh) \in Nat
      BY <1>0, <2>4, PeersListed, FreshCount
    <3>4. Cardinality(OthersPending(c)) \in Nat
      <4>1. OthersPending(c) \in SUBSET Child  BY DEF OthersPending
      <4> QED  BY <4>1, SomeAlive
    <3> QED  BY <1>0, <2>4, <3>1, <3>2, <3>3, <3>4
  <2> QED  BY <1>0, <2>2, <2>3, <2>4 DEF FieldsKept
<1>5. \A d \in Child : child'[d].req = child[d].req  BY <1>0
<1> QED  BY <1>1, <1>3, <1>4, <1>5 DEF PeersInv

LEMMA PeersFork ==
  ASSUME Ground, UnsetInv, PeersInv, NEW c \in Child, NEW r \in Request, Fork(c, r), Join(c, r)
  PROVE  PeersInv'
<1>0. /\ child[c].pc = "idle" /\ child'[c].pc = "getUserId" /\ ~Live(c) /\ child[c] \in ChildState
      /\ \A d \in Child \ {c} : child'[d] = child[d]
      /\ UNCHANGED <<clientTorrents, now>>
      /\ company \in [Child -> Nat]
      /\ \A d \in Child : child[d].seeders \in Nat
  BY ForkQuiet DEF Fork, At, Ground, Books, HistoryOK, TypeOK, ChildState, rows
<1>1. child'[c].peers = {} /\ child'[c].seeders = child[c].seeders
  <2>1. child[c].peers = {}  BY <1>0 DEF UnsetInv
  <2>2. child'[c].peers = child[c].peers /\ child'[c].seeders = child[c].seeders
    BY <1>0 DEF Fork, Ground, TypeOK, ChildState
  <2> QED  BY <2>1, <2>2
<1> DEFINE alive == {d \in Child : Live(d)}
<1>2. alive \in SUBSET Child /\ Cardinality(alive) \in Nat  BY SomeAlive
<1>3. /\ company' \in [Child -> Nat]
      /\ company'[c] = Cardinality(alive)
      /\ \A d \in Child \ {c} : company'[d] = IF Live(d) THEN company[d] + 1 ELSE company[d]
  BY <1>0, <1>2 DEF Join
<1>4. OthersLive(c)' = alive
  BY <1>0 DEF OthersLive, Live
<1> HIDE DEF alive
<1>5. ASSUME NEW d \in Child \ {c}, NEW S \in SUBSET Child
      PROVE  Cardinality(S \cup {c}) <= Cardinality(S) + 1 /\ Cardinality(S \cup {c}) \in Nat
             /\ Cardinality(S) \in Nat
    BY SomeAlive, FS_AddElement
<1>6. ASSUME NEW d \in Child \ {c}, Live(d)'
      PROVE  /\ Live(d) /\ company'[d] = company[d] + 1
             /\ Cardinality(OthersLive(d)') <= Cardinality(OthersLive(d)) + 1
             /\ Cardinality(OthersPending(d)') <= Cardinality(OthersPending(d)) + 1
             /\ {Cardinality(OthersLive(d)), Cardinality(OthersLive(d)'),
                 Cardinality(OthersPending(d)), Cardinality(OthersPending(d)')} \subseteq Nat
  <2>1. Live(d)  BY <1>0, <1>6 DEF Live
  <2>2. OthersLive(d)' = OthersLive(d) \cup {c} /\ OthersPending(d)' = OthersPending(d) \cup {c}
    BY <1>0 DEF OthersLive, OthersPending, Live, Ended, Unrecorded, GateStatement
  <2>3. OthersLive(d) \in SUBSET Child /\ OthersPending(d) \in SUBSET Child
    BY DEF OthersLive, OthersPending
  <2> QED  BY <1>3, <1>5, <2>1, <2>2, <2>3
<1>7. ASSUME NEW d \in Child, Live(d)' PROVE Cardinality(OthersLive(d)') <= company'[d]
  <2>1. CASE d = c  BY <1>2, <1>3, <1>4, <2>1
  <2>2. CASE d # c
    BY <1>0, <1>6, <1>7, <2>2 DEF PeersInv
  <2> QED  BY <2>1, <2>2
<1>8. ASSUME NEW d \in Child, child'[d].pc = "getPeers", NEW t, t = child[d].req.torrent
      PROVE  /\ child'[d].req.torrent = t
             /\ Cardinality(FreshRows(t)') + Cardinality(OthersPending(d)') <=
                  child'[d].seeders + company'[d]
  <2>1. d # c /\ child'[d] = child[d]  BY <1>0, <1>8
  <2>2. Live(d)'  BY <1>8 DEF Live, Ended
  <2>3. Cardinality(FreshRows(t)) + Cardinality(OthersPending(d)) <= child[d].seeders + company[d]
    BY <1>8, <2>1 DEF PeersInv
  <2>4. FreshRows(t)' = FreshRows(t)  BY <1>0 DEF FreshRows, Fresh
  <2>5. Cardinality(FreshRows(t)) \in Nat  BY FreshCount DEF Ground
  <2> QED  BY <1>0, <1>6, <1>8, <2>1, <2>2, <2>3, <2>4, <2>5
<1>9. ASSUME NEW d \in Child
      PROVE  /\ Cardinality(child'[d].peers) \in Nat
             /\ Cardinality(child'[d].peers) <= child'[d].seeders + company'[d]
  <2>1. CASE d = c
    <3>1. Cardinality(child'[c].peers) = 0  BY <1>1, FS_EmptySet
    <3>2. child'[c].seeders \in Nat /\ company'[c] \in Nat  BY <1>0, <1>1, <1>3
    <3> QED  BY <2>1, <3>1, <3>2
  <2>2. CASE d # c
    <3>1. /\ Cardinality(child[d].peers) \in Nat
          /\ Cardinality(child[d].peers) <= child[d].seeders + company[d]
      BY DEF PeersInv
    <3>2. company'[d] = company[d] + 1 \/ company'[d] = company[d]  BY <1>3, <2>2
    <3>3. child'[d] = child[d]  BY <1>0, <2>2
    <3> QED  BY <1>0, <3>1, <3>2, <3>3
  <2> QED  BY <2>1, <2>2
<1> QED
  <2>1. ASSUME NEW d \in Child, child'[d].pc = "getPeers"
        PROVE  Cardinality(FreshRows(child[d].req.torrent)') + Cardinality(OthersPending(d)') <=
                 child'[d].seeders + company'[d]
               /\ child'[d].req.torrent = child[d].req.torrent
    <3>1. PICK t : t = child[d].req.torrent  OBVIOUS
    <3> QED  BY <1>8, <2>1, <3>1
  <2> QED  BY <1>7, <1>9, <2>1 DEF PeersInv

\* With time, records only cease to be fresh.
LEMMA PeersTick ==
  ASSUME Ground, PeersInv, Tick, company' = company
  PROVE  PeersInv'
<1>0. UNCHANGED <<child, clientTorrents>> /\ now' = now + 1 /\ TypeOK /\ now \in Nat
  BY DEF Tick, rows, Ground, TypeOK
<1>1. ASSUME NEW t PROVE /\ Cardinality(FreshRows(t)') <= Cardinality(FreshRows(t))
                         /\ Cardinality(FreshRows(t)) \in Nat /\ Cardinality(FreshRows(t)') \in Nat
  <2>1. \A i \in DOMAIN clientTorrents : clientTorrents[i].lastActivity \in Nat
    BY <1>0, RecordType DEF TorrentRow
  <2>2. \A i \in DOMAIN clientTorrents : Fresh(i)' => Fresh(i)
    BY <1>0, <2>1, BoundAssumption DEF Fresh
  <2>3. FreshRows(t)' \in SUBSET FreshRows(t)  BY <1>0, <2>2 DEF FreshRows
  <2> QED  BY <1>0, <2>3, FreshCount
<1>2. \A d \in Child : OthersLive(d)' = OthersLive(d) /\ OthersPending(d)' = OthersPending(d)
                       /\ (Live(d)' <=> Live(d))
  BY <1>0 DEF OthersLive, OthersPending, Live
<1>3. ASSUME NEW d \in Child, child[d].pc = "getPeers", NEW t, t = child[d].req.torrent
      PROVE  Cardinality(FreshRows(t)') + Cardinality(OthersPending(d)) <=
               child[d].seeders + company[d]
  <2>1. Cardinality(FreshRows(t)) + Cardinality(OthersPending(d)) <= child[d].seeders + company[d]
    BY <1>3 DEF PeersInv
  <2>2. OthersPending(d) \in SUBSET Child  BY DEF OthersPending
  <2>3. Cardinality(OthersPending(d)) \in Nat  BY <2>2, SomeAlive
  <2>4. child[d].seeders \in Nat /\ company[d] \in Nat
    BY DEF Ground, TypeOK, ChildState, Books, HistoryOK
  <2> QED  BY <1>1, <2>1, <2>3, <2>4
<1>4. ASSUME NEW d \in Child, child[d].pc = "getPeers"
      PROVE  Cardinality(FreshRows(child[d].req.torrent)') + Cardinality(OthersPending(d)) <=
               child[d].seeders + company[d]
  <2>1. PICK t : t = child[d].req.torrent  OBVIOUS
  <2> QED  BY <1>0, <1>3, <1>4, <2>1
<1> QED  BY <1>0, <1>2, <1>4 DEF PeersInv

LEMMA PeersHold == AccountingSpec => [](UniqueTorrentClient => PeersInv)
<1>1. AccountingInit => PeersInv
  <2> SUFFICES ASSUME AccountingInit, NEW c \in Child
               PROVE  /\ ~Live(c) /\ child[c].pc # "getPeers"
                      /\ Cardinality(child[c].peers) \in Nat
                      /\ Cardinality(child[c].peers) <= child[c].seeders + company[c]
    BY DEF PeersInv
  <2>1. child[c].pc = "idle" /\ child[c].peers = {} /\ child[c].seeders = 0 /\ company[c] = 0
    BY DEF AccountingInit, Init, Idle
  <2> QED  BY <2>1, FS_EmptySet DEF Live
<1>2. /\ Ground /\ Ground' /\ UnsetInv /\ (UniqueTorrentClient => PeersInv)
      /\ [AccountingNext]_<<vars, history>>
      => (UniqueTorrentClient => PeersInv)'
  <2> SUFFICES ASSUME Ground, Ground', UnsetInv, UniqueTorrentClient, PeersInv,
                      [AccountingNext]_<<vars, history>>
               PROVE  PeersInv'
    OBVIOUS
  <2>1. ASSUME NEW c \in Child, NEW r \in Request, Fork(c, r), Join(c, r) PROVE PeersInv'
    BY <2>1, PeersFork
  <2>2. ASSUME NEW c \in Child, ChildStep(c), UNCHANGED history PROVE PeersInv'
    BY <2>2, PeersStep DEF history
  <2>3. CASE Tick /\ Minute
    BY <2>3, PeersTick DEF Minute
  <2>4. CASE UNCHANGED <<vars, history>>
    BY <2>4 DEF vars, rows, history, PeersInv, OthersLive, OthersPending, FreshRows, Fresh, Live
  <2> QED  BY <2>1, <2>2, <2>3, <2>4, AccountingKinds
<1> QED  BY <1>1, <1>2, GroundHolds, UnsetHolds, PTL DEF AccountingSpec

\* The answer of getPeers is never longer than the count of seeders sent with it
\* by more than the announces that were alive meanwhile, for any number of them.
THEOREM PeersStayWithinCount == AccountingSpec => []PeersWithinCount
<1>1. (UniqueTorrentClient => PeersInv) => PeersWithinCount
  BY DEF PeersInv, PeersWithinCount
<1> QED  BY <1>1, PeersHold, PTL

----------------------------------------------------------------------------
\* The credit of an orderly client that has restarted, when nothing fails.  Its
\* announces must all be recorded: no statement before the totals refuses one of
\* a user who has already been admitted.
Located4 == {"getIpaId", "createIpAddress", "getIpaIdAgain", "getClientId"}

AdmittedInv ==
  /\ \A ip \in DOMAIN ipAddress : ~ipAddress[ip].isBanned
  /\ \A c \in Child : child[c].pc \in {"idle"} \cup GateStatement => child[c].again = FALSE
  /\ \A c \in Child :
       child[c].pc \in Statement \ GateStatement => child[c].req.torrent \in torrents
  /\ \A u \in User, t \in Torrent : Private(u) /\ Records(u, t) # {} =>
       account[u] = "member" /\ t \in torrents

\* What the SELECTs of getClientId's family have found still holds.
Ready(c) ==
  /\ child[c].pc = "createIpAddress" => child[c].req.ip \notin DOMAIN ipAddress
  /\ child[c].pc = "getIpaIdAgain" => child[c].req.ip \in DOMAIN ipAddress
  /\ child[c].pc \in Located4 /\ child[c].again => ClientIds(child[c].req) # {}

ReadyInv == faults = 0 => \A u \in User : Calm(u) => \A c \in LiveOf(u) : Ready(c)

\* Without a fault, a child executes its statement.
LEMMA Undisturbed ==
  ASSUME Ground, NEW c \in Child, ChildStep(c), faults' = 0
  PROVE  Execute(c) /\ faults = 0
<1>1. faults \in Nat  BY DEF Ground, TypeOK
<1>2. ~Throw(c) /\ ~Die(c)  BY <1>1 DEF Throw, Die
<1>3. Execute(c)  BY <1>2 DEF ChildStep
<1>4. faults' = faults
  <2>1. CASE Writes(c)
    BY <2>1 DEF Writes, CreateIpAddress, UpdateClient, CreateClient, UpdateClientTorrents,
       CreateClientTorrent, UpdateUserBonusPoints, UpdateUserTorrentTotals, CreateUserTorrentTotals
  <2>2. CASE ~Writes(c)  BY <1>3, <2>2, OthersRead
  <2> QED  BY <2>1, <2>2
<1> QED  BY <1>3, <1>4

\* The statement a child is at is the one it executes.
LEMMA ExecuteAt ==
  ASSUME NEW c \in Child, Execute(c)
  PROVE  /\ child[c].pc = "getUserId" => GetUserId(c)
         /\ child[c].pc = "userCanLeech" => UserCanLeech(c)
         /\ child[c].pc = "ipaIsBanned" => IpaIsBanned(c)
         /\ child[c].pc = "torrentExists" => TorrentExists(c)
         /\ child[c].pc = "getIpaId" => GetIpaId(c)
         /\ child[c].pc = "createIpAddress" => CreateIpAddress(c)
         /\ child[c].pc = "getIpaIdAgain" => GetIpaIdAgain(c)
         /\ child[c].pc = "getClientId" => GetClientId(c)
         /\ child[c].pc = "updateClient" => UpdateClient(c)
         /\ child[c].pc = "createClient" => CreateClient(c)
         /\ child[c].pc = "setOldUploadAndDownload" => SetOldUploadAndDownload(c)
         /\ child[c].pc = "newSeedMinutes" => NewSeedMinutes(c)
         /\ child[c].pc = "updateClientTorrents" => UpdateClientTorrents(c)
         /\ child[c].pc = "createClientTorrent" => CreateClientTorrent(c)
         /\ child[c].pc = "totalTimeActive" => TotalTimeActive(c)
         /\ child[c].pc = "calcBonusPoints" => CalcBonusPoints(c)
         /\ child[c].pc = "updateUserBonusPoints" => UpdateUserBonusPoints(c)
         /\ child[c].pc = "totalsExist" => TotalsExist(c)
         /\ child[c].pc = "updateUserTorrentTotals" => UpdateUserTorrentTotals(c)
         /\ child[c].pc = "createUserTorrentTotals" => CreateUserTorrentTotals(c)
  BY DEF Execute, At, GetUserId, UserCanLeech, IpaIsBanned, TorrentExists, GetIpaId,
     CreateIpAddress, GetIpaIdAgain, GetClientId, UpdateClient, CreateClient,
     SetOldUploadAndDownload, NewSeedMinutes, UpdateClientTorrents, CreateClientTorrent,
     TotalTimeActive, CalcBonusPoints, UpdateUserBonusPoints, TotalsExist,
     UpdateUserTorrentTotals, CreateUserTorrentTotals, GetTorrentData, GetPeers, BuildErrorDict,
     BuildDictionary

\* The web site is at rest in Accounting.
LEMMA SiteStep ==
  ASSUME NEW c \in Child, ChildStep(c)
  PROVE  account' = account /\ torrents' = torrents
<1>1. CASE Execute(c) /\ ~Writes(c)  BY <1>1, OthersRead DEF site
<1>2. CASE Writes(c)
  BY <1>2 DEF Writes, CreateIpAddress, UpdateClient, CreateClient, UpdateClientTorrents, site,
     CreateClientTorrent, UpdateUserBonusPoints, UpdateUserTorrentTotals, CreateUserTorrentTotals
<1>3. CASE Throw(c) \/ Die(c)  BY <1>3 DEF Throw, Die, site
<1> QED  BY <1>1, <1>2, <1>3 DEF ChildStep

LEMMA NewAddress ==
  ASSUME NEW c \in Child, ChildStep(c), NEW ip \in DOMAIN ipAddress', ip \notin DOMAIN ipAddress
  PROVE  ~ipAddress'[ip].isBanned
<1>1. CASE Execute(c) /\ ~Writes(c)  BY <1>1, OthersRead DEF rows
<1>2. CASE CreateIpAddress(c)
  BY <1>2 DEF CreateIpAddress, Put
<1>3. CASE Writes(c) /\ ~CreateIpAddress(c)
  BY <1>3 DEF Writes, UpdateClient, CreateClient, UpdateClientTorrents, rows,
     CreateClientTorrent, UpdateUserBonusPoints, UpdateUserTorrentTotals, CreateUserTorrentTotals
<1>4. CASE Throw(c) \/ Die(c)  BY <1>4 DEF Throw, Die, rows
<1> QED  BY <1>1, <1>2, <1>3, <1>4 DEF ChildStep

LEMMA AdmittedStep ==
  ASSUME Ground, AdmittedInv, NEW c \in Child, ChildStep(c)
  PROVE  AdmittedInv'
<1>0. /\ TypeOK /\ Moves(child[c], child'[c]) /\ FieldsKept(c)
      /\ \A d \in Child \ {c} : child'[d] = child[d]
      /\ child'[c].req = child[c].req
      /\ account' = account /\ torrents' = torrents
  BY ChildStepEffect, FieldStep, LiveStep, SiteStep DEF Ground, Effect
<1> USE DEF Statement, GateStatement, ClientStatement, UpdateStatement, BonusStatement,
            TotalsStatement, AnswerStatement
<1>1. \A ip \in DOMAIN ipAddress' : ~ipAddress'[ip].isBanned
  BY AddressStep, NewAddress DEF AdmittedInv
<1>2. child'[c].pc \in {"idle"} \cup GateStatement => child'[c].again = FALSE
  <2>1. child'[c].pc \in {"idle"} \cup GateStatement => child[c].pc \in GateStatement
    BY <1>0 DEF Moves, Succeeds, Follows, Fails, Caught, Dies
  <2> QED  BY <1>0, <2>1 DEF FieldsKept, UpdateClient, CreateClient, At, AdmittedInv
<1>3. child'[c].pc \in Statement \ GateStatement => child'[c].req.torrent \in torrents'
  <2>1. child'[c].pc \in Statement \ GateStatement =>
          child[c].pc \in Statement \ GateStatement \/ child[c].req.torrent \in torrents
    BY <1>0 DEF Moves, Succeeds, Follows, Fails, Caught, Dies
  <2> QED  BY <1>0, <2>1 DEF AdmittedInv
<1>4. ASSUME NEW u \in User, NEW t \in Torrent, Private(u), Records(u, t)' # {}
      PROVE  account[u] = "member" /\ t \in torrents
  <2>1. CASE Records(u, t) # {}  BY <1>4, <2>1 DEF AdmittedInv
  <2>2. CASE Records(u, t) = {}
    <3>1. child[c].pc = "createClientTorrent" /\ child[c].req.user = u /\ child[c].req.torrent = t
      BY <1>4, <2>2, RecordsStep
    <3>2. account[u] = "member"  BY <3>1 DEF Ground, Books, PastAccount
    <3>3. t \in torrents  BY <3>1 DEF AdmittedInv
    <3> QED  BY <3>2, <3>3
  <2> QED  BY <2>1, <2>2
<1> QED  BY <1>0, <1>1, <1>2, <1>3, <1>4 DEF AdmittedInv, Private

LEMMA AdmittedHolds == AccountingSpec => []AdmittedInv
<1>1. AccountingInit => AdmittedInv
  <2> SUFFICES ASSUME AccountingInit PROVE AdmittedInv
    OBVIOUS
  <2>1. /\ \A c \in Child : child[c].pc = "idle" /\ child[c].again = FALSE
        /\ ipAddress = Empty /\ clientTorrents = << >>
    BY DEF AccountingInit, Init, Idle
  <2>2. \A u \in User, t \in Torrent : Records(u, t) = {}  BY <2>1 DEF Records
  <2> QED
    BY <2>1, <2>2 DEF AdmittedInv, Empty, Statement, GateStatement, ClientStatement, UpdateStatement,
       BonusStatement, TotalsStatement, AnswerStatement
<1>2. Ground /\ AdmittedInv /\ [AccountingNext]_<<vars, history>> => AdmittedInv'
  <2> SUFFICES ASSUME Ground, AdmittedInv, [AccountingNext]_<<vars, history>> PROVE AdmittedInv'
    OBVIOUS
  <2>1. ASSUME NEW c \in Child, NEW r \in Request, Fork(c, r), Join(c, r) PROVE AdmittedInv'
    <3>0. child[c] \in ChildState /\ child[c].pc = "idle" /\ child'[c].again = child[c].again
      BY <2>1 DEF Fork, At, Ground, TypeOK, ChildState
    <3>1. /\ child'[c].pc = "getUserId" /\ child'[c].again = child[c].again
          /\ child[c].pc = "idle"
          /\ \A d \in Child \ {c} : child'[d] = child[d]
          /\ UNCHANGED <<ipAddress, client, clientTorrents, account, torrents>>
      BY <2>1, <3>0, ForkQuiet DEF rows
    <3>2. \A u, t : Records(u, t)' = Records(u, t)  BY <3>1 DEF Records, Owner
    <3> QED
      BY <3>1, <3>2 DEF AdmittedInv, Private, GateStatement
  <2>2. ASSUME NEW c \in Child, ChildStep(c) PROVE AdmittedInv'
    BY <2>2, AdmittedStep
  <2>3. CASE Tick \/ UNCHANGED vars
    BY <2>3 DEF Tick, vars, site, rows, AdmittedInv, Private, Records, Owner
  <2> QED  BY <2>1, <2>2, <2>3, AccountingKinds
<1> QED  BY <1>1, <1>2, GroundHolds, PTL DEF AccountingSpec

LEMMA ReadyStep ==
  ASSUME Ground, ClientsInv, AdmittedInv, ReadyInv, NEW c \in Child, ChildStep(c), faults' = 0,
         NEW u \in User, Calm(u), NEW d \in LiveOf(u)'
  PROVE  Ready(d)'
<1>0. /\ TypeOK /\ Moves(child[c], child'[c]) /\ FieldsKept(c) /\ Execute(c) /\ faults = 0
      /\ \A e \in Child \ {c} : child'[e] = child[e]
      /\ child'[c].req = child[c].req
      /\ d \in LiveOf(u) /\ d \in Child /\ child[d].req.user = u /\ Private(u) /\ Ready(d)
      /\ client \in Seq(ClientRow)
  BY ChildStepEffect, FieldStep, LiveStep, Undisturbed
     DEF Ground, Effect, LiveOf, Calm, ReadyInv, TypeOK
<1>1. CASE d # c
  <2>1. child[c].req.ip # child[d].req.ip
    <3>1. child[c].req.user # u \/ c = d
      BY <1>0, LiveStep DEF Calm, Ground, Books, Serial, LiveOf
    <3> QED  BY <1>0, <1>1, <3>1, PrivateApart
  <2>2. child[d].req.ip \in DOMAIN ipAddress' <=> child[d].req.ip \in DOMAIN ipAddress
    BY <2>1, AddressStep
  <2>3. ASSUME NEW i \in ClientIds(child[d].req) PROVE i \in DOMAIN client' /\ client'[i] = client[i]
    <3>1. i \in DOMAIN client /\ client[i].ip = child[d].req.ip
      BY DEF ClientIds
    <3>2. i \in DOMAIN client'  BY <1>0, <3>1, OwnerKept
    <3> QED  BY <1>0, <2>1, <3>1, <3>2, OthersClients
  <2>4. ClientIds(child[d].req) # {} => ClientIds(child[d].req)' # {}
    BY <1>0, <1>1, <2>3 DEF ClientIds
  <2>5. child'[d] = child[d]  BY <1>0, <1>1
  <2> QED  BY <1>0, <2>2, <2>4, <2>5 DEF Ready
<1>2. CASE d = c
  <2>1. ASSUME child'[c].pc = "createIpAddress" PROVE child[c].req.ip \notin DOMAIN ipAddress'
    <3>1. child[c].pc = "getIpaId"
      BY <1>0, <2>1 DEF Moves, Succeeds, Follows, Fails, Caught, Dies
    <3>2. GetIpaId(c)  BY <1>0, <3>1, ExecuteAt
    <3>3. Goto(c, "getClientId") => child'[c].pc = "getClientId"
      BY <1>0 DEF Goto, TypeOK, ChildState
    <3> QED  BY <2>1, <3>2, <3>3 DEF GetIpaId, rows
  <2>2. ASSUME child'[c].pc = "getIpaIdAgain" PROVE child[c].req.ip \in DOMAIN ipAddress'
    <3>1. child[c].pc = "createIpAddress"
      BY <1>0, <2>2 DEF Moves, Succeeds, Follows, Fails, Caught, Dies
    <3>2. CreateIpAddress(c)  BY <1>0, <3>1, ExecuteAt
    <3> QED  BY <1>0, <1>2, <3>1, <3>2 DEF CreateIpAddress, Ready, Put
  <2>3. ASSUME child'[c].pc \in Located4, child'[c].again PROVE ClientIds(child[c].req)' # {}
    <3>1. child[c].pc \in Located4 \cup {"torrentExists", "updateClient", "createClient"}
      BY <1>0, <2>3 DEF Moves, Succeeds, Follows, Fails, Caught, Dies, Located4
    <3>2. CASE child[c].pc = "torrentExists"
      BY <1>0, <2>3, <3>2 DEF FieldsKept, UpdateClient, CreateClient, At, AdmittedInv, GateStatement
    <3>3. CASE child[c].pc \in Located4
      <4>1. child[c].again  BY <1>0, <2>3, <3>3 DEF FieldsKept, UpdateClient, CreateClient, At, Located4
      <4>2. ClientIds(child[c].req) # {}  BY <1>0, <1>2, <3>3, <4>1 DEF Ready
      <4>3. client' = client
        BY <1>0, <3>3, ExecuteAt DEF Located4, GetIpaId, CreateIpAddress, GetIpaIdAgain, GetClientId, rows
      <4> QED  BY <1>0, <4>2, <4>3 DEF ClientIds
    <3>4. CASE child[c].pc = "updateClient"
      <4> DEFINE r       == child[c].req
                 changed == {i \in Endpoint(r) : client[i].peer # r.peer}
      <4>1. UpdateClient(c)  BY <1>0, <3>4, ExecuteAt
      <4>2. /\ Goto(c, "createClient") => child'[c].pc = "createClient"
            /\ Raise(c) => child'[c].pc = Caught("updateClient")
        BY <1>0, <3>4 DEF Goto, Raise, TypeOK, ChildState
      <4>3. changed = {i \in {j \in DOMAIN client : client[j].ip = r.ip /\ client[j].port = r.port} :
                         client[i].peer # r.peer}
        BY DEF Endpoint
      <4>4. /\ changed # {}
            /\ client' = [i \in DOMAIN client |-> IF i \in changed THEN [client[i] EXCEPT !.peer = r.peer]
                                                  ELSE client[i]]
        BY <2>3, <4>1, <4>2, <4>3
           DEF UpdateClient, Caught, Located4, UpdateStatement, BonusStatement
      <4>5. PICK i \in changed : TRUE  BY <4>4
      <4>6. client[i] \in ClientRow /\ i \in DOMAIN client  BY <1>0, <4>5 DEF Endpoint
      <4>7. client'[i] = [peer |-> r.peer, ip |-> r.ip, port |-> r.port]
        BY <4>4, <4>5, <4>6 DEF Endpoint, ClientRow
      <4>8. i \in DOMAIN client'  BY <4>4, <4>6
      <4> QED  BY <1>0, <4>7, <4>8 DEF ClientIds
    <3>5. CASE child[c].pc = "createClient"
      <4> DEFINE new == [peer |-> child[c].req.peer, ip |-> child[c].req.ip, port |-> child[c].req.port]
      <4>1. CreateClient(c)  BY <1>0, <3>5, ExecuteAt
      <4>2. CASE client' = client /\ ClientIds(child[c].req) # {}
        BY <1>0, <4>2 DEF ClientIds
      <4>3. CASE client' = Append(client, new)
        <5>1. Len(client) + 1 \in DOMAIN client' /\ client'[Len(client) + 1] = new
          BY <1>0, <4>3
        <5> QED  BY <1>0, <5>1 DEF ClientIds
      <4> QED  BY <4>1, <4>2, <4>3 DEF CreateClient
    <3> QED  BY <3>1, <3>2, <3>3, <3>4, <3>5
  <2> QED  BY <1>0, <1>2, <2>1, <2>2, <2>3 DEF Ready
<1> QED  BY <1>1, <1>2

LEMMA ReadyHolds == AccountingSpec => []ReadyInv
<1>1. AccountingInit => ReadyInv
  BY IdleFields DEF AccountingInit, Init, ReadyInv, LiveOf, Live
<1>2. Ground /\ ClientsInv /\ AdmittedInv /\ ReadyInv /\ [AccountingNext]_<<vars, history>> => ReadyInv'
  <2> SUFFICES ASSUME Ground, ClientsInv, AdmittedInv, ReadyInv, [AccountingNext]_<<vars, history>>,
                      faults' = 0, NEW u \in User, Calm(u)', NEW d \in LiveOf(u)'
               PROVE  Ready(d)'
    BY DEF ReadyInv
  <2>1. ASSUME NEW c \in Child, NEW r \in Request, Fork(c, r), Join(c, r) PROVE Ready(d)'
    <3>1. /\ child'[c].pc = "getUserId" /\ Calm(u)
          /\ \A e \in Child \ {c} : child'[e] = child[e]
          /\ LiveOf(u)' \subseteq LiveOf(u) \cup {c}
          /\ UNCHANGED <<ipAddress, client, faults>>
      BY <2>1, ForkQuiet DEF rows, Fork
    <3>2. CASE d = c  BY <3>1, <3>2 DEF Ready, Located4
    <3>3. CASE d # c
      <4>1. Ready(d) /\ child'[d] = child[d]  BY <3>1, <3>3 DEF ReadyInv, LiveOf
      <4> QED  BY <3>1, <4>1 DEF Ready, ClientIds
    <3> QED  BY <3>2, <3>3
  <2>2. ASSUME NEW c \in Child, ChildStep(c), UNCHANGED history PROVE Ready(d)'
    <3>1. Calm(u)  BY <2>2 DEF Calm, Apart, Private, history
    <3> QED  BY <2>2, <3>1, ReadyStep
  <2>3. CASE (Tick /\ Minute) \/ UNCHANGED <<vars, history>>
    <3>1. UNCHANGED <<child, ipAddress, client, faults, overlaps>>
      BY <2>3 DEF Tick, Minute, vars, rows, history
    <3>2. Ready(d)  BY <3>1 DEF ReadyInv, Calm, Apart, Private, LiveOf, Live
    <3> QED  BY <3>1, <3>2 DEF Ready, ClientIds
  <2> QED  BY <2>1, <2>2, <2>3, AccountingKinds
<1> QED  BY <1>1, <1>2, GroundHolds, ClientsHold, AdmittedHolds, PTL DEF AccountingSpec

\* A set whose elements are all equal is not counted as more than one.
LEMMA AtMostOne ==
  ASSUME NEW S, \A i, j \in S : i = j
  PROVE  ~(Cardinality(S) > 1)
<1>1. CASE S = {}  BY <1>1, FS_EmptySet
<1>2. CASE S # {}
  <2>1. PICK x : S = {x}  BY <1>2
  <2>2. Cardinality({x}) = 1  BY FS_Singleton
  <2> QED  BY <2>1, <2>2
<1> QED  BY <1>1, <1>2

\* As long as nothing has failed, the next announce of a client that has a record
\* is recorded too.
LEMMA AlwaysRecorded ==
  ASSUME Ground, ClientsInv, RecordsInv, AdmittedInv, ReadyInv,
         NEW c \in Child, ChildStep(c), faults' = 0,
         NEW u \in User, NEW t \in Torrent, Orderly(<<u, t>>), Records(u, t) # {},
         child[c].req.user = u, child[c].req.torrent = t,
         child[c].pc \in Unrecorded, child'[c].pc \notin Unrecorded
  PROVE  child'[c].pc = "totalTimeActive"
<1>0. /\ TypeOK /\ child \in Children /\ child[c] \in ChildState /\ Moves(child[c], child'[c])
      /\ Execute(c) /\ faults = 0 /\ Calm(u) /\ Private(u)
      /\ ClientsOf(u) /\ RecordsOf(u) /\ c \in LiveOf(u) /\ Ready(c)
      /\ account[u] = "member" /\ t \in torrents /\ ~Banned(child[c].req.ip, ipAddress)
  BY ChildStepEffect, LiveStep, Undisturbed
     DEF Ground, TypeOK, Children, Effect, Orderly, Calm, ClientsInv, RecordsInv, ReadyInv, LiveOf,
         AdmittedInv, Banned
<1>1. ASSUME NEW s, Goto(c, s) PROVE child'[c].pc = s
  BY <1>0, <1>1 DEF Goto, Children, ChildState
<1>2. ASSUME NEW R, Record(c, R) PROVE child'[c].pc = "totalTimeActive"
  BY <1>0, <1>2 DEF Record, Children, ChildState
<1> USE DEF Unrecorded, Waiting, GateStatement, ClientStatement
<1>3. CASE child[c].pc \in GateStatement
  <2>1. /\ child[c].pc = "getUserId" => GetUserId(c)
        /\ child[c].pc = "userCanLeech" => UserCanLeech(c)
        /\ child[c].pc = "ipaIsBanned" => IpaIsBanned(c)
        /\ child[c].pc = "torrentExists" => TorrentExists(c)
    BY <1>0, ExecuteAt
  <2> QED
    BY <1>0, <1>1, <1>3, <2>1 DEF GetUserId, UserCanLeech, IpaIsBanned, TorrentExists
<1>4. CASE child[c].pc \in {"getIpaId", "createIpAddress", "getIpaIdAgain", "getClientId"}
  <2>1. /\ child[c].pc = "getIpaId" => GetIpaId(c)
        /\ child[c].pc = "createIpAddress" => CreateIpAddress(c)
        /\ child[c].pc = "getIpaIdAgain" => GetIpaIdAgain(c)
        /\ child[c].pc = "getClientId" => GetClientId(c)
    BY <1>0, ExecuteAt
  <2>2. ASSUME NEW i, child' = [child EXCEPT ![c].pc = "setOldUploadAndDownload", ![c].clientId = i]
        PROVE  child'[c].pc = "setOldUploadAndDownload"
    BY <1>0, <2>2 DEF Children, ChildState
  <2>3. CASE child[c].pc = "getClientId"
    BY <1>0, <1>1, <2>1, <2>2, <2>3 DEF GetClientId, Ready, Located4
  <2>4. CASE child[c].pc # "getClientId"
    BY <1>0, <1>1, <1>4, <2>1, <2>4 DEF GetIpaId, CreateIpAddress, GetIpaIdAgain, Ready
  <2> QED  BY <2>3, <2>4
<1>5. CASE child[c].pc = "updateClient"
  <2>1. UpdateClient(c)  BY <1>0, <1>5, ExecuteAt
  <2>2. \A i, j \in Endpoint(child[c].req) : i = j
    <3>1. \A i \in Endpoint(child[c].req) : i \in DOMAIN client /\ OwnerOf(i) = u
      <4> TAKE i \in Endpoint(child[c].req)
      <4>1. i \in DOMAIN client /\ client[i].ip = child[c].req.ip  BY DEF Endpoint
      <4>2. child[c].req.ip \in DOMAIN ipAddress  BY <4>1 DEF Ground, JoinInv, JoinsComplete
      <4> QED  BY <1>0, <4>1, <4>2, PrivateAddress DEF OwnerOf
    <3> QED  BY <1>0, <3>1 DEF ClientsOf, Endpoint
  <2>3. ~(Cardinality(Endpoint(child[c].req)) > 1)  BY <2>2, AtMostOne
  <2>4. ~(Cardinality({i \in DOMAIN client : client[i].ip = child[c].req.ip /\
                                            client[i].port = child[c].req.port}) > 1)
    BY <2>3 DEF Endpoint
  <2>5. ASSUME child' = [child EXCEPT ![c].pc = "getIpaId", ![c].again = TRUE]
        PROVE  child'[c].pc = "getIpaId"
    BY <1>0, <2>5 DEF Children, ChildState
  <2> QED  BY <1>1, <2>1, <2>4, <2>5 DEF UpdateClient
<1>6. CASE child[c].pc = "createClient"
  <2>1. CreateClient(c)  BY <1>0, <1>6, ExecuteAt
  <2>2. child' = [child EXCEPT ![c].pc = "getIpaId", ![c].again = TRUE]  BY <2>1 DEF CreateClient
  <2>3. child'[c].pc = "getIpaId"  BY <1>0, <2>2 DEF Children, ChildState
  <2> QED  BY <2>3
<1>7. CASE child[c].pc \in {"setOldUploadAndDownload", "newSeedMinutes"}
  <2>1. /\ child[c].pc = "setOldUploadAndDownload" => SetOldUploadAndDownload(c)
        /\ child[c].pc = "newSeedMinutes" => NewSeedMinutes(c)
    BY <1>0, ExecuteAt
  <2>2. ASSUME NEW o, child' = [child EXCEPT ![c].pc = "newSeedMinutes", ![c].old = o]
        PROVE  child'[c].pc = "newSeedMinutes"
    BY <1>0, <2>2 DEF Children, ChildState
  <2>3. ASSUME NEW m, child' = [child EXCEPT ![c].pc = "updateClientTorrents", ![c].minutes = m]
        PROVE  child'[c].pc = "updateClientTorrents"
    BY <1>0, <2>3 DEF Children, ChildState
  <2> QED  BY <1>1, <1>7, <2>1, <2>2, <2>3 DEF SetOldUploadAndDownload, NewSeedMinutes
<1>8. CASE child[c].pc = "updateClientTorrents"
  <2>1. UpdateClientTorrents(c)  BY <1>0, <1>8, ExecuteAt
  <2> DEFINE mine  == UserTorrentRows(child[c].req.torrent, child[c].req.user)
             equal == mine \cup TorrentClientRows(child[c].req.torrent, child[c].clientId)
  <2>2. equal \subseteq Records(u, t)
    <3>1. TorrentClientRows(t, child[c].clientId) = Records(u, t)
      BY <1>0, <1>8, SettledRows DEF WithClient, UpdateStatement
    <3>2. mine \subseteq Records(u, t)
      BY DEF UserTorrentRows, Records, Owner
    <3> QED  BY <3>1, <3>2
  <2> HIDE DEF equal
  <2>3. \A i, j \in equal : i = j  BY <1>0, <2>2 DEF RecordsOf
  <2>4. ~(Cardinality(equal) > 1)  BY <2>3, AtMostOne
  <2> QED  BY <1>1, <1>2, <2>1, <2>4 DEF UpdateClientTorrents, equal
<1>9. CASE child[c].pc = "createClientTorrent"
  BY <1>0, <1>9 DEF RecordsOf
<1> QED  BY <1>3, <1>4, <1>5, <1>6, <1>7, <1>8, <1>9

\* The totals T of a client that has reported b and moved m, and whose record says r,
\* are at least r.  Either b has not fallen below r, and b - r may be added; or one
\* counter has, and then the sum is out of range.
Gap(T, b, r, m) ==
  /\ \A n \in Counter : r[n] <= T[n]
  /\ \/ \A n \in Counter : r[n] <= b[n] /\ T[n] + b[n] - r[n] <= m[n]
     \/ /\ \A n \in Counter : b[n] <= r[n] /\ T[n] + b[n] <= m[n]
        /\ \E n \in Counter : b[n] < r[n]

LEMMA BytesNat ==
  ASSUME NEW b \in Bytes, NEW n \in Counter
  PROVE  b[n] \in Word /\ b[n] \in Nat /\ b[n] < W
  BY WAssumption DEF Bytes, Word

LEMMA GapBounds ==
  ASSUME NEW T \in Bytes, NEW b \in Bytes, NEW r \in Bytes, NEW m \in [Counter -> Int],
         Gap(T, b, r, m), NEW n \in Counter
  PROVE  T[n] <= m[n]
<1>1. T[n] \in Nat /\ b[n] \in Nat /\ r[n] \in Nat /\ m[n] \in Int  BY BytesNat
<1> QED  BY <1>1 DEF Gap

\* A new report widens the gap by what has moved, after a restart or without one.
LEMMA GapReport ==
  ASSUME NEW T \in Bytes, NEW r \in Bytes, NEW b \in Bytes, NEW m \in [Counter -> Int],
         Gap(T, r, r, m), Restart(r, b) \subseteq {"below"},
         NEW new, new = [n \in Counter |->
                           m[n] + b[n] - (IF Restart(r, b) = {} THEN r ELSE Zero)[n]]
  PROVE  Gap(T, b, r, new)
<1>1. \A n \in Counter : T[n] \in Nat /\ b[n] \in Nat /\ r[n] \in Nat /\ m[n] \in Int
  BY BytesNat
<1>2. \A n \in Counter : r[n] <= T[n] /\ T[n] <= m[n]
  BY <1>1 DEF Gap
<1>3. CASE \A n \in Counter : b[n] >= r[n]
  <2>1. Restart(r, b) = {}
    <3>1. (\A n \in Counter : b[n] <= r[n]) => b = r  BY <1>1, <1>3 DEF Bytes
    <3> QED  BY <1>3, <3>1 DEF Restart, Counter
  <2>2. \A n \in Counter : new[n] = m[n] + b[n] - r[n]  BY <2>1
  <2> QED  BY <1>1, <1>2, <1>3, <2>2 DEF Gap
<1>4. CASE ~\A n \in Counter : b[n] >= r[n]
  <2>1. Restart(r, b) # {}  BY <1>4 DEF Restart
  <2>2. \A n \in Counter : b[n] <= r[n]  BY <1>4 DEF Restart
  <2>3. \A n \in Counter : new[n] = m[n] + b[n]
    BY <1>1, <2>1 DEF Zero
  <2>4. \E n \in Counter : b[n] < r[n]  BY <1>1, <1>4
  <2> QED  BY <1>1, <1>2, <2>2, <2>3, <2>4 DEF Gap
<1> QED  BY <1>3, <1>4

\* The UPDATE of the totals closes the gap, because it fails when a counter has
\* fallen: the wrapped difference takes the sum out of range.
LEMMA GapClosed ==
  ASSUME NEW T \in Bytes, NEW r \in Bytes, NEW b \in Bytes, NEW m \in Bytes, Gap(T, b, r, m),
         NEW sum, sum = [n \in Counter |-> T[n] + Increment(b[n], r[n])]
  PROVE  IF sum \in Bytes THEN Gap(sum, b, b, m) ELSE Gap(T, b, b, m)
<1>1. \A n \in Counter : /\ T[n] \in Nat /\ b[n] \in Nat /\ r[n] \in Nat /\ m[n] \in Nat
                         /\ m[n] < W /\ b[n] \in Word /\ r[n] \in Word /\ r[n] < W
  BY BytesNat
<1>2. CASE \A n \in Counter : r[n] <= b[n] /\ T[n] + b[n] - r[n] <= m[n]
  <2>1. \A n \in Counter : sum[n] = T[n] + b[n] - r[n]
    <3> TAKE n \in Counter
    <3>1. Increment(b[n], r[n]) = b[n] - r[n]  BY <1>1, <1>2, IncrementExact
    <3> QED  BY <1>1, <3>1
  <2>2. \A n \in Counter : sum[n] \in Word /\ b[n] <= sum[n] /\ sum[n] <= m[n]
    BY <1>1, <1>2, <2>1, WAssumption DEF Gap, Word
  <2>3. sum \in Bytes  BY <2>2 DEF Bytes
  <2>4. \A n \in Counter : sum[n] + b[n] - b[n] <= m[n]
    BY <1>1, <1>2, <2>1
  <2>5. \A n \in Counter : b[n] <= b[n]  BY <1>1
  <2> QED  BY <2>2, <2>3, <2>4, <2>5 DEF Gap
<1>3. CASE /\ \A n \in Counter : b[n] <= r[n] /\ T[n] + b[n] <= m[n]
           /\ \E n \in Counter : b[n] < r[n]
  <2>1. PICK n \in Counter : b[n] < r[n]  BY <1>3
  <2>2. Increment(b[n], r[n]) = b[n] - r[n] + W
    <3>1. (b[n] - r[n]) % W = b[n] - r[n] + W  BY <1>1, <2>1, WAssumption
    <3> QED  BY <1>1, <3>1, WAssumption DEF Increment
  <2>3. sum[n] >= W  BY <1>1, <2>2, WAssumption DEF Gap
  <2>4. sum \notin Bytes  BY <2>3, BytesNat, WAssumption
  <2>5. \A i \in Counter : b[i] <= T[i]  BY <1>1, <1>3 DEF Gap
  <2>6. \A i \in Counter : b[i] <= b[i] /\ T[i] + b[i] - b[i] <= m[i]  BY <1>1, <1>3
  <2> QED  BY <2>4, <2>5, <2>6 DEF Gap
<1> QED  BY <1>2, <1>3 DEF Gap

----------------------------------------------------------------------------
\* What the reports account for is at least the last of them.
MovedInv == \A k \in Key, n \in Counter : reported[k][n] <= moved[k][n]

LEMMA SendEffect ==
  ASSUME Ground, NEW r \in Request, Send(r), NEW k \in Key
  PROVE  /\ k = <<r.user, r.torrent>> =>
              /\ reported'[k] = r.bytes
              /\ restarted'[k] = restarted[k] \cup Restart(reported[k], r.bytes)
              /\ moved'[k] = [n \in Counter |-> moved[k][n] + r.bytes[n] -
                   (IF Restart(reported[k], r.bytes) = {} THEN reported[k] ELSE Zero)[n]]
         /\ k # <<r.user, r.torrent>> =>
              /\ reported'[k] = reported[k] /\ moved'[k] = moved[k]
              /\ restarted'[k] = restarted[k]
  BY DEF Send, Ground, Books, HistoryOK

LEMMA MovedStep ==
  ASSUME Ground, MovedInv, NEW r \in Request, Send(r), NEW k \in Key, NEW n \in Counter
  PROVE  moved[k][n] <= moved'[k][n] /\ reported'[k][n] <= moved'[k][n]
<1>1. r.bytes \in Bytes /\ reported[k] \in Bytes /\ moved[k] \in [Counter -> Int]
  BY RequestAssumption DEF RequestType, Ground, Books, HistoryOK
<1>2. /\ r.bytes[n] \in Nat /\ reported[k][n] \in Nat /\ moved[k][n] \in Int
      /\ reported[k][n] <= moved[k][n]
  BY <1>1, BytesNat DEF MovedInv
<1>3. CASE k # <<r.user, r.torrent>>
  <2>1. reported'[k] = reported[k] /\ moved'[k] = moved[k]  BY <1>3, SendEffect
  <2> QED  BY <1>2, <2>1
<1>4. CASE k = <<r.user, r.torrent>> /\ Restart(reported[k], r.bytes) = {}
  <2>1. r.bytes[n] >= reported[k][n]  BY <1>4 DEF Restart
  <2>2. /\ reported'[k] = r.bytes
        /\ moved'[k] = [m \in Counter |-> moved[k][m] + r.bytes[m] -
             (IF Restart(reported[k], r.bytes) = {} THEN reported[k] ELSE Zero)[m]]
    BY <1>4, SendEffect
  <2>3. moved'[k][n] = moved[k][n] + r.bytes[n] - reported[k][n]
    BY <1>4, <2>2
  <2> QED  BY <1>2, <2>1, <2>2, <2>3
<1>5. CASE k = <<r.user, r.torrent>> /\ Restart(reported[k], r.bytes) # {}
  <2>1. /\ reported'[k] = r.bytes
        /\ moved'[k] = [m \in Counter |-> moved[k][m] + r.bytes[m] -
             (IF Restart(reported[k], r.bytes) = {} THEN reported[k] ELSE Zero)[m]]
    BY <1>5, SendEffect
  <2>2. moved'[k][n] = moved[k][n] + r.bytes[n] - Zero[n]
    BY <1>5, <2>1
  <2> QED  BY <1>2, <2>1, <2>2 DEF Zero
<1> QED  BY <1>3, <1>4, <1>5

LEMMA MovedHolds == AccountingSpec => []MovedInv
<1>1. AccountingInit => MovedInv
  BY DEF AccountingInit, MovedInv, Zero
<1>2. Ground /\ MovedInv /\ [AccountingNext]_<<vars, history>> => MovedInv'
  <2> SUFFICES ASSUME Ground, MovedInv, [AccountingNext]_<<vars, history>> PROVE MovedInv'
    OBVIOUS
  <2>1. ASSUME NEW r \in Request, Send(r) PROVE MovedInv'
    BY <2>1, MovedStep DEF MovedInv
  <2>2. CASE UNCHANGED <<reported, moved>>
    BY <2>2 DEF MovedInv
  <2> QED  BY <2>1, <2>2, AccountingKinds DEF Minute, history
<1> QED  BY <1>1, <1>2, GroundHolds, PTL DEF AccountingSpec

\* The client of u for t is as CreditBoundedThroughRestarts takes it.
Tame(u, t) ==
  /\ Orderly(<<u, t>>) /\ faults = 0
  /\ "mixed" \notin restarted[<<u, t>>] /\ moved[<<u, t>>] \in Bytes

\* The gap is what r, the record or what an announce remembers of it, leaves.
GapAt(k, r) == Gap(totals[k].bytes, reported[k], r, moved[k])

\* A key has totals if it has a record.
Booked(u, t) ==
  /\ Records(u, t) = {} <=> <<u, t>> \notin DOMAIN totals
  /\ \A i \in Records(u, t) : GapAt(<<u, t>>, clientTorrents[i].bytes)

\* The record holds the last report.
Rested(u, t) == \A i \in Records(u, t) : clientTorrents[i].bytes = reported[<<u, t>>]

\* Where the gap is while announce c is on its way: at the record, and from there
\* to the totals in the old values that c has read.
Carried(u, t, c) ==
  LET k == <<u, t>> IN
  /\ child[c].req.bytes = reported[k]
  /\ child[c].pc \in Waiting => OldFound(u, t, c)
  /\ child[c].pc \in Crediting =>
       /\ Records(u, t) # {}
       /\ k \in DOMAIN totals => GapAt(k, child[c].old)
  /\ child[c].pc = "createUserTorrentTotals" => k \notin DOMAIN totals
  /\ child[c].pc \notin Crediting => Booked(u, t)
  /\ child[c].pc \notin Unrecorded => Rested(u, t)

RestartInv ==
  \A u \in User, t \in Torrent : Tame(u, t) =>
    /\ (\A c \in LiveOf(u) : child[c].req.torrent # t) => Booked(u, t) /\ Rested(u, t)
    /\ \A c \in LiveOf(u) : child[c].req.torrent = t => Carried(u, t, c)

\* Nothing is lost when the rows of the key stay as they are.
LEMMA RowsKept ==
  ASSUME NEW u, NEW t, UNCHANGED <<reported, moved>>,
         Records(u, t)' = Records(u, t),
         \A i \in Records(u, t) : clientTorrents'[i] = clientTorrents[i],
         <<u, t>> \in DOMAIN totals' <=> <<u, t>> \in DOMAIN totals,
         <<u, t>> \in DOMAIN totals => totals'[<<u, t>>] = totals[<<u, t>>]
  PROVE  /\ Booked(u, t) => Booked(u, t)'
         /\ Rested(u, t) => Rested(u, t)'
         /\ \A r : <<u, t>> \in DOMAIN totals /\ GapAt(<<u, t>>, r) => GapAt(<<u, t>>, r)'
         /\ \A c : child'[c] = child[c] /\ Carried(u, t, c) => Carried(u, t, c)'
<1>1. \A r : <<u, t>> \in DOMAIN totals /\ GapAt(<<u, t>>, r) => GapAt(<<u, t>>, r)'
  BY DEF GapAt
<1>2. Booked(u, t) => Booked(u, t)'
  <2> SUFFICES ASSUME Booked(u, t) PROVE Booked(u, t)'
    OBVIOUS
  <2>1. ASSUME NEW i \in Records(u, t)' PROVE GapAt(<<u, t>>, clientTorrents[i].bytes)'
    <3>1. i \in Records(u, t) /\ <<u, t>> \in DOMAIN totals  BY DEF Booked
    <3>2. GapAt(<<u, t>>, clientTorrents[i].bytes)  BY <3>1 DEF Booked
    <3> QED  BY <3>1, <3>2 DEF GapAt
  <2> QED  BY <2>1 DEF Booked
<1>3. Rested(u, t) => Rested(u, t)'  BY DEF Rested
<1>4. ASSUME NEW c, child'[c] = child[c], Carried(u, t, c) PROVE Carried(u, t, c)'
  <2>1. OldFound(u, t, c) => OldFound(u, t, c)'  BY <1>4 DEF OldFound
  <2>2. <<u, t>> \in DOMAIN totals /\ GapAt(<<u, t>>, child[c].old) =>
          GapAt(<<u, t>>, child[c].old)'
    BY <1>4 DEF GapAt
  <2> QED  BY <1>2, <1>3, <1>4, <2>1, <2>2 DEF Carried
<1> QED  BY <1>1, <1>2, <1>3, <1>4
\* Announce c of the key takes a step.
LEMMA CarriedStep ==
  ASSUME Ground, Ground', ClientsInv, RecordsInv, RecordsInv', UnsetInv, AdmittedInv, ReadyInv,
         CreditInv, MovedInv, UNCHANGED history, faults' = 0,
         NEW u \in User, NEW t \in Torrent, Tame(u, t),
         NEW c \in LiveOf(u), child[c].req.torrent = t, Carried(u, t, c), ChildStep(c)
  PROVE  Carried(u, t, c)'
<1> DEFINE k == <<u, t>>
           b == reported[k]
           m == moved[k]
<1>0. /\ TypeOK /\ child \in Children /\ child[c] \in ChildState /\ Orderly(k) /\ Private(u)
      /\ c \in Child /\ child[c].req.user = u /\ TotalsKey(c) = k /\ child[c].req.bytes = b
      /\ child'[c].req = child[c].req /\ Moves(child[c], child'[c]) /\ FieldsKept(c)
      /\ Execute(c) /\ Live(c)
      /\ reported' = reported /\ moved' = moved
  BY LiveStep, ChildStepEffect, FieldStep, Undisturbed
     DEF Ground, TypeOK, Children, Tame, Orderly, LiveOf, TotalsKey, Effect, history, Carried
<1>1. b \in Bytes /\ m \in Bytes /\ k \in Key /\ \A n \in Counter : b[n] <= m[n]
  BY DEF Ground, Books, HistoryOK, Key, Tame, MovedInv
<1>2. RecordsOf(u)'
  <2>1. Calm(u)'  BY <1>0 DEF Orderly, Calm, Apart, Private, history
  <2> QED  BY <2>1 DEF RecordsInv
<1> USE DEF Unrecorded, Waiting, Crediting, GateStatement, ClientStatement, BonusStatement,
            TotalsStatement
<1>3. child'[c].pc # "totalTimeActive" =>
        clientTorrents' = clientTorrents /\ Records(u, t)' = Records(u, t)
  BY <1>0, RecordOutcome, RecordsSame
<1>4. child[c].pc \notin {"updateUserTorrentTotals", "createUserTorrentTotals"} => totals' = totals
  BY <1>0, TotalsChange
<1>5. CASE child[c].pc \in Unrecorded /\ child'[c].pc \in Unrecorded
  <2>1. Booked(u, t)'  BY <1>0, <1>3, <1>4, <1>5, RowsKept DEF Carried
  <2>2. child'[c].pc \in Waiting => OldFound(u, t, c)'
    BY <1>0, <1>5, OldFoundStep DEF Carried
  <2> HIDE DEF k
  <2> QED  BY <1>0, <1>5, <2>1, <2>2 DEF Carried, k
<1>6. CASE child[c].pc \in Unrecorded /\ child'[c].pc = "totalTimeActive"
  <2>1. /\ child[c].pc \in {"updateClientTorrents", "createClientTorrent"}
        /\ child'[c].old = child[c].old
    BY <1>0, <1>6, RecordOutcome DEF FieldsKept, SetOldUploadAndDownload, At
  <2>2. PICK i \in Records(u, t)' : clientTorrents'[i].bytes = b
    BY <1>0, <1>6, RecordedNow
  <2>3. Rested(u, t)'
    BY <1>0, <1>2, <2>2 DEF Rested, RecordsOf
  <2>4. ASSUME k \in DOMAIN totals PROVE GapAt(k, child[c].old)
    <3>1. PICK j \in Records(u, t) : GapAt(k, clientTorrents[j].bytes)
      BY <1>6, <2>4 DEF Carried, Booked
    <3>2. child[c].old = clientTorrents[j].bytes  BY <2>1 DEF Carried, OldFound
    <3> QED  BY <3>1, <3>2
  <2>5. k \in DOMAIN totals' => GapAt(k, child[c].old)'
    BY <1>0, <1>4, <1>6, <2>1, <2>4 DEF GapAt
  <2> QED  BY <1>0, <1>6, <2>2, <2>3, <2>5 DEF Carried
<1>7. CASE child[c].pc \in Unrecorded /\ child'[c].pc \notin Unrecorded \cup {"totalTimeActive"}
  <2>1. Records(u, t) = {}  BY <1>0, <1>7, AlwaysRecorded
  <2>2. Booked(u, t)' /\ Rested(u, t)'
    BY <1>0, <1>3, <1>4, <1>7, <2>1, RowsKept DEF Carried, Rested
  <2>3. child'[c].pc \notin Crediting
    BY <1>0, <1>7 DEF Moves, Succeeds, Follows, Fails, Caught, Dies, UpdateStatement
  <2> QED  BY <1>0, <1>7, <2>2, <2>3 DEF Carried
<1>8. CASE child[c].pc \in Crediting /\ child'[c].pc \in Crediting
  <2>1. /\ child[c].pc \in {"totalTimeActive", "calcBonusPoints", "updateUserBonusPoints",
                         "totalsExist"}
        /\ child'[c].pc # "totalTimeActive"
    BY <1>0, <1>8 DEF Moves, Succeeds, Follows, Fails, Caught, Dies, UpdateStatement
  <2>2. /\ clientTorrents' = clientTorrents /\ Records(u, t)' = Records(u, t) /\ totals' = totals
        /\ child'[c].old = child[c].old
    BY <1>0, <1>3, <1>4, <2>1 DEF FieldsKept, SetOldUploadAndDownload, At
  <2>3. Rested(u, t)'  BY <1>0, <1>8, <2>2, RowsKept DEF Carried
  <2>4. k \in DOMAIN totals' => GapAt(k, child[c].old)'
    BY <1>0, <1>8, <2>2 DEF Carried, GapAt
  <2>5. ASSUME child'[c].pc = "createUserTorrentTotals" PROVE k \notin DOMAIN totals
    <3>1. child[c].pc = "totalsExist"
      BY <1>0, <2>1, <2>5 DEF Moves, Succeeds, Follows, Fails, Caught, Dies, UpdateStatement
    <3>2. TotalsExist(c)  BY <1>0, <3>1, ExecuteAt
    <3>3. ASSUME Goto(c, "updateUserTorrentTotals") PROVE child'[c].pc = "updateUserTorrentTotals"
      BY <1>0, <3>3 DEF Goto, Children, ChildState
    <3> QED  BY <1>0, <2>5, <3>2, <3>3 DEF TotalsExist
  <2> QED  BY <1>0, <1>8, <2>2, <2>3, <2>4, <2>5 DEF Carried
<1>9. CASE child[c].pc \in Crediting /\ child'[c].pc \notin Crediting
  <2>1. child[c].pc \in {"updateUserTorrentTotals", "createUserTorrentTotals"}
    <3>1. /\ child[c].pc = "totalTimeActive" => TotalTimeActive(c)
          /\ child[c].pc = "calcBonusPoints" => CalcBonusPoints(c)
          /\ child[c].pc = "updateUserBonusPoints" => UpdateUserBonusPoints(c)
          /\ child[c].pc = "totalsExist" => TotalsExist(c)
      BY <1>0, ExecuteAt
    <3>2. ASSUME NEW s, Goto(c, s) PROVE child'[c].pc = s
      BY <1>0, <3>2 DEF Goto, Children, ChildState
    <3> QED
      BY <1>9, <3>1, <3>2 DEF TotalTimeActive, CalcBonusPoints, UpdateUserBonusPoints,
         TotalsExist
  <2>2. /\ clientTorrents' = clientTorrents /\ Records(u, t)' = Records(u, t)
        /\ Records(u, t) # {} /\ Rested(u, t)
    BY <1>3, <1>9 DEF Carried
  <2>3. k \in DOMAIN totals' /\ Gap(totals'[k].bytes, b, b, m)
    <3>1. CASE child[c].pc = "createUserTorrentTotals"
      <4>1. CreateUserTorrentTotals(c) /\ k \notin DOMAIN totals
        BY <1>0, <3>1, ExecuteAt DEF Carried
      <4>2. totals' = Put(totals, k, [bytes |-> b, timeActive |-> 0])
        BY <1>0, <4>1 DEF CreateUserTorrentTotals
      <4>3. k \in DOMAIN totals' /\ totals'[k].bytes = b
        BY <4>2 DEF Put
      <4>4. Gap(b, b, b, m)
        <5>1. \A n \in Counter : b[n] <= b[n] /\ b[n] + b[n] - b[n] <= m[n]
          BY <1>1, BytesNat
        <5> QED  BY <5>1 DEF Gap
      <4> QED  BY <4>3, <4>4
    <3>2. CASE child[c].pc = "updateUserTorrentTotals"
      <4> DEFINE T   == totals[k].bytes
                 r   == child[c].old
                 sum == [n \in Counter |-> T[n] + Increment(b[n], r[n])]
      <4>1. UpdateUserTorrentTotals(c) /\ k \in DOMAIN totals
        BY <1>0, <3>2, ExecuteAt DEF CreditInv, At
      <4>2. T \in Bytes /\ r \in Bytes /\ Gap(T, b, r, m)
        BY <1>0, <3>2, <4>1, CountersNat DEF Carried, GapAt
      <4>3. IF sum \in Bytes THEN Gap(sum, b, b, m) ELSE Gap(T, b, b, m)
        BY <1>1, <4>2, GapClosed
      <4>4. IF sum \in Bytes
            THEN totals' = [totals EXCEPT ![k] =
                   [bytes |-> sum, timeActive |-> totals[k].timeActive + child[c].minutes]]
            ELSE totals' = totals
        BY <1>0, <4>1 DEF UpdateUserTorrentTotals
      <4> QED  BY <4>1, <4>3, <4>4
    <3> QED  BY <2>1, <3>1, <3>2
  <2>4. Booked(u, t)' /\ Rested(u, t)'
    BY <1>0, <2>2, <2>3 DEF Booked, Rested, GapAt
  <2>5. child'[c].pc \notin Unrecorded
    BY <1>0, <2>1 DEF Moves, Succeeds, Follows, Fails, Caught, Dies, UpdateStatement
  <2> QED  BY <1>0, <1>9, <2>4, <2>5 DEF Carried
<1>10. CASE child[c].pc \notin Unrecorded \cup Crediting
  <2>1. child'[c].pc \notin Unrecorded \cup Crediting
    BY <1>0, <1>10 DEF Moves, Succeeds, Follows, Fails, Caught, Dies, Statement, UpdateStatement,
       AnswerStatement
  <2>2. Booked(u, t)' /\ Rested(u, t)'
    BY <1>0, <1>3, <1>4, <1>10, <2>1, RowsKept DEF Carried
  <2> QED  BY <1>0, <2>1, <2>2 DEF Carried
<1> QED  BY <1>5, <1>6, <1>7, <1>8, <1>9, <1>10

\* An announce of u starts.
LEMMA RestartFork ==
  ASSUME Ground, Ground', RestartInv, MovedInv, NEW c \in Child, NEW r \in Request,
         Fork(c, r), Send(r), Join(c, r)
  PROVE  RestartInv'
<1> SUFFICES ASSUME NEW u \in User, NEW t \in Torrent, Tame(u, t)'
             PROVE  /\ (\A d \in LiveOf(u)' : child'[d].req.torrent # t) =>
                         Booked(u, t)' /\ Rested(u, t)'
                    /\ \A d \in LiveOf(u)' : child'[d].req.torrent = t => Carried(u, t, d)'
  BY DEF RestartInv
<1> DEFINE k == <<u, t>>
<1>0. /\ child[c].pc = "idle" /\ child'[c].pc = "getUserId" /\ child'[c].req = r
      /\ \A d \in Child \ {c} : child'[d] = child[d]
      /\ LiveOf(u)' \subseteq LiveOf(u) \cup {c}
      /\ Calm(u)' => Calm(u)
      /\ UNCHANGED <<ipAddress, client, clientTorrents, totals, faults>>
      /\ k \in Key
  BY ForkQuiet DEF rows, Key, Fork, At
<1>1. Orderly(k) /\ faults = 0 /\ r.bytes \in Bytes /\ k = <<u, t>>
  BY <1>0, RequestAssumption DEF Tame, Orderly, Calm, Private, Settled, RequestType
<1>2. Records(u, t)' = Records(u, t)  BY <1>0 DEF Records, Owner
<1>3. moved[k] \in Bytes
  <2>1. /\ moved[k] \in [Counter -> Int] /\ reported[k] \in Bytes /\ moved'[k] \in Bytes
    BY <1>0 DEF Ground, Books, HistoryOK, Tame
  <2>2. ASSUME NEW n \in Counter PROVE moved[k][n] \in Word
    <3>1. moved[k][n] <= moved'[k][n] /\ reported[k][n] <= moved[k][n]
      BY <1>0, MovedStep DEF MovedInv
    <3>2. moved[k][n] \in Int /\ reported[k][n] \in Nat /\ moved'[k][n] \in Nat /\ moved'[k][n] < W
      BY <2>1, BytesNat
    <3> QED  BY <3>1, <3>2, WAssumption DEF Word
  <2> QED  BY <2>1, <2>2 DEF Bytes
<1>4. CASE k = <<r.user, r.torrent>>
  <2>1. /\ reported'[k] = r.bytes
        /\ restarted'[k] = restarted[k] \cup Restart(reported[k], r.bytes)
        /\ moved'[k] = [n \in Counter |-> moved[k][n] + r.bytes[n] -
             (IF Restart(reported[k], r.bytes) = {} THEN reported[k] ELSE Zero)[n]]
    BY <1>0, <1>4, SendEffect
  <2>2. Restart(reported[k], r.bytes) \subseteq {"below"} /\ Tame(u, t)
    <3>1. "mixed" \notin restarted'[k]  BY DEF Tame
    <3>2. Restart(reported[k], r.bytes) \in {{}, {"below"}, {"mixed"}}  BY DEF Restart
    <3> QED  BY <1>1, <1>3, <2>1, <3>1, <3>2 DEF Tame
  <2>3. LiveOf(u) = {}
    <3>1. u = r.user /\ Apart(u)'  BY <1>4 DEF Tame, Orderly
    <3> QED  BY <3>1, SerialFork DEF Ground, Books
  <2>4. Booked(u, t) /\ Rested(u, t)  BY <2>2, <2>3 DEF RestartInv
  <2>5. ASSUME NEW i \in Records(u, t) PROVE GapAt(k, clientTorrents[i].bytes)'
    <3> DEFINE T == totals[k].bytes
    <3>1. clientTorrents[i].bytes = reported[k] /\ k \in DOMAIN totals
      BY <2>4 DEF Booked, Rested
    <3>2. /\ T \in Bytes /\ reported[k] \in Bytes /\ moved[k] \in [Counter -> Int]
      BY <1>0, <3>1, CountersNat DEF Ground, Books, HistoryOK
    <3>3. Gap(T, reported[k], reported[k], moved[k])
      BY <2>4, <3>1 DEF Booked, GapAt
    <3>4. Gap(T, r.bytes, reported[k], moved'[k])
      BY <1>1, <2>1, <2>2, <3>2, <3>3, GapReport
    <3> QED  BY <1>0, <2>1, <3>1, <3>4 DEF GapAt
  <2>6. Booked(u, t)'  BY <1>0, <1>2, <2>4, <2>5 DEF Booked
  <2>7. Carried(u, t, c)'
    BY <1>0, <2>1, <2>6
       DEF Carried, Waiting, Crediting, BonusStatement, TotalsStatement, Unrecorded, GateStatement
  <2>8. c \in LiveOf(u)' /\ child'[c].req.torrent = t
    BY <1>0, <1>4 DEF LiveOf, Live, Ended
  <2> QED  BY <1>0, <2>3, <2>7, <2>8
<1>5. CASE k # <<r.user, r.torrent>>
  <2>1. reported'[k] = reported[k] /\ moved'[k] = moved[k] /\ restarted'[k] = restarted[k]
    BY <1>0, <1>5, SendEffect
  <2>2. Tame(u, t)  BY <1>1, <1>3, <2>1 DEF Tame
  <2>3. \A d \in LiveOf(u)' : d = c => child'[d].req.torrent # t
    <3>1. ASSUME child'[c].req.torrent = t, c \in LiveOf(u)' PROVE FALSE
      <4>1. r.user = u /\ r.torrent = t  BY <1>0, <3>1 DEF LiveOf
      <4> QED  BY <1>5, <4>1
    <3> QED  BY <3>1
  <2>4. \A d \in LiveOf(u) : d \in LiveOf(u)' /\ child'[d] = child[d]
    BY <1>0 DEF LiveOf, Live
  <2>5. /\ \A r0 : GapAt(k, r0) => GapAt(k, r0)'
        /\ \A d : OldFound(u, t, d) /\ child'[d] = child[d] => OldFound(u, t, d)'
    BY <1>0, <1>2, <2>1 DEF GapAt, OldFound
  <2>6. Booked(u, t) => Booked(u, t)'
    BY <1>0, <1>2, <2>1 DEF Booked, GapAt
  <2>7. Rested(u, t) => Rested(u, t)'  BY <1>0, <1>2, <2>1 DEF Rested
  <2>8. ASSUME NEW d \in LiveOf(u), Carried(u, t, d) PROVE Carried(u, t, d)'
    <3>1. child'[d] = child[d]  BY <2>4
    <3>2. GapAt(k, child[d].old) => GapAt(k, child[d].old)'
      BY <1>0, <2>1, <3>1 DEF GapAt
    <3> QED  BY <1>0, <1>2, <2>1, <2>5, <2>6, <2>7, <2>8, <3>1, <3>2 DEF Carried
  <2> QED  BY <1>0, <2>2, <2>3, <2>4, <2>6, <2>7, <2>8 DEF RestartInv
<1> QED  BY <1>4, <1>5

LEMMA RestartHolds == AccountingSpec => []RestartInv
<1>1. AccountingInit => RestartInv
  <2> SUFFICES ASSUME AccountingInit, NEW u \in User, NEW t \in Torrent
               PROVE  Booked(u, t) /\ Rested(u, t) /\ LiveOf(u) = {}
    BY DEF RestartInv
  <2>1. clientTorrents = << >> /\ totals = Empty /\ child = [c \in Child |-> Idle]
    BY DEF AccountingInit, Init
  <2>2. Records(u, t) = {} /\ DOMAIN totals = {}  BY <2>1 DEF Records, Empty
  <2> QED  BY <2>1, <2>2, IdleFields DEF Booked, Rested, LiveOf, Live
<1>2. /\ Ground /\ Ground' /\ ClientsInv /\ RecordsInv /\ RecordsInv' /\ UnsetInv /\ AdmittedInv
      /\ ReadyInv /\ CreditInv /\ MovedInv /\ RestartInv
      /\ [AccountingNext]_<<vars, history>>
      => RestartInv'
  <2> SUFFICES ASSUME Ground, Ground', ClientsInv, RecordsInv, RecordsInv', UnsetInv, AdmittedInv,
                      ReadyInv, CreditInv, MovedInv, RestartInv,
                      [AccountingNext]_<<vars, history>>
               PROVE  RestartInv'
    OBVIOUS
  <2>1. ASSUME NEW c \in Child, NEW r \in Request, Fork(c, r), Send(r), Join(c, r)
        PROVE  RestartInv'
    BY <2>1, RestartFork
  <2>2. ASSUME NEW c \in Child, ChildStep(c), UNCHANGED history PROVE RestartInv'
    <3> SUFFICES ASSUME NEW u \in User, NEW t \in Torrent, Tame(u, t)'
                 PROVE  /\ (\A d \in LiveOf(u)' : child'[d].req.torrent # t) =>
                             Booked(u, t)' /\ Rested(u, t)'
                        /\ \A d \in LiveOf(u)' : child'[d].req.torrent = t => Carried(u, t, d)'
      BY DEF RestartInv
    <3>1. faults' = 0 /\ faults = 0  BY <2>2, Undisturbed DEF Tame
    <3>2. Tame(u, t) /\ Private(u) /\ UNCHANGED <<reported, moved>>
      BY <2>2, <3>1 DEF Tame, Orderly, Apart, Private, Settled, history
    <3>3. /\ (\A d \in LiveOf(u) : child[d].req.torrent # t) => Booked(u, t) /\ Rested(u, t)
          /\ \A d \in LiveOf(u) : child[d].req.torrent = t => Carried(u, t, d)
      BY <3>2 DEF RestartInv
    <3>4. /\ LiveOf(u)' \subseteq LiveOf(u) /\ Live(c)
          /\ \A d \in Child : child'[d].req = child[d].req
          /\ \A d \in Child \ {c} : child'[d] = child[d]
      BY <2>2, LiveStep, ChildStepEffect DEF Ground, Effect
    <3>5. CASE child[c].req.user = u /\ child[c].req.torrent = t
      <4>1. c \in LiveOf(u) /\ \A d \in LiveOf(u) : d = c
        BY <3>2, <3>4, <3>5 DEF LiveOf, Ground, Books, Serial, Tame, Orderly
      <4>2. Carried(u, t, c)'
        BY <2>2, <3>1, <3>2, <3>3, <3>5, <4>1, CarriedStep
      <4>3. c \notin LiveOf(u)' => Booked(u, t)' /\ Rested(u, t)'
        <5>1. c \notin LiveOf(u)' => child'[c].pc \in {"idle"} \cup Ended
          BY <3>4, <3>5, <4>1 DEF LiveOf, Live
        <5> QED
          BY <4>2, <5>1 DEF Carried, Ended, Crediting, BonusStatement, TotalsStatement, Unrecorded,
             GateStatement, ClientStatement, Waiting
      <4> QED  BY <3>4, <3>5, <4>1, <4>2, <4>3
    <3>6. CASE ~(child[c].req.user = u /\ child[c].req.torrent = t)
      <4>1. /\ Booked(u, t) => Booked(u, t)'
            /\ Rested(u, t) => Rested(u, t)'
            /\ \A d : child'[d] = child[d] /\ Carried(u, t, d) => Carried(u, t, d)'
        BY <2>2, <3>2, <3>6, BystanderRows, RowsKept
      <4>2. \A d \in LiveOf(u) : child[d].req.torrent = t => d # c /\ child'[d] = child[d]
        BY <3>4, <3>6 DEF LiveOf
      <4>3. \A d \in LiveOf(u) : child[d].req.torrent = t => d \in LiveOf(u)'
        BY <4>2 DEF LiveOf, Live
      <4>4. \A d \in LiveOf(u) : d \in Child  BY DEF LiveOf
      <4> QED  BY <3>3, <3>4, <4>1, <4>2, <4>3, <4>4
    <3> QED  BY <3>5, <3>6
  <2>3. CASE (Tick /\ Minute) \/ UNCHANGED <<vars, history>>
    <3>1. UNCHANGED <<child, ipAddress, client, clientTorrents, totals, reported, moved, restarted,
                      overlaps, faults>>
      BY <2>3 DEF Tick, Minute, vars, rows, history
    <3> SUFFICES ASSUME NEW u \in User, NEW t \in Torrent, Tame(u, t)'
                 PROVE  /\ (\A d \in LiveOf(u)' : child'[d].req.torrent # t) =>
                             Booked(u, t)' /\ Rested(u, t)'
                        /\ \A d \in LiveOf(u)' : child'[d].req.torrent = t => Carried(u, t, d)'
      BY DEF RestartInv
    <3>2. Tame(u, t)  BY <3>1 DEF Tame, Orderly, Apart, Private, Settled
    <3>3. Records(u, t)' = Records(u, t) /\ LiveOf(u)' = LiveOf(u)
      BY <3>1 DEF Records, Owner, LiveOf, Live
    <3>4. /\ Booked(u, t) => Booked(u, t)'
          /\ Rested(u, t) => Rested(u, t)'
          /\ \A d : Carried(u, t, d) => Carried(u, t, d)'
      BY <3>1, <3>3, RowsKept
    <3> QED  BY <3>1, <3>2, <3>3, <3>4 DEF RestartInv
  <2> QED  BY <2>1, <2>2, <2>3, AccountingKinds
<1>3. Spec => []CreditInv  BY CreditHolds
<1> QED
  BY <1>1, <1>2, <1>3, AccountingIsAnnounce, GroundHolds, ClientsHold, RecordsHold, UnsetHolds,
     AdmittedHolds, ReadyHolds, MovedHolds, PTL DEF AccountingSpec

\* As long as nothing fails, the credit of a client at its own address and port that
\* waits for each answer stays within what it has transferred, over any number of
\* restarts: the difference that wraps because the counters have fallen makes MySQL
\* refuse the sum, whatever the totals are, because they are never below the record.
THEOREM RestartedClientsAreNotOvercredited == AccountingSpec => []CreditBoundedThroughRestarts
<1>1. Ground /\ RestartInv => CreditBoundedThroughRestarts
  <2> SUFFICES ASSUME Ground, RestartInv, NEW k \in DOMAIN totals, Orderly(k), faults = 0,
                      "mixed" \notin restarted[k], moved[k] \in Bytes
               PROVE  Bounded(k)
    BY DEF CreditBoundedThroughRestarts
  <2>1. PICK u \in User, t \in Torrent : k = <<u, t>>  BY DEF Ground, TypeOK
  <2>2. Tame(u, t)  BY <2>1 DEF Tame
  <2>3. \E r \in Bytes : GapAt(k, r)
    <3>1. CASE Booked(u, t)
      <4>1. PICK i \in Records(u, t) : GapAt(k, clientTorrents[i].bytes)
        BY <2>1, <3>1 DEF Booked
      <4>2. clientTorrents[i].bytes \in Bytes  BY CountersNat DEF Records
      <4> QED  BY <4>1, <4>2
    <3>2. CASE ~Booked(u, t)
      <4>1. PICK c \in LiveOf(u) : Carried(u, t, c)  BY <2>2, <3>2 DEF RestartInv
      <4>2. GapAt(k, child[c].old)  BY <2>1, <3>2, <4>1 DEF Carried
      <4>3. child[c].old \in Bytes  BY CountersNat DEF LiveOf
      <4> QED  BY <4>2, <4>3
    <3> QED  BY <3>1, <3>2
  <2>4. totals[k].bytes \in Bytes /\ reported[k] \in Bytes /\ moved[k] \in [Counter -> Int]
    BY <2>1, CountersNat DEF Ground, Books, HistoryOK, Key
  <2> QED  BY <2>3, <2>4, GapBounds DEF GapAt, Bounded
<1> QED  BY <1>1, GroundHolds, RestartHolds, PTL

----------------------------------------------------------------------------
(***************************************************************************)
(* Seed time and bonus points are given only for minutes in which the user *)
(* had an active record.  The minutes up to the last UPDATE of a record    *)
(* have been handed out, to at most as many announces as were alive then;  *)
(* those since are still to be, and the announces that have read them      *)
(* already wait for the UPDATE that closes the account.                    *)
(***************************************************************************)

\* Sums that grow: at most b for each element of Q.
LEMMA SumGrowth ==
  ASSUME NEW S, IsFiniteSet(S), NEW Q \in SUBSET S, NEW b \in Nat, NEW f, NEW g,
         \A x \in S : f[x] \in Int /\ g[x] \in Int,
         \A x \in S : g[x] <= f[x] + (IF x \in Q THEN b ELSE 0)
  PROVE  Sum(g, S) <= Sum(f, S) + Cardinality(Q) * b
<1> DEFINE size(T) == Cardinality(Q \cap T)
           Good == {T \in SUBSET S : Sum(g, T) <= Sum(f, T) + size(T) * b}
<1>0. \A T \in SUBSET S : IsFiniteSet(T) /\ IsFiniteSet(Q \cap T) /\ size(T) \in Nat
  <2> SUFFICES ASSUME NEW T \in SUBSET S
               PROVE  IsFiniteSet(T) /\ IsFiniteSet(Q \cap T) /\ size(T) \in Nat
    OBVIOUS
  <2>1. Q \cap T \in SUBSET S  OBVIOUS
  <2>2. IsFiniteSet(T) /\ IsFiniteSet(Q \cap T)  BY <2>1, FS_Subset
  <2> QED  BY <2>2, FS_CardinalityType
<1>1. ASSUME NEW T \in SUBSET S, \A U \in SUBSET T : U # T => U \in Good
      PROVE  T \in Good
  <2>0. IsFiniteSet(T)  BY <1>0
  <2>1. CASE T = {}
    <3>1. Sum(g, T) = 0 /\ Sum(f, T) = 0  BY <2>0, <2>1, SumDef
    <3>2. Q \cap T = {}  BY <2>1
    <3>3. size(T) = 0  BY <3>2, FS_EmptySet
    <3> QED  BY <3>1, <3>3
  <2>2. CASE T # {}
    <3>1. PICK x : x \in T  BY <2>2
    <3> DEFINE U == T \ {x}
    <3>2. U \in SUBSET T /\ U # T /\ U \in SUBSET S  BY <3>1
    <3>3. Sum(g, U) <= Sum(f, U) + size(U) * b  BY <1>1, <3>2
    <3>4. Sum(g, T) = g[x] + Sum(g, U) /\ Sum(f, T) = f[x] + Sum(f, U)
      BY <2>0, <3>1, SumAny
    <3>5. Sum(g, U) \in Int /\ Sum(f, U) \in Int
      <4>1. IsFiniteSet(U) /\ \A y \in U : f[y] \in Int /\ g[y] \in Int  BY <1>0, <3>2
      <4> HIDE DEF U
      <4> QED  BY <4>1, SumAny
    <3>6. /\ x \in Q => size(T) = size(U) + 1
          /\ x \notin Q => size(T) = size(U)
      <4>1. x \in Q => Q \cap T = (Q \cap U) \cup {x} /\ x \notin Q \cap U  BY <3>1
      <4>2. x \notin Q => Q \cap T = Q \cap U  BY <3>1
      <4>3. IsFiniteSet(Q \cap U)  BY <1>0, <3>2
      <4> HIDE DEF U
      <4> QED  BY <4>1, <4>2, <4>3, FS_AddElement
    <3>7. size(U) \in Nat /\ size(T) \in Nat  BY <1>0, <3>2
    <3> HIDE DEF U, size
    <3>8. (size(U) + 1) * b = size(U) * b + b /\ size(U) * b \in Nat  BY <3>7
    <3>9. g[x] <= f[x] + (IF x \in Q THEN b ELSE 0) /\ f[x] \in Int /\ g[x] \in Int
      BY <3>1
    <3>10. Sum(g, T) <= Sum(f, T) + size(T) * b
      <4>1. CASE x \in Q  BY <3>3, <3>4, <3>5, <3>6, <3>8, <3>9, <4>1
      <4>2. CASE x \notin Q  BY <3>3, <3>4, <3>5, <3>6, <3>8, <3>9, <4>2
      <4> QED  BY <4>1, <4>2
    <3> QED  BY <3>10
  <2> QED  BY <2>1, <2>2
<1>2. \A T \in SUBSET S : T \in Good
  <2> HIDE DEF Good
  <2> QED  BY <1>1, SubsetInduction
<1>3. Q \cap S = Q  OBVIOUS
<1>4. S \in Good  BY <1>2
<1> QED  BY <1>3, <1>4

LEMMA SumMono ==
  ASSUME NEW S, IsFiniteSet(S), NEW f, NEW g,
         \A x \in S : f[x] \in Int /\ g[x] \in Int, \A x \in S : g[x] <= f[x]
  PROVE  Sum(g, S) <= Sum(f, S)
<1>1. \A x \in S : g[x] <= f[x] + (IF x \in {} THEN 0 ELSE 0)  OBVIOUS
<1>2. {} \in SUBSET S /\ 0 \in Nat  OBVIOUS
<1>3. Sum(g, S) <= Sum(f, S) + Cardinality({}) * 0  BY <1>1, <1>2, SumGrowth
<1>4. Sum(f, S) \in Int  BY SumAny
<1> QED  BY <1>3, <1>4, FS_EmptySet

LEMMA SumNat ==
  ASSUME NEW S, IsFiniteSet(S), NEW f, \A x \in S : f[x] \in Nat
  PROVE  Sum(f, S) \in Nat
<1> DEFINE none == [x \in S |-> 0]
<1>1. Sum(none, S) = 0  BY SumZero
<1>2. Sum(none, S) <= Sum(f, S)  BY SumMono
<1>3. Sum(f, S) \in Int  BY SumAny
<1> QED  BY <1>1, <1>2, <1>3

----------------------------------------------------------------------------
\* The minutes since the oldest announce of an active record: what a SELECT of the
\* seed time finds is at most as much.
Lately(u, t) ==
  {m \in 0 .. now - 1 : \E i \in Records(u, t) :
     clientTorrents[i].isActive = 1 /\ clientTorrents[i].lastActivity <= m}
Age(u, t) == Cardinality(Lately(u, t))

LEMMA AgeType ==
  ASSUME TypeOK, NEW u, NEW t
  PROVE  IsFiniteSet(Lately(u, t)) /\ Age(u, t) \in Nat
<1>1. now - 1 \in Int  BY DEF TypeOK
<1>2. IsFiniteSet(0 .. now - 1)  BY <1>1, FS_Interval
<1>3. Lately(u, t) \in SUBSET (0 .. now - 1)  BY DEF Lately
<1>4. IsFiniteSet(Lately(u, t))  BY <1>2, <1>3, FS_Subset
<1> QED  BY <1>4, FS_CardinalityType DEF Age

LEMMA LastActivityType ==
  ASSUME TypeOK, NEW i \in DOMAIN clientTorrents
  PROVE  /\ clientTorrents[i].lastActivity \in Nat /\ now \in Nat
         /\ clientTorrents[i].lastActivity <= now
<1>1. clientTorrents \in Seq(TorrentRow) /\ now \in Nat  BY DEF TypeOK
<1>2. clientTorrents[i] \in TorrentRow  BY <1>1
<1> QED  BY <1>1, <1>2 DEF TypeOK, TorrentRow

LEMMA AgeSeen ==
  ASSUME TypeOK, NEW u, NEW t, NEW i \in Records(u, t), clientTorrents[i].isActive = 1
  PROVE  now - clientTorrents[i].lastActivity <= Age(u, t)
<1> DEFINE l == clientTorrents[i].lastActivity
<1>1. i \in DOMAIN clientTorrents  BY DEF Records
<1>2. l \in Nat /\ now \in Nat /\ l <= now  BY <1>1, LastActivityType
<1>3. l .. now - 1 \in SUBSET Lately(u, t)  BY <1>2 DEF Lately
<1>4. Cardinality(l .. now - 1) <= Age(u, t)  BY <1>3, AgeType, FS_Subset DEF Age
<1>5. l \in Int /\ now - 1 \in Int  BY <1>2
<1> HIDE DEF l
<1>6. Cardinality(l .. now - 1) = IF l > now - 1 THEN 0 ELSE (now - 1) - l + 1
  BY <1>5, FS_Interval
<1>7. Cardinality(l .. now - 1) = now - l  BY <1>2, <1>6
<1> QED  BY <1>4, <1>7 DEF l

\* Child c writes the records it has found.
Closes(c) == child[c].pc = "updateClientTorrents" /\ child'[c].pc = "totalTimeActive"

LEMMA AgeStep ==
  ASSUME Ground, NEW c \in Child, ChildStep(c), NEW u \in User, Private(u), NEW t
  PROVE  IF Closes(c) /\ child[c].req.user = u /\ child[c].req.torrent = t
         THEN Lately(u, t)' = {}
         ELSE Lately(u, t)' = Lately(u, t)
<1>0. /\ TypeOK /\ now' = now /\ now \in Nat
      /\ \A active : Announced(c, active).lastActivity = now
  BY NowStep DEF Ground, TypeOK, Announced
<1>1. CASE Closes(c) /\ child[c].req.user = u /\ child[c].req.torrent = t
  <2>1. \A i \in UserTorrentRows(t, u) :
          clientTorrents'[i] = Announced(c, IF child[c].req.event = "stopped" THEN 0 ELSE 1)
    BY <1>0, <1>1, RecordOutcome DEF Closes
  <2>2. account[u] # "absent"
    BY <1>1 DEF Ground, Books, Closes, PastAccount, Statement, GateStatement, UpdateStatement
  <2>3. Records(u, t) = UserTorrentRows(t, u)  BY <2>2 DEF Records, UserTorrentRows, Owner
  <2>4. \A i \in Records(u, t)' : i \in Records(u, t)  BY <1>1, RecordsStep DEF Closes
  <2>5. \A i \in Records(u, t)' : clientTorrents'[i].lastActivity = now
    BY <1>0, <2>1, <2>3, <2>4
  <2>6. \A m \in 0 .. now - 1 : ~(now <= m)  BY <1>0
  <2> QED  BY <1>0, <1>1, <2>5, <2>6 DEF Lately
<1>2. CASE ~(Closes(c) /\ child[c].req.user = u /\ child[c].req.torrent = t)
  <2>1. clientTorrents' # clientTorrents =>
          child[c].pc # "updateClientTorrents" \/ Closes(c)
    BY <1>0, RecordOutcome DEF Closes
  <2>2. \A i \in Records(u, t) : i \in Records(u, t)' /\ clientTorrents'[i] = clientTorrents[i]
    BY <1>2, <2>1, RecordsStep
  <2>3. \A i \in Records(u, t)' : i \in Records(u, t) \/ clientTorrents'[i].lastActivity = now
    BY <1>0, RecordsStep
  <2>4. \A m \in 0 .. now - 1 : ~(now <= m)  BY <1>0
  <2>5. ASSUME NEW m \in 0 .. now - 1
        PROVE  (\E i \in Records(u, t)' :
                  clientTorrents'[i].isActive = 1 /\ clientTorrents'[i].lastActivity <= m) <=>
               (\E i \in Records(u, t) :
                  clientTorrents[i].isActive = 1 /\ clientTorrents[i].lastActivity <= m)
    BY <2>2, <2>3, <2>4
  <2>6. Lately(u, t)' = {m \in 0 .. now - 1 : \E i \in Records(u, t)' :
          clientTorrents'[i].isActive = 1 /\ clientTorrents'[i].lastActivity <= m}
    BY <1>0 DEF Lately
  <2>7. Lately(u, t)' = Lately(u, t)  BY <2>5, <2>6 DEF Lately
  <2> QED  BY <1>2, <2>7
<1> QED  BY <1>1, <1>2

\* A minute of an active record is one more to hand out.
LEMMA AgeTick ==
  ASSUME Ground, Tick, Minute, NEW u \in User, NEW t \in Torrent
  PROVE  /\ Age(u, t)' \in Nat /\ Age(u, t) <= Age(u, t)'
         /\ seeded'[<<u, t>>] - Age(u, t)' = seeded[<<u, t>>] - Age(u, t)
<1> DEFINE k == <<u, t>>
           busy == \E i \in Records(u, t) : clientTorrents[i].isActive = 1
<1>0. /\ TypeOK /\ now' = now + 1 /\ now \in Nat /\ k \in Key /\ seeded \in [Key -> Nat]
      /\ clientTorrents' = clientTorrents /\ Records(u, t)' = Records(u, t)
  BY DEF Ground, Books, HistoryOK, TypeOK, Tick, rows, Key, Records, Owner
<1>1. seeded'[k] = IF busy THEN seeded[k] + 1 ELSE seeded[k]
  BY <1>0 DEF Minute, Records, Owner
<1>2. IsFiniteSet(Lately(u, t)) /\ Age(u, t) \in Nat  BY <1>0, AgeType
<1>3. CASE busy
  <2>1. \A i \in Records(u, t) : clientTorrents[i].lastActivity \in Nat /\
                                 clientTorrents[i].lastActivity <= now
    BY <1>0, LastActivityType DEF Records
  <2>2. Lately(u, t)' = {m \in 0 .. now : \E i \in Records(u, t) :
          clientTorrents[i].isActive = 1 /\ clientTorrents[i].lastActivity <= m}
    <3>1. now' - 1 = now  BY <1>0
    <3> QED  BY <1>0, <3>1 DEF Lately
  <2>3. 0 .. now = (0 .. now - 1) \cup {now} /\ now \notin 0 .. now - 1  BY <1>0
  <2>4. Lately(u, t)' = Lately(u, t) \cup {now} /\ now \notin Lately(u, t)
    BY <1>3, <2>1, <2>2, <2>3 DEF Lately
  <2>5. Age(u, t)' = Age(u, t) + 1  BY <1>2, <2>4, FS_AddElement DEF Age
  <2> QED  BY <1>0, <1>1, <1>2, <1>3, <2>5
<1>4. CASE ~busy
  <2>1. Lately(u, t) = {} /\ Lately(u, t)' = {}  BY <1>0, <1>4 DEF Lately
  <2>2. Age(u, t)' = Age(u, t)  BY <2>1 DEF Age
  <2> QED  BY <1>0, <1>1, <1>2, <1>4, <2>2
<1> QED  BY <1>3, <1>4

----------------------------------------------------------------------------
\* What the announces may still add to a total and to the points: the minutes of
\* those past the UPDATE, and of those before it that have read them before the
\* records were last written.
Pending == {"updateClientTorrents", "createClientTorrent"}
Overdue(c, u, t) == child[c].pc \in Pending /\ child[c].minutes > Age(u, t)

Time(u, t) ==
  [c \in Child |->
     IF /\ child[c].req.user = u /\ child[c].req.torrent = t
        /\ child[c].pc \in Crediting \/ Overdue(c, u, t)
     THEN child[c].minutes ELSE 0]
Bonus(u) ==
  [c \in Child |->
     IF /\ child[c].req.user = u
        /\ \/ child[c].pc \in BonusStatement
           \/ \E t \in Torrent : child[c].req.torrent = t /\ Overdue(c, u, t)
     THEN child[c].minutes ELSE 0]

Given(k) == IF k \in DOMAIN totals THEN totals[k].timeActive ELSE 0

LEMMA ClaimsType ==
  ASSUME TypeOK, NEW u \in User, NEW t \in Torrent
  PROVE  /\ \A c \in Child : Time(u, t)[c] \in Nat /\ Bonus(u)[c] \in Nat
         /\ Given(<<u, t>>) \in Nat /\ points[u] \in Nat
<1>1. \A c \in Child : child[c].minutes \in Nat  BY DEF TypeOK, ChildState
<1>2. Given(<<u, t>>) \in Nat /\ points[u] \in Nat  BY DEF TypeOK, TotalsRow, Given
<1> QED  BY <1>1, <1>2 DEF Time, Bonus

\* What a SELECT of the seed time finds.
LEMMA MinutesRead ==
  ASSUME TypeOK, UnsetInv, NEW c \in Child, ChildStep(c), child'[c].pc = "updateClientTorrents"
  PROVE  /\ child[c].pc = "newSeedMinutes" /\ clientTorrents' = clientTorrents
         /\ \/ child'[c].minutes = 0
            \/ \E i \in TorrentClientRows(child[c].req.torrent, child[c].clientId) :
                 /\ clientTorrents[i].isActive = 1
                 /\ child'[c].minutes = now - clientTorrents[i].lastActivity
         /\ \/ child'[c].minutes = 0
            \/ TorrentClientRows(child[c].req.torrent, child[c].clientId) # {}
<1>0. child \in Children /\ child[c] \in ChildState /\ Moves(child[c], child'[c])
  BY ChildStepEffect DEF TypeOK, Children, Effect
<1>1. child[c].pc = "newSeedMinutes" /\ clientTorrents' = clientTorrents
  BY <1>0, RecordOutcome DEF Moves, Succeeds, Follows, Fails, Caught, Dies
<1>2. ~Throw(c) /\ ~Die(c)
  <2>1. CASE Throw(c)
    <3>1. child'[c].pc = Caught(child[c].pc)  BY <1>0, <2>1 DEF Throw, Raise, Children, ChildState
    <3> QED  BY <1>1, <3>1 DEF Caught, UpdateStatement, BonusStatement
  <2>2. CASE Die(c)
    <3>1. child'[c].pc = "dead"  BY <1>0, <2>2 DEF Die, Goto, Children, ChildState
    <3> QED  BY <3>1
  <2> QED  BY <2>1, <2>2
<1>3. NewSeedMinutes(c)
  BY <1>1, <1>2
     DEF ChildStep, Execute, At, GetUserId, UserCanLeech, IpaIsBanned, TorrentExists, GetIpaId,
         CreateIpAddress, GetIpaIdAgain, GetClientId, UpdateClient, CreateClient,
         SetOldUploadAndDownload, UpdateClientTorrents, CreateClientTorrent,
         TotalTimeActive, CalcBonusPoints, UpdateUserBonusPoints, TotalsExist,
         UpdateUserTorrentTotals, CreateUserTorrentTotals, GetTorrentData, GetPeers,
         BuildErrorDict, BuildDictionary
<1>4. ASSUME NEW m, child' = [child EXCEPT ![c].pc = "updateClientTorrents", ![c].minutes = m]
      PROVE  child'[c].minutes = m
  BY <1>0, <1>4 DEF Children, ChildState
<1>5. ASSUME Goto(c, "updateClientTorrents") PROVE child'[c].minutes = 0
  <2>1. child'[c].minutes = child[c].minutes
    BY <1>0, <1>5 DEF Goto, Children, ChildState
  <2> QED  BY <1>1, <2>1 DEF UnsetInv
<1>6. \A i \in TorrentClientRows(child[c].req.torrent, child[c].clientId) :
        clientTorrents[i].isActive \in 0 .. 1
  <2>1. clientTorrents \in Seq(TorrentRow)  BY DEF TypeOK
  <2>2. \A i \in DOMAIN clientTorrents : clientTorrents[i] \in TorrentRow  BY <2>1
  <2> QED  BY <2>2 DEF TorrentClientRows, TorrentRow
<1>7. ASSUME NEW i \in TorrentClientRows(child[c].req.torrent, child[c].clientId),
             child' = [child EXCEPT ![c].pc = "updateClientTorrents",
                                    ![c].minutes = IF clientTorrents[i].isActive = 0 THEN 0
                                                   ELSE now - clientTorrents[i].lastActivity]
      PROVE  \/ child'[c].minutes = 0
             \/ /\ clientTorrents[i].isActive = 1
                /\ child'[c].minutes = now - clientTorrents[i].lastActivity
  <2>1. child'[c].minutes = IF clientTorrents[i].isActive = 0 THEN 0
                            ELSE now - clientTorrents[i].lastActivity
    BY <1>4, <1>7
  <2>2. clientTorrents[i].isActive \in 0 .. 1  BY <1>6, <1>7
  <2> QED  BY <2>1, <2>2
<1> QED  BY <1>1, <1>3, <1>5, <1>7 DEF NewSeedMinutes

\* The records of a child's client are its user's.
LEMMA OwnRows ==
  ASSUME Ground, NEW c \in Child, child[c].pc \in WithClient,
         NEW u \in User, Private(u), child[c].req.user = u,
         NEW t, child[c].req.torrent = t
  PROVE  TorrentClientRows(t, child[c].clientId) \subseteq Records(u, t)
<1>1. /\ child[c].clientId \in DOMAIN client
      /\ client[child[c].clientId].ip = child[c].req.ip
  BY DEF Ground, ClientIdValid
<1>2. child[c].req.ip \in DOMAIN ipAddress  BY <1>1 DEF Ground, JoinInv, JoinsComplete
<1>3. ipAddress[child[c].req.ip].user = u  BY <1>2, PrivateAddress
<1> QED  BY <1>1, <1>3 DEF TorrentClientRows, Records, Owner

\* A minute that has been read is no older than the oldest active record.
LEMMA MinutesInAge ==
  ASSUME Ground, UnsetInv, NEW c \in Child, ChildStep(c), child'[c].pc = "updateClientTorrents",
         NEW u \in User, Private(u), child[c].req.user = u,
         NEW t, child[c].req.torrent = t
  PROVE  /\ child'[c].minutes <= Age(u, t)
         /\ child'[c].minutes > 0 => Records(u, t)' # {}
<1>0. TypeOK /\ child[c].pc = "newSeedMinutes"  BY MinutesRead DEF Ground
<1>1. TorrentClientRows(t, child[c].clientId) \subseteq Records(u, t)
  BY <1>0, OwnRows DEF WithClient, UpdateStatement
<1>2. Age(u, t) \in Nat  BY <1>0, AgeType
<1>3. CASE child'[c].minutes = 0  BY <1>2, <1>3
<1>4. CASE child'[c].minutes # 0
  <2>1. PICK i \in TorrentClientRows(t, child[c].clientId) :
          /\ clientTorrents[i].isActive = 1
          /\ child'[c].minutes = now - clientTorrents[i].lastActivity
    BY <1>0, <1>4, MinutesRead
  <2>2. i \in Records(u, t)  BY <1>1, <2>1
  <2>3. i \in Records(u, t)'  BY <2>2, RecordsStep
  <2> QED  BY <1>0, <2>1, <2>2, <2>3, AgeSeen
<1> QED  BY <1>3, <1>4

----------------------------------------------------------------------------
\* What a step of child c gives: its minutes, once to the points and once to the
\* total, at the statement that leaves BonusStatement or TotalsStatement.
LEMMA GivenStep ==
  ASSUME TypeOK, NEW c \in Child, ChildStep(c), NEW k \in User \X Torrent
  PROVE  \/ Given(k)' = Given(k)
         \/ /\ k = TotalsKey(c) /\ Given(k)' = Given(k) + child[c].minutes
            /\ child[c].pc = "updateUserTorrentTotals" /\ child'[c].pc = "getTorrentData"
<1>0. \A b, x : [bytes |-> b, timeActive |-> x].timeActive = x  OBVIOUS
<1>1. CASE totals' = totals  BY <1>1 DEF Given
<1>2. CASE totals' # totals
  <2>1. CASE child[c].pc = "updateUserTorrentTotals"
    <3>1. /\ child'[c].pc = "getTorrentData" /\ DOMAIN totals' = DOMAIN totals
          /\ \A j \in DOMAIN totals : j # TotalsKey(c) => totals'[j] = totals[j]
      BY <1>2, <2>1, TotalsChange
    <3>2. TotalsKey(c) \in DOMAIN totals =>
            totals'[TotalsKey(c)].timeActive = totals[TotalsKey(c)].timeActive + child[c].minutes
      <4> HIDE DEF TotalsKey
      <4>1. TotalsKey(c) \in DOMAIN totals => \E b : totals'[TotalsKey(c)] =
              [bytes |-> b, timeActive |-> totals[TotalsKey(c)].timeActive + child[c].minutes]
        BY <1>2, <2>1, TotalsChange
      <4> QED  BY <1>0, <4>1
    <3> QED  BY <2>1, <3>1, <3>2 DEF Given
  <2>2. CASE child[c].pc # "updateUserTorrentTotals"
    <3>1. /\ TotalsKey(c) \notin DOMAIN totals
          /\ DOMAIN totals' = DOMAIN totals \cup {TotalsKey(c)}
          /\ \A j \in DOMAIN totals : totals'[j] = totals[j]
          /\ totals'[TotalsKey(c)] = [bytes |-> child[c].req.bytes, timeActive |-> 0]
      BY <1>2, <2>2, TotalsChange
    <3>2. totals'[TotalsKey(c)].timeActive = 0  BY <1>0, <3>1
    <3> QED  BY <3>1, <3>2 DEF Given
  <2> QED  BY <2>1, <2>2
<1> QED  BY <1>1, <1>2

LEMMA PointsStep ==
  ASSUME TypeOK, NEW c \in Child, ChildStep(c), NEW u \in User
  PROVE  \/ points'[u] = points[u]
         \/ /\ u = child[c].req.user /\ points'[u] = points[u] + child[c].minutes
            /\ child[c].pc = "updateUserBonusPoints" /\ child'[c].pc = "totalsExist"
<1>0. child \in Children /\ child[c] \in ChildState /\ points \in [User -> Nat]
  BY DEF TypeOK, Children
<1>1. CASE UpdateUserBonusPoints(c)
  <2>1. child'[c].pc = "totalsExist"
    BY <1>0, <1>1 DEF UpdateUserBonusPoints, Goto, Children, ChildState
  <2>2. child[c].req.user \in User  BY <1>0 DEF ChildState, RequestType
  <2> QED  BY <1>0, <1>1, <2>1, <2>2 DEF UpdateUserBonusPoints, At
<1>2. CASE Execute(c) /\ ~Writes(c)  BY <1>2, OthersRead DEF rows
<1>3. CASE Writes(c) /\ ~UpdateUserBonusPoints(c)
  BY <1>3 DEF Writes, CreateIpAddress, UpdateClient, CreateClient, UpdateClientTorrents,
     CreateClientTorrent, UpdateUserTorrentTotals, CreateUserTorrentTotals
<1>4. CASE Throw(c) \/ Die(c)  BY <1>4 DEF Throw, Die, rows
<1> QED  BY <1>1, <1>2, <1>3, <1>4 DEF ChildStep

\* Minutes change only where they are read.
LEMMA MinutesKept ==
  ASSUME TypeOK, NEW c \in Child, ChildStep(c), child'[c].pc # "updateClientTorrents"
  PROVE  child'[c].minutes = child[c].minutes \/ child'[c].pc \notin Pending \cup Crediting
<1>1. FieldsKept(c)  BY FieldStep
<1>2. Moves(child[c], child'[c])  BY ChildStepEffect DEF Effect
<1>3. CASE child'[c].minutes = child[c].minutes  BY <1>3
<1>4. CASE NewSeedMinutes(c)
  <2>1. child[c].pc = "newSeedMinutes"  BY <1>4 DEF NewSeedMinutes, At
  <2>2. Caught("newSeedMinutes") = "getTorrentData"  BY DEF Caught, UpdateStatement, BonusStatement
  <2> QED
    BY <1>2, <2>1, <2>2 DEF Moves, Succeeds, Follows, Fails, Dies, Pending, Crediting,
       BonusStatement, TotalsStatement
<1> QED  BY <1>1, <1>3, <1>4 DEF FieldsKept

\* What is known of the minutes of u's announces that have not come to the UPDATE.
Fetched(u) ==
  \A c \in Child, t \in Torrent : child[c].req.user = u /\ child[c].req.torrent = t =>
    /\ child[c].pc = "updateClientTorrents" /\ child[c].minutes > 0 => Records(u, t) # {}
    /\ child[c].pc = "createClientTorrent" => child[c].minutes = 0

LEMMA FetchedStep ==
  ASSUME Ground, UnsetInv, NEW c \in Child, ChildStep(c), NEW u \in User, Private(u), Fetched(u)
  PROVE  Fetched(u)'
<1>0. /\ TypeOK /\ \A d \in Child \ {c} : child'[d] = child[d]
      /\ \A d \in Child : child'[d].req = child[d].req
      /\ Moves(child[c], child'[c])
  BY ChildStepEffect, LiveStep DEF Ground, Effect
<1>1. \A t : Records(u, t) # {} => Records(u, t)' # {}  BY RecordsStep
<1> SUFFICES ASSUME NEW d \in Child, NEW t \in Torrent,
                    child'[d].req.user = u, child'[d].req.torrent = t
             PROVE  /\ child'[d].pc = "updateClientTorrents" /\ child'[d].minutes > 0 =>
                         Records(u, t)' # {}
                    /\ child'[d].pc = "createClientTorrent" => child'[d].minutes = 0
  BY DEF Fetched
<1>2. child[d].req.user = u /\ child[d].req.torrent = t  BY <1>0
<1>3. CASE d # c  BY <1>0, <1>1, <1>2, <1>3 DEF Fetched
<1>4. CASE d = c
  <2>1. CASE child'[c].pc = "updateClientTorrents"  BY <1>2, <1>4, <2>1, MinutesInAge
  <2>2. CASE child'[c].pc = "createClientTorrent"
    <3>1. /\ child[c].pc = "updateClientTorrents" /\ UserTorrentRows(t, u) = {}
      BY <1>0, <1>2, <1>4, <2>2, RecordOutcome
    <3>2. account[u] # "absent"
      BY <1>2, <1>4, <3>1
         DEF Ground, Books, PastAccount, Statement, GateStatement, UpdateStatement
    <3>3. Records(u, t) = {}  BY <3>1, <3>2 DEF Records, UserTorrentRows, Owner
    <3>4. child[c].minutes \in Nat  BY <1>0 DEF TypeOK, ChildState
    <3>5. child[c].minutes = 0  BY <1>2, <1>4, <3>1, <3>3, <3>4 DEF Fetched
    <3>6. child'[c].minutes = child[c].minutes
      BY <1>0, <2>2, MinutesKept DEF Pending
    <3> QED  BY <1>4, <2>2, <3>5, <3>6
  <2> QED  BY <1>4, <2>1, <2>2
<1> QED  BY <1>3, <1>4

\* The claims of child c through its own step, but for the UPDATE.
LEMMA OwnClaims ==
  ASSUME Ground, UnsetInv, NEW c \in Child, ChildStep(c), ~Closes(c),
         NEW u \in User, Private(u), Fetched(u), child[c].req.user = u,
         NEW t \in Torrent, child[c].req.torrent = t
  PROVE  /\ Given(<<u, t>>)' + Time(u, t)'[c] <= Given(<<u, t>>) + Time(u, t)[c]
         /\ points'[u] + Bonus(u)'[c] <= points[u] + Bonus(u)[c]
<1> DEFINE k == <<u, t>>
<1>0. /\ TypeOK /\ child' \in Children /\ Moves(child[c], child'[c]) /\ child'[c].req = child[c].req
      /\ Age(u, t)' = Age(u, t) /\ Age(u, t) \in Nat /\ TotalsKey(c) = k
  <2>1. TypeOK /\ Effect(c)  BY ChildStepEffect DEF Ground
  <2> QED  BY <2>1, AgeStep, AgeType, LiveStep DEF Effect, Age, TotalsKey
<1> DEFINE m == child[c].minutes
<1>1. m \in Nat /\ child'[c].minutes \in Nat  BY <1>0 DEF TypeOK, Children, ChildState
<1>2. /\ Given(k) \in Nat /\ points[u] \in Nat /\ Time(u, t)[c] \in Nat /\ Bonus(u)[c] \in Nat
  BY <1>0, ClaimsType
<1> DEFINE due    == child[c].pc \in Crediting \/ (child[c].pc \in Pending /\ m > Age(u, t))
           due2   == \/ child'[c].pc \in Crediting
                     \/ child'[c].pc \in Pending /\ child'[c].minutes > Age(u, t)
           bonus  == child[c].pc \in BonusStatement \/ (child[c].pc \in Pending /\ m > Age(u, t))
           bonus2 == \/ child'[c].pc \in BonusStatement
                     \/ child'[c].pc \in Pending /\ child'[c].minutes > Age(u, t)
<1>3. Time(u, t)[c] = (IF due THEN m ELSE 0) /\ Bonus(u)[c] = (IF bonus THEN m ELSE 0)
  BY <1>0 DEF Time, Bonus, Overdue
<1>4. /\ Time(u, t)'[c] = (IF due2 THEN child'[c].minutes ELSE 0)
      /\ Bonus(u)'[c] = (IF bonus2 THEN child'[c].minutes ELSE 0)
  BY <1>0 DEF Time, Bonus, Overdue
<1> USE DEF Pending, Crediting, BonusStatement, TotalsStatement
<1>5. CASE child'[c].pc = "updateClientTorrents"
  <2>1. child'[c].minutes <= Age(u, t)  BY <1>5, MinutesInAge
  <2>2. child[c].pc = "newSeedMinutes"  BY <1>0, <1>5, MinutesRead
  <2>3. ~due2 /\ ~bonus2  BY <1>0, <1>1, <1>5, <2>1
  <2>4. Given(k)' = Given(k) /\ points'[u] = points[u]
    BY <1>0, <2>2, GivenStep, PointsStep
  <2> HIDE DEF due, due2, bonus, bonus2
  <2> QED  BY <1>1, <1>2, <1>3, <1>4, <2>3, <2>4
<1>6. CASE child'[c].pc \notin {"updateClientTorrents"} \cup Pending \cup Crediting
  <2>1. ~due2 /\ ~bonus2  BY <1>6
  <2>2. \/ Given(k)' = Given(k)
        \/ Given(k)' = Given(k) + m /\ due
    BY <1>0, GivenStep
  <2>3. points'[u] = points[u]  BY <1>0, <1>6, PointsStep
  <2> HIDE DEF due, due2, bonus, bonus2
  <2> QED  BY <1>1, <1>2, <1>3, <1>4, <2>1, <2>2, <2>3
<1>7. CASE child'[c].pc \in {"createClientTorrent"} \cup Crediting
  <2>1. child'[c].minutes = m  BY <1>0, <1>7, MinutesKept
  <2>2. \/ due2 => due
        \/ m = 0
    BY <1>0, <1>7, <2>1 DEF Moves, Succeeds, Follows, Fails, Caught, Dies, Closes, Fetched,
       UpdateStatement
  <2>3. \/ bonus2 => bonus
        \/ m = 0
    BY <1>0, <1>7, <2>1 DEF Moves, Succeeds, Follows, Fails, Caught, Dies, Closes, Fetched,
       UpdateStatement
  <2>4. Given(k)' = Given(k)  BY <1>0, <1>7, GivenStep
  <2>5. \/ points'[u] = points[u]
        \/ points'[u] = points[u] + m /\ bonus /\ ~bonus2
    BY <1>0, PointsStep
  <2> HIDE DEF due, due2, bonus, bonus2
  <2> QED  BY <1>1, <1>2, <1>3, <1>4, <2>1, <2>2, <2>3, <2>4, <2>5
<1> QED  BY <1>5, <1>6, <1>7

----------------------------------------------------------------------------
\* The sums of the claims.  Only the UPDATE makes them grow: every announce that is
\* alive may then claim what the records have been active for.
LEMMA ClaimsKept ==
  ASSUME TypeOK, NEW c \in Child, ChildStep(c), NEW u \in User, NEW t \in Torrent
  PROVE  /\ \A d \in Child : Time(u, t)'[d] \in Nat /\ Bonus(u)'[d] \in Nat
         /\ \A d \in Child : child'[d].req = child[d].req
         /\ \A d \in Child \ {c} : child'[d] = child[d]
<1>1. child' \in Children /\ \A d \in Child \ {c} : child'[d] = child[d]
  BY ChildStepEffect DEF Effect
<1>2. \A d \in Child : child'[d].minutes \in Nat  BY <1>1 DEF Children, ChildState
<1> QED  BY <1>1, <1>2, LiveStep DEF Time, Bonus

LEMMA TimeStep ==
  ASSUME Ground, UnsetInv, NEW c \in Child, ChildStep(c),
         NEW u \in User, Private(u), Fetched(u), NEW t \in Torrent,
         ~(Closes(c) /\ child[c].req.user = u /\ child[c].req.torrent = t)
  PROVE  Given(<<u, t>>)' + Sum(Time(u, t), Child)' <= Given(<<u, t>>) + Sum(Time(u, t), Child)
<1> DEFINE k == <<u, t>>
           f == Time(u, t)
           g == Time(u, t)'
<1>0. TypeOK /\ Age(u, t)' = Age(u, t) /\ k \in User \X Torrent
  BY AgeStep DEF Ground, Age
<1>1. /\ \A d \in Child : f[d] \in Nat /\ g[d] \in Nat
      /\ Given(k) \in Nat
  BY <1>0, ClaimsType, ClaimsKept
<1>2. \A d \in Child \ {c} : f[d] = g[d]
  BY <1>0, ClaimsKept DEF Time, Overdue
<1>3. Given(k)' + g[c] <= Given(k) + f[c]
  <2>1. CASE child[c].req.user = u /\ child[c].req.torrent = t
    BY <2>1, OwnClaims
  <2>2. CASE ~(child[c].req.user = u /\ child[c].req.torrent = t)
    <3>1. child'[c].req = child[c].req  BY <1>0, ClaimsKept
    <3>2. f[c] = 0 /\ g[c] = 0  BY <2>2, <3>1 DEF Time
    <3>3. Given(k)' = Given(k)  BY <1>0, <2>2, GivenStep DEF TotalsKey
    <3> QED  BY <1>1, <3>2, <3>3
  <2> QED  BY <2>1, <2>2
<1>4. Given(k)' \in Nat
  <2>1. child[c].minutes \in Nat  BY <1>0 DEF TypeOK, ChildState
  <2> QED  BY <1>0, <1>1, <2>1, GivenStep
<1> HIDE DEF f, g
<1>5. Sum(f, Child) \in Int  BY <1>1, ChildAssumption, SumAny
<1>6. Sum(g, Child) = Sum(f, Child) - f[c] + g[c]
  BY <1>1, <1>2, ChildAssumption, SumChange
<1>7. Given(k)' + Sum(g, Child) <= Given(k) + Sum(f, Child)
  BY <1>1, <1>3, <1>4, <1>5, <1>6
<1>8. Sum(g, Child) = Sum(Time(u, t), Child)'  BY DEF g, Sum
<1> QED  BY <1>7, <1>8 DEF f

LEMMA BonusStep ==
  ASSUME Ground, UnsetInv, NEW c \in Child, ChildStep(c),
         NEW u \in User, Private(u), Fetched(u), ~(Closes(c) /\ child[c].req.user = u)
  PROVE  points'[u] + Sum(Bonus(u), Child)' <= points[u] + Sum(Bonus(u), Child)
<1> DEFINE f == Bonus(u)
           g == Bonus(u)'
<1>0. /\ TypeOK /\ \A t \in Torrent : Age(u, t)' = Age(u, t)
      /\ child[c].req.torrent \in Torrent
  <2>1. TypeOK  BY DEF Ground
  <2>2. \A t \in Torrent : Lately(u, t)' = Lately(u, t)  BY AgeStep
  <2>3. child[c].req.torrent \in Torrent  BY <2>1 DEF TypeOK, ChildState, RequestType
  <2> QED  BY <2>1, <2>2, <2>3 DEF Age
<1>1. /\ \A d \in Child : f[d] \in Nat /\ g[d] \in Nat
      /\ points[u] \in Nat
  BY <1>0, ClaimsType, ClaimsKept
<1>2. \A d \in Child \ {c} : f[d] = g[d]
  BY <1>0, ClaimsKept DEF Bonus, Overdue
<1>3. points'[u] + g[c] <= points[u] + f[c]
  <2>1. CASE child[c].req.user = u
    BY <1>0, <2>1, OwnClaims
  <2>2. CASE child[c].req.user # u
    <3>1. child'[c].req = child[c].req  BY <1>0, ClaimsKept
    <3>2. f[c] = 0 /\ g[c] = 0  BY <2>2, <3>1 DEF Bonus
    <3>3. points'[u] = points[u]  BY <1>0, <2>2, PointsStep
    <3> QED  BY <1>1, <3>2, <3>3
  <2> QED  BY <2>1, <2>2
<1>4. points'[u] \in Nat
  <2>1. child[c].minutes \in Nat  BY <1>0 DEF TypeOK, ChildState
  <2> QED  BY <1>0, <1>1, <2>1, PointsStep
<1> HIDE DEF f, g
<1>5. Sum(f, Child) \in Int  BY <1>1, ChildAssumption, SumAny
<1>6. Sum(g, Child) = Sum(f, Child) - f[c] + g[c]
  BY <1>1, <1>2, ChildAssumption, SumChange
<1>7. points'[u] + Sum(g, Child) <= points[u] + Sum(f, Child)
  BY <1>1, <1>3, <1>4, <1>5, <1>6
<1>8. Sum(g, Child) = Sum(Bonus(u), Child)'  BY DEF g, Sum
<1> QED  BY <1>7, <1>8 DEF f

LEMMA CloseStep ==
  ASSUME Ground, NEW c \in Child, ChildStep(c), Closes(c),
         NEW u \in User, Private(u), child[c].req.user = u,
         NEW t \in Torrent, child[c].req.torrent = t
  PROVE  /\ Given(<<u, t>>)' = Given(<<u, t>>) /\ points'[u] = points[u]
         /\ Sum(Time(u, t), Child)' <=
              Sum(Time(u, t), Child) + Cardinality(LiveOf(u)) * Age(u, t)
         /\ Sum(Bonus(u), Child)' <=
              Sum(Bonus(u), Child) + Cardinality(LiveOf(u)) * Age(u, t)
<1>0. /\ TypeOK /\ <<u, t>> \in User \X Torrent
      /\ \A s \in Torrent \ {t} : Age(u, s)' = Age(u, s)
      /\ Age(u, t) \in Nat
  BY AgeStep, AgeType DEF Ground, Age
<1>1. Given(<<u, t>>)' = Given(<<u, t>>) /\ points'[u] = points[u]
  BY <1>0, GivenStep, PointsStep DEF Closes
<1>2. /\ \A d \in Child : Time(u, t)[d] \in Nat /\ Time(u, t)'[d] \in Nat
      /\ \A d \in Child : Bonus(u)[d] \in Nat /\ Bonus(u)'[d] \in Nat
  BY <1>0, ClaimsType, ClaimsKept
<1>3. ASSUME NEW d \in Child
      PROVE  /\ Time(u, t)'[d] <= Time(u, t)[d] + (IF d \in LiveOf(u) THEN Age(u, t) ELSE 0)
             /\ Bonus(u)'[d] <= Bonus(u)[d] + (IF d \in LiveOf(u) THEN Age(u, t) ELSE 0)
  <2>0. child'[d].req = child[d].req  BY <1>0, ClaimsKept
  <2>1. child'[d].minutes = child[d].minutes /\ child[d].minutes \in Nat
    <3>1. child[d].minutes \in Nat  BY <1>0 DEF TypeOK, ChildState
    <3>2. CASE d = c
      BY <1>0, <3>1, <3>2, MinutesKept DEF Closes, Crediting, BonusStatement
    <3>3. CASE d # c  BY <1>0, <3>1, <3>3, ClaimsKept
    <3> QED  BY <3>2, <3>3
  <2>2. d # c => child'[d].pc = child[d].pc  BY <1>0, ClaimsKept
  <2>3. CASE child[d].req.user = u /\ child[d].req.torrent = t /\ child[d].pc \in Pending
    <3>1. d \in LiveOf(u)  BY <2>3 DEF Pending, LiveOf, Live, Ended
    <3>2. child[d].minutes <= Age(u, t) \/ Overdue(d, u, t)  BY <1>0, <2>1, <2>3 DEF Overdue
    <3>3. Overdue(d, u, t) => Time(u, t)[d] = child[d].minutes /\ Bonus(u)[d] = child[d].minutes
      BY <2>3 DEF Time, Bonus
    <3>4. Time(u, t)'[d] <= child[d].minutes /\ Bonus(u)'[d] <= child[d].minutes
      BY <2>1 DEF Time, Bonus
    <3> HIDE DEF Overdue
    <3> QED  BY <1>0, <1>2, <2>1, <3>1, <3>2, <3>3, <3>4
  <2>4. CASE ~(child[d].req.user = u /\ child[d].req.torrent = t /\ child[d].pc \in Pending)
    <3>1. d # c  BY <2>4 DEF Closes, Pending
    <3>2. Time(u, t)'[d] = Time(u, t)[d]
      BY <2>0, <2>1, <2>2, <2>4, <3>1 DEF Time, Overdue
    <3>3. Bonus(u)'[d] = Bonus(u)[d]
      BY <1>0, <2>0, <2>1, <2>2, <2>4, <3>1 DEF Bonus, Overdue
    <3> QED  BY <1>0, <1>2, <3>2, <3>3
  <2> QED  BY <2>3, <2>4
<1>4. LiveOf(u) \in SUBSET Child  BY DEF LiveOf
<1> DEFINE L == LiveOf(u)
           a == Age(u, t)
           f == Time(u, t)
           g == Time(u, t)'
           p == Bonus(u)
           q == Bonus(u)'
<1>5. /\ L \in SUBSET Child /\ a \in Nat
      /\ \A d \in Child : f[d] \in Int /\ g[d] \in Int /\ p[d] \in Int /\ q[d] \in Int
      /\ \A d \in Child : g[d] <= f[d] + (IF d \in L THEN a ELSE 0)
      /\ \A d \in Child : q[d] <= p[d] + (IF d \in L THEN a ELSE 0)
  BY <1>0, <1>2, <1>3, <1>4
<1> HIDE DEF L, a, f, g, p, q
<1>6. Sum(g, Child) <= Sum(f, Child) + Cardinality(L) * a
  BY <1>5, ChildAssumption, SumGrowth
<1>7. Sum(q, Child) <= Sum(p, Child) + Cardinality(L) * a
  BY <1>5, ChildAssumption, SumGrowth
<1>8. Sum(g, Child) = Sum(Time(u, t), Child)' /\ Sum(q, Child) = Sum(Bonus(u), Child)'
  BY DEF g, q, Sum
<1> QED  BY <1>1, <1>6, <1>7, <1>8 DEF L, a, f, p

----------------------------------------------------------------------------
\* The announces of a user that are alive have overlapped with each other.
Company == \A u \in User : Cardinality(LiveOf(u)) <= 1 + overlaps[u]

\* The minutes that are settled: those seeded before the oldest record still
\* waiting for its next announce was written.
Settlement(u) == [t \in Torrent |-> seeded[<<u, t>>] - Age(u, t)]

SeedOf(u) ==
  /\ Fetched(u)
  /\ \A t \in Torrent : Settlement(u)[t] \in Nat
  /\ \A t \in Torrent :
       Given(<<u, t>>) + Sum(Time(u, t), Child) <= (1 + overlaps[u]) * Settlement(u)[t]
  /\ points[u] + Sum(Bonus(u), Child) <= (1 + overlaps[u]) * Sum(Settlement(u), Torrent)

SeedInv == Company /\ \A u \in User : Private(u) => SeedOf(u)

LEMMA SumsType ==
  ASSUME TypeOK, NEW u \in User, NEW t \in Torrent
  PROVE  /\ Sum(Time(u, t), Child) \in Nat /\ Sum(Bonus(u), Child) \in Nat
         /\ Given(<<u, t>>) \in Nat /\ points[u] \in Nat
<1>1. \A d \in Child : Time(u, t)[d] \in Nat /\ Bonus(u)[d] \in Nat  BY ClaimsType
<1>2. Sum(Time(u, t), Child) \in Nat  BY <1>1, ChildAssumption, SumNat
<1>3. Sum(Bonus(u), Child) \in Nat  BY <1>1, ChildAssumption, SumNat
<1> QED  BY <1>2, <1>3, ClaimsType

LEMMA SumsTypeStep ==
  ASSUME TypeOK, NEW c \in Child, ChildStep(c), NEW u \in User, NEW t \in Torrent
  PROVE  /\ Sum(Time(u, t), Child)' \in Nat /\ Sum(Bonus(u), Child)' \in Nat
         /\ Given(<<u, t>>)' \in Nat /\ points'[u] \in Nat
<1>1. \A d \in Child : Time(u, t)'[d] \in Nat /\ Bonus(u)'[d] \in Nat  BY ClaimsKept
<1>2. Sum(Time(u, t)', Child) \in Nat  BY <1>1, ChildAssumption, SumNat
<1>3. Sum(Bonus(u)', Child) \in Nat  BY <1>1, ChildAssumption, SumNat
<1>4. /\ child[c].minutes \in Nat /\ Given(<<u, t>>) \in Nat /\ points[u] \in Nat
      /\ <<u, t>> \in User \X Torrent
  BY ClaimsType DEF TypeOK, ChildState
<1>5. Given(<<u, t>>)' \in Nat /\ points'[u] \in Nat  BY <1>4, GivenStep, PointsStep
<1> QED  BY <1>2, <1>3, <1>5 DEF Sum

\* N announces settle a minutes more, of which n claim them.
LEMMA Settles ==
  ASSUME NEW N \in Nat, NEW n \in Nat, n <= N, NEW a \in Nat, NEW x \in Nat,
         NEW g \in Nat, NEW s \in Nat, NEW z \in Nat, g + s <= N * x, z <= s + n * a
  PROVE  g + z <= N * (x + a)
<1>1. \A i, j, k \in Nat : i <= j => i * k <= j * k  OBVIOUS
<1>2. n * a <= N * a  BY <1>1
<1>3. N * (x + a) = N * x + N * a  OBVIOUS
<1>4. n * a \in Nat /\ N * a \in Nat /\ N * x \in Nat  OBVIOUS
<1> QED  BY <1>2, <1>3, <1>4

LEMMA SettlementType ==
  ASSUME Ground, NEW u \in User, NEW t \in Torrent
  PROVE  /\ Settlement(u)[t] = seeded[<<u, t>>] - Age(u, t)
         /\ seeded[<<u, t>>] \in Nat /\ Age(u, t) \in Nat
<1>1. TypeOK /\ seeded \in [Key -> Nat]  BY DEF Ground, Books, HistoryOK
<1>2. seeded[<<u, t>>] \in Nat  BY <1>1 DEF Key
<1> QED  BY <1>1, <1>2, AgeType DEF Settlement

LEMMA SeedStep ==
  ASSUME Ground, UnsetInv, NEW c \in Child, ChildStep(c), UNCHANGED history,
         NEW u \in User, Private(u), Cardinality(LiveOf(u)) <= 1 + overlaps[u], SeedOf(u)
  PROVE  SeedOf(u)'
<1> DEFINE N == 1 + overlaps[u]
           s == Settlement(u)
           z == Settlement(u)'
<1>0. /\ TypeOK /\ overlaps' = overlaps /\ seeded' = seeded
      /\ N \in Nat /\ Fetched(u)
  BY DEF Ground, Books, HistoryOK, history, SeedOf
<1>1. Fetched(u)'  BY <1>0, FetchedStep
<1>2. \A t \in Torrent : s[t] \in Nat  BY DEF SeedOf
<1>3. \A t \in Torrent : z[t] = seeded[<<u, t>>] - Age(u, t)'  BY <1>0 DEF Settlement
<1> SUFFICES /\ \A t \in Torrent : z[t] \in Nat
             /\ \A t \in Torrent : Given(<<u, t>>)' + Sum(Time(u, t), Child)' <= N * z[t]
             /\ points'[u] + Sum(Bonus(u), Child)' <= N * Sum(z, Torrent)
  BY <1>0, <1>1 DEF SeedOf, Sum
<1>4. CASE Closes(c) /\ child[c].req.user = u
  <2>1. PICK t \in Torrent : child[c].req.torrent = t
    BY <1>0 DEF TypeOK, ChildState, RequestType
  <2> DEFINE a == Age(u, t)
             n == Cardinality(LiveOf(u))
  <2>2. \A r \in Torrent \ {t} : z[r] = s[r]
    <3>1. \A r \in Torrent \ {t} : Lately(u, r)' = Lately(u, r)  BY <2>1, AgeStep
    <3>2. \A r \in Torrent \ {t} : Age(u, r)' = Age(u, r)  BY <3>1 DEF Age
    <3> QED  BY <1>0, <3>2 DEF Settlement
  <2>3. z[t] = s[t] + a /\ a \in Nat
    <3>1. Lately(u, t)' = {}  BY <1>4, <2>1, AgeStep
    <3>2. Age(u, t)' = 0  BY <3>1, FS_EmptySet DEF Age
    <3>3. s[t] = seeded[<<u, t>>] - a /\ seeded[<<u, t>>] \in Nat /\ a \in Nat
      BY SettlementType
    <3>4. z[t] = seeded[<<u, t>>] - 0  BY <1>3, <3>2
    <3> HIDE DEF z, s, a
    <3> QED  BY <3>3, <3>4
  <2>4. n \in Nat /\ n <= N
    <3>1. n \in Nat  BY SomeAlive DEF LiveOf
    <3> QED  BY <3>1
  <2>5. /\ Given(<<u, t>>)' = Given(<<u, t>>) /\ points'[u] = points[u]
        /\ Sum(Time(u, t), Child)' <= Sum(Time(u, t), Child) + n * a
        /\ Sum(Bonus(u), Child)' <= Sum(Bonus(u), Child) + n * a
    BY <1>4, <2>1, CloseStep
  <2>6. /\ Sum(Time(u, t), Child) \in Nat /\ Sum(Time(u, t), Child)' \in Nat
        /\ Sum(Bonus(u), Child) \in Nat /\ Sum(Bonus(u), Child)' \in Nat
        /\ Given(<<u, t>>) \in Nat /\ points[u] \in Nat
    BY <1>0, SumsType, SumsTypeStep
  <2>7. Given(<<u, t>>) + Sum(Time(u, t), Child) <= N * s[t]  BY DEF SeedOf
  <2>8. points[u] + Sum(Bonus(u), Child) <= N * Sum(s, Torrent)  BY DEF SeedOf
  <2>9. Given(<<u, t>>)' + Sum(Time(u, t), Child)' <= N * z[t]
    <3>1. s[t] \in Nat  BY <1>2
    <3> HIDE DEF z, s, a, n, N
    <3>2. Given(<<u, t>>) + Sum(Time(u, t), Child)' <= N * (s[t] + a)
      BY <1>0, <2>3, <2>4, <2>5, <2>6, <2>7, <3>1, Settles
    <3> QED  BY <2>3, <2>5, <3>2
  <2>10. \A r \in Torrent : Given(<<u, r>>)' + Sum(Time(u, r), Child)' <= N * z[r]
    <3> SUFFICES ASSUME NEW r \in Torrent, r # t
                 PROVE  Given(<<u, r>>)' + Sum(Time(u, r), Child)' <= N * z[r]
      BY <2>9
    <3>1. Given(<<u, r>>) + Sum(Time(u, r), Child) <= N * s[r]  BY DEF SeedOf
    <3>2. Given(<<u, r>>)' + Sum(Time(u, r), Child)' <= Given(<<u, r>>) + Sum(Time(u, r), Child)
      BY <1>0, <2>1, TimeStep
    <3>3. /\ Given(<<u, r>>)' \in Nat /\ Sum(Time(u, r), Child)' \in Nat
          /\ Given(<<u, r>>) \in Nat /\ Sum(Time(u, r), Child) \in Nat
      BY <1>0, SumsType, SumsTypeStep
    <3>4. N * s[r] \in Nat /\ s[r] = z[r]  BY <1>0, <1>2, <2>2
    <3> HIDE DEF N, s, z
    <3> QED  BY <3>1, <3>2, <3>3, <3>4
  <2>11. points'[u] + Sum(Bonus(u), Child)' <= N * Sum(z, Torrent)
    <3> HIDE DEF z, s, a, n, N
    <3>1. \A r \in Torrent : s[r] \in Int /\ z[r] \in Int  BY <1>2, <2>2, <2>3
    <3>2. Sum(z, Torrent) = Sum(s, Torrent) - s[t] + z[t]
      BY <2>2, <3>1, TorrentAssumption, SumChange
    <3>3. Sum(s, Torrent) \in Nat  BY <1>2, TorrentAssumption, SumNat
    <3>4. s[t] \in Nat  BY <1>2
    <3>5. Sum(z, Torrent) = Sum(s, Torrent) + a  BY <2>3, <3>2, <3>3, <3>4
    <3>6. points[u] + Sum(Bonus(u), Child)' <= N * (Sum(s, Torrent) + a)
      BY <1>0, <2>3, <2>4, <2>5, <2>6, <2>8, <3>3, Settles
    <3> QED  BY <2>5, <3>5, <3>6
  <2>12. \A r \in Torrent : z[r] \in Nat
    <3> HIDE DEF z, s, a
    <3>1. z[t] \in Nat  BY <1>2, <2>3
    <3> QED  BY <1>2, <2>2, <3>1
  <2> QED  BY <2>10, <2>11, <2>12
<1>5. CASE ~(Closes(c) /\ child[c].req.user = u)
  <2>1. z = s
    <3>1. \A t \in Torrent : Lately(u, t)' = Lately(u, t)  BY <1>5, AgeStep
    <3>2. \A t \in Torrent : Age(u, t)' = Age(u, t)  BY <3>1 DEF Age
    <3> QED  BY <1>0, <3>2 DEF Settlement
  <2>2. ASSUME NEW t \in Torrent
        PROVE  Given(<<u, t>>)' + Sum(Time(u, t), Child)' <= N * s[t]
    <3>1. Given(<<u, t>>) + Sum(Time(u, t), Child) <= N * s[t]  BY DEF SeedOf
    <3>2. Given(<<u, t>>)' + Sum(Time(u, t), Child)' <= Given(<<u, t>>) + Sum(Time(u, t), Child)
      BY <1>0, <1>5, TimeStep
    <3>3. /\ Given(<<u, t>>)' \in Nat /\ Sum(Time(u, t), Child)' \in Nat
          /\ Given(<<u, t>>) \in Nat /\ Sum(Time(u, t), Child) \in Nat
      BY <1>0, SumsType, SumsTypeStep
    <3>4. N * s[t] \in Nat  BY <1>0, <1>2
    <3> HIDE DEF N, s
    <3> QED  BY <3>1, <3>2, <3>3, <3>4
  <2>3. points'[u] + Sum(Bonus(u), Child)' <= N * Sum(s, Torrent)
    <3>1. points[u] + Sum(Bonus(u), Child) <= N * Sum(s, Torrent)  BY DEF SeedOf
    <3>2. points'[u] + Sum(Bonus(u), Child)' <= points[u] + Sum(Bonus(u), Child)
      BY <1>0, <1>5, BonusStep
    <3>3. child[c].req.torrent \in Torrent  BY <1>0 DEF TypeOK, ChildState, RequestType
    <3>4. /\ points'[u] \in Nat /\ Sum(Bonus(u), Child)' \in Nat
          /\ points[u] \in Nat /\ Sum(Bonus(u), Child) \in Nat
      BY <1>0, <3>3, SumsType, SumsTypeStep
    <3> HIDE DEF N, s
    <3>5. Sum(s, Torrent) \in Nat  BY <1>2, TorrentAssumption, SumNat
    <3>6. N * Sum(s, Torrent) \in Nat  BY <1>0, <3>5
    <3> QED  BY <3>1, <3>2, <3>4, <3>6
  <2> QED  BY <1>2, <2>1, <2>2, <2>3
<1> QED  BY <1>4, <1>5

\* A new announce overlaps with all that are alive.
LEMMA OverlapFork ==
  ASSUME Ground, NEW c \in Child, NEW r \in Request, Fork(c, r), Join(c, r), NEW u \in User
  PROVE  /\ overlaps[u] \in Nat /\ overlaps'[u] \in Nat /\ overlaps[u] <= overlaps'[u]
         /\ Cardinality(LiveOf(u)) <= 1 + overlaps[u] =>
              Cardinality(LiveOf(u)') <= 1 + overlaps'[u]
<1>0. overlaps \in [User -> Nat] /\ r.user \in User
  BY RequestAssumption DEF Ground, Books, HistoryOK, RequestType
<1> DEFINE same == {d \in {e \in Child : Live(e)} : child[d].req.user = r.user}
<1>1. overlaps' = [overlaps EXCEPT ![r.user] = overlaps[r.user] + Cardinality(same)]
  BY DEF Join
<1>2. same = LiveOf(r.user)  BY DEF LiveOf
<1> HIDE DEF same
<1>3. /\ child'[c].pc = "getUserId" /\ child'[c].req = r /\ ~Live(c)
      /\ \A d \in Child \ {c} : child'[d] = child[d]
  BY ForkQuiet
<1>4. LiveOf(u)' = IF u = r.user THEN LiveOf(u) \cup {c} ELSE LiveOf(u)
  <2>1. Live(c)' /\ \A d \in Child \ {c} : Live(d)' <=> Live(d)
    BY <1>3 DEF Live, Ended
  <2> QED  BY <1>3, <2>1 DEF LiveOf
<1>5. IsFiniteSet(LiveOf(u)) /\ Cardinality(LiveOf(u)) \in Nat /\ c \notin LiveOf(u)
  BY <1>3, SomeAlive DEF LiveOf
<1>6. Cardinality(LiveOf(u) \cup {c}) = Cardinality(LiveOf(u)) + 1  BY <1>5, FS_AddElement
<1>7. CASE u = r.user
  <2>1. overlaps'[u] = overlaps[u] + Cardinality(LiveOf(u))  BY <1>0, <1>1, <1>2, <1>7
  <2> QED  BY <1>0, <1>4, <1>5, <1>6, <1>7, <2>1
<1>8. CASE u # r.user  BY <1>0, <1>1, <1>4, <1>8
<1> QED  BY <1>7, <1>8

LEMMA SeedFork ==
  ASSUME Ground, NEW c \in Child, NEW r \in Request, Fork(c, r), Send(r), Join(c, r),
         NEW u \in User, SeedOf(u)
  PROVE  SeedOf(u)'
<1>0. /\ TypeOK /\ child[c].pc = "idle" /\ child'[c].pc = "getUserId"
      /\ \A d \in Child \ {c} : child'[d] = child[d]
      /\ UNCHANGED <<rows, now, seeded>>
  BY ForkQuiet DEF Ground, Fork, At, Send
<1>1. \A t : Records(u, t)' = Records(u, t) /\ Lately(u, t)' = Lately(u, t)
  BY <1>0 DEF rows, Records, Owner, Lately
<1>2. \A t : Age(u, t)' = Age(u, t)  BY <1>1 DEF Age
<1> USE DEF Pending, Crediting, BonusStatement, TotalsStatement
<1>3. \A t \in Torrent : Time(u, t)' = Time(u, t)
  BY <1>0, <1>2 DEF Time, Overdue
<1>4. Bonus(u)' = Bonus(u)
  BY <1>0, <1>2 DEF Bonus, Overdue
<1>5. Settlement(u)' = Settlement(u)  BY <1>0, <1>2 DEF Settlement
<1>6. Fetched(u)'
  BY <1>0, <1>1 DEF Fetched, SeedOf
<1>7. \A t \in Torrent : Given(<<u, t>>)' = Given(<<u, t>>)  BY <1>0 DEF Given, rows
<1> DEFINE N == 1 + overlaps[u]
           M == 1 + overlaps'[u]
           s == Settlement(u)
<1>8. N \in Nat /\ M \in Nat /\ N <= M  BY OverlapFork
<1>9. \A t \in Torrent : s[t] \in Nat  BY DEF SeedOf
<1>10. \A x \in Nat : N * x <= M * x /\ N * x \in Nat /\ M * x \in Nat
  <2> HIDE DEF N, M
  <2>1. \A i, j, k \in Nat : i <= j => i * k <= j * k /\ i * k \in Nat /\ j * k \in Nat  OBVIOUS
  <2> QED  BY <1>8, <2>1
<1>11. ASSUME NEW t \in Torrent
       PROVE  Given(<<u, t>>) + Sum(Time(u, t), Child) <= M * s[t]
  <2>1. Given(<<u, t>>) + Sum(Time(u, t), Child) <= N * s[t]  BY DEF SeedOf
  <2>2. Given(<<u, t>>) \in Nat /\ Sum(Time(u, t), Child) \in Nat  BY <1>0, SumsType
  <2> HIDE DEF N, M, s
  <2>3. N * s[t] <= M * s[t] /\ N * s[t] \in Nat /\ M * s[t] \in Nat  BY <1>9, <1>10
  <2> QED  BY <2>1, <2>2, <2>3
<1>12. points[u] + Sum(Bonus(u), Child) <= M * Sum(s, Torrent)
  <2>1. points[u] + Sum(Bonus(u), Child) <= N * Sum(s, Torrent)  BY DEF SeedOf
  <2>2. r.torrent \in Torrent  BY RequestAssumption DEF RequestType
  <2>3. points[u] \in Nat /\ Sum(Bonus(u), Child) \in Nat  BY <1>0, <2>2, SumsType
  <2> HIDE DEF N, M, s
  <2>4. Sum(s, Torrent) \in Nat  BY <1>9, TorrentAssumption, SumNat
  <2>5. /\ N * Sum(s, Torrent) <= M * Sum(s, Torrent)
        /\ N * Sum(s, Torrent) \in Nat /\ M * Sum(s, Torrent) \in Nat
    BY <1>10, <2>4
  <2> QED  BY <2>1, <2>3, <2>5
<1>13. points'[u] = points[u]  BY <1>0 DEF rows
<1> QED
  BY <1>3, <1>4, <1>5, <1>6, <1>7, <1>9, <1>11, <1>12, <1>13 DEF SeedOf, Sum

LEMMA SeedTick ==
  ASSUME Ground, Tick, Minute, NEW u \in User, SeedOf(u)
  PROVE  SeedOf(u)'
<1>0. TypeOK /\ UNCHANGED <<child, rows, overlaps>> /\ overlaps[u] \in Nat
  BY DEF Ground, Books, HistoryOK, Tick, Minute
<1>1. \A t \in Torrent : Age(u, t) \in Nat /\ Age(u, t)' \in Nat /\ Age(u, t) <= Age(u, t)'
  BY <1>0, AgeTick, AgeType
<1>2. Settlement(u)' = Settlement(u)
  <2>1. \A t \in Torrent : seeded'[<<u, t>>] - Age(u, t)' = seeded[<<u, t>>] - Age(u, t)
    BY AgeTick
  <2> QED  BY <2>1 DEF Settlement
<1>3. Fetched(u)'
  <2>1. \A t : Records(u, t)' = Records(u, t)  BY <1>0 DEF rows, Records, Owner
  <2> QED  BY <1>0, <2>1 DEF Fetched, SeedOf
<1>4. \A d \in Child : child[d].minutes \in Nat  BY <1>0 DEF TypeOK, ChildState
<1>5. \A t \in Torrent, d \in Child : Overdue(d, u, t)' => Overdue(d, u, t)
  BY <1>0, <1>1, <1>4 DEF Overdue
<1>6. ASSUME NEW t \in Torrent
      PROVE  Sum(Time(u, t), Child)' <= Sum(Time(u, t), Child) /\ Sum(Time(u, t), Child)' \in Nat
  <2> DEFINE f == Time(u, t)
             g == Time(u, t)'
  <2>1. \A d \in Child : f[d] \in Nat /\ g[d] \in Nat /\ g[d] <= f[d]
    BY <1>0, <1>4, <1>5 DEF Time
  <2> HIDE DEF f, g
  <2>2. Sum(g, Child) <= Sum(f, Child)  BY <2>1, ChildAssumption, SumMono
  <2>3. Sum(g, Child) \in Nat  BY <2>1, ChildAssumption, SumNat
  <2> QED  BY <2>2, <2>3 DEF f, g, Sum
<1>7. Sum(Bonus(u), Child)' <= Sum(Bonus(u), Child) /\ Sum(Bonus(u), Child)' \in Nat
  <2> DEFINE f == Bonus(u)
             g == Bonus(u)'
  <2>1. \A d \in Child : f[d] \in Nat /\ g[d] \in Nat /\ g[d] <= f[d]
    BY <1>0, <1>4, <1>5 DEF Bonus
  <2> HIDE DEF f, g
  <2>2. Sum(g, Child) <= Sum(f, Child)  BY <2>1, ChildAssumption, SumMono
  <2>3. Sum(g, Child) \in Nat  BY <2>1, ChildAssumption, SumNat
  <2> QED  BY <2>2, <2>3 DEF f, g, Sum
<1>8. \A t \in Torrent : Given(<<u, t>>)' = Given(<<u, t>>)  BY <1>0 DEF Given, rows
<1>9. points'[u] = points[u] /\ overlaps'[u] = overlaps[u]  BY <1>0 DEF rows
<1> DEFINE N == 1 + overlaps[u]
           s == Settlement(u)
<1>10. N \in Nat /\ \A t \in Torrent : s[t] \in Nat  BY <1>0 DEF SeedOf
<1>11. ASSUME NEW t \in Torrent
       PROVE  Given(<<u, t>>) + Sum(Time(u, t), Child)' <= N * s[t]
  <2>1. Given(<<u, t>>) + Sum(Time(u, t), Child) <= N * s[t]  BY DEF SeedOf
  <2>2. Given(<<u, t>>) \in Nat /\ Sum(Time(u, t), Child) \in Nat  BY <1>0, SumsType
  <2> HIDE DEF N, s
  <2>3. N * s[t] \in Nat  BY <1>10
  <2> QED  BY <1>6, <2>1, <2>2, <2>3
<1>12. points[u] + Sum(Bonus(u), Child)' <= N * Sum(s, Torrent)
  <2>1. points[u] + Sum(Bonus(u), Child) <= N * Sum(s, Torrent)  BY DEF SeedOf
  <2>2. points[u] \in Nat  BY <1>0 DEF TypeOK
  <2>3. Sum(Bonus(u), Child) \in Nat
    <3>1. \A d \in Child : Bonus(u)[d] \in Nat  BY <1>4 DEF Bonus
    <3> QED  BY <3>1, ChildAssumption, SumNat
  <2> HIDE DEF N, s
  <2>4. Sum(s, Torrent) \in Nat  BY <1>10, TorrentAssumption, SumNat
  <2>5. N * Sum(s, Torrent) \in Nat  BY <1>10, <2>4
  <2> QED  BY <1>7, <2>1, <2>2, <2>3, <2>5
<1> QED
  BY <1>2, <1>3, <1>8, <1>9, <1>10, <1>11, <1>12 DEF SeedOf, Sum

LEMMA SeedHolds == AccountingSpec => []SeedInv
<1>1. AccountingInit => SeedInv
  <2> SUFFICES ASSUME AccountingInit, NEW u \in User
               PROVE  Cardinality(LiveOf(u)) <= 1 + overlaps[u] /\ SeedOf(u)
    BY DEF SeedInv, Company
  <2>1. /\ child = [c \in Child |-> Idle] /\ clientTorrents = << >> /\ totals = Empty
        /\ points[u] = 0 /\ now = 0 /\ overlaps[u] = 0
        /\ \A t \in Torrent : seeded[<<u, t>>] = 0
    BY DEF AccountingInit, Init, Key
  <2>2. LiveOf(u) = {}  BY <2>1, IdleFields DEF LiveOf, Live
  <2>3. Cardinality(LiveOf(u)) <= 1 + overlaps[u]  BY <2>1, <2>2, FS_EmptySet
  <2>4. \A t : Records(u, t) = {}  BY <2>1 DEF Records
  <2>5. \A t : Lately(u, t) = {}  BY <2>4 DEF Lately
  <2>6. \A t : Age(u, t) = 0  BY <2>5, FS_EmptySet DEF Age
  <2>7. \A t \in Torrent : Settlement(u)[t] = 0  BY <2>1, <2>6 DEF Settlement
  <2>8. \A c \in Child : child[c].pc = "idle"  BY <2>1, IdleFields
  <2>9. \A t \in Torrent, c \in Child : Time(u, t)[c] = 0 /\ Bonus(u)[c] = 0
    BY <2>8 DEF Time, Bonus, Overdue, Pending, Crediting, BonusStatement, TotalsStatement
  <2>10. \A t \in Torrent : Given(<<u, t>>) = 0  BY <2>1 DEF Given, Empty
  <2>11. \A t \in Torrent : Sum(Time(u, t), Child) = 0
    BY <2>9, ChildAssumption, SumZero
  <2>12. Sum(Bonus(u), Child) = 0
    <3>1. \A c \in Child : Bonus(u)[c] = 0
      BY <2>8 DEF Bonus, Overdue, Pending, BonusStatement
    <3> QED  BY <3>1, ChildAssumption, SumZero
  <2>13. Sum(Settlement(u), Torrent) = 0  BY <2>7, TorrentAssumption, SumZero
  <2>14. Fetched(u)  BY <2>8 DEF Fetched
  <2> QED  BY <2>1, <2>3, <2>7, <2>10, <2>11, <2>12, <2>13, <2>14 DEF SeedOf
<1>2. Ground /\ UnsetInv /\ SeedInv /\ [AccountingNext]_<<vars, history>> => SeedInv'
  <2> SUFFICES ASSUME Ground, UnsetInv, SeedInv, [AccountingNext]_<<vars, history>>
               PROVE  SeedInv'
    OBVIOUS
  <2>1. ASSUME NEW c \in Child, NEW r \in Request, Fork(c, r), Send(r), Join(c, r)
        PROVE  SeedInv'
    <3>1. Company'  BY <2>1, OverlapFork DEF SeedInv, Company
    <3>2. \A u \in User : Private(u) => SeedOf(u)'  BY <2>1, SeedFork DEF SeedInv
    <3> QED  BY <3>1, <3>2 DEF SeedInv, Private
  <2>2. ASSUME NEW c \in Child, ChildStep(c), UNCHANGED history PROVE SeedInv'
    <3>1. Company'
      <4> SUFFICES ASSUME NEW u \in User
                   PROVE  Cardinality(LiveOf(u)') <= 1 + overlaps'[u]
        BY DEF Company
      <4>1. LiveOf(u)' \in SUBSET LiveOf(u)  BY <2>2, LiveStep DEF Ground
      <4>2. LiveOf(u) \in SUBSET Child  BY DEF LiveOf
      <4>3. LiveOf(u)' \in SUBSET Child  BY <4>1, <4>2
      <4>4. /\ IsFiniteSet(LiveOf(u)) /\ Cardinality(LiveOf(u)) \in Nat
            /\ Cardinality(LiveOf(u)') \in Nat
        BY <4>2, <4>3, SomeAlive
      <4>5. Cardinality(LiveOf(u)') <= Cardinality(LiveOf(u))  BY <4>1, <4>4, FS_Subset
      <4>6. overlaps' = overlaps /\ overlaps[u] \in Nat
        BY <2>2 DEF history, Ground, Books, HistoryOK
      <4>7. Cardinality(LiveOf(u)) <= 1 + overlaps[u]  BY DEF SeedInv, Company
      <4> QED  BY <4>4, <4>5, <4>6, <4>7
    <3>2. \A u \in User : Private(u) => SeedOf(u)'
      BY <2>2, SeedStep DEF SeedInv, Company
    <3> QED  BY <3>1, <3>2 DEF SeedInv, Private
  <2>3. CASE Tick /\ Minute
    <3>1. Company'  BY <2>3 DEF Tick, Minute, SeedInv, Company, LiveOf, Live
    <3>2. \A u \in User : Private(u) => SeedOf(u)'  BY <2>3, SeedTick DEF SeedInv
    <3> QED  BY <3>1, <3>2 DEF SeedInv, Private
  <2>4. CASE UNCHANGED <<vars, history>>
    <3>0. UNCHANGED <<child, rows, now, overlaps, seeded>>  BY <2>4 DEF vars, history
    <3>1. Company'  BY <3>0 DEF SeedInv, Company, LiveOf, Live
    <3>2. ASSUME NEW u \in User, SeedOf(u) PROVE SeedOf(u)'
      <4>1. \A t : Records(u, t)' = Records(u, t)  BY <3>0 DEF rows, Records, Owner
      <4>2. Fetched(u)'  BY <3>0, <3>2, <4>1 DEF SeedOf, Fetched
      <4>3. \A t : Age(u, t)' = Age(u, t)  BY <3>0, <4>1 DEF rows, Age, Lately
      <4>4. \A d, t : Overdue(d, u, t)' = Overdue(d, u, t)  BY <3>0, <4>3 DEF Overdue
      <4>5. \A t : Time(u, t)' = Time(u, t)  BY <3>0, <4>4 DEF Time
      <4>6. Bonus(u)' = Bonus(u)  BY <3>0, <4>4 DEF Bonus
      <4>7. Settlement(u)' = Settlement(u)  BY <3>0, <4>3 DEF Settlement
      <4>8. \A k : Given(k)' = Given(k)  BY <3>0 DEF rows, Given
      <4> QED
        BY <3>0, <3>2, <4>2, <4>5, <4>6, <4>7, <4>8 DEF rows, SeedOf, Sum
    <3> QED  BY <3>0, <3>1, <3>2 DEF SeedInv, Private
  <2> QED  BY <2>1, <2>2, <2>3, <2>4, AccountingKinds
<1> QED  BY <1>1, <1>2, GroundHolds, UnsetHolds, PTL DEF AccountingSpec

\* Seed time and bonus points are given only for minutes in which the user had an
\* active record, each once and once more for each pair of his announces that have
\* overlapped, whatever fails in between and whatever other users do
\* (Database.cpp, updateClientTorrents).
THEOREM SeedTimeStaysBounded == AccountingSpec => []SeedTimeBounded
<1>1. Ground /\ SeedInv => SeedTimeBounded
  <2> SUFFICES ASSUME Ground, SeedInv, NEW u \in User, Private(u)
               PROVE  /\ \A t \in Torrent : <<u, t>> \in DOMAIN totals =>
                           totals[<<u, t>>].timeActive <= (1 + overlaps[u]) * seeded[<<u, t>>]
                      /\ points[u] <= (1 + overlaps[u]) *
                           Sum([t \in Torrent |-> seeded[<<u, t>>]], Torrent)
    BY DEF SeedTimeBounded, Sum
  <2> DEFINE N == 1 + overlaps[u]
             s == Settlement(u)
             all == [t \in Torrent |-> seeded[<<u, t>>]]
  <2>0. TypeOK /\ N \in Nat /\ SeedOf(u)
    BY DEF Ground, Books, HistoryOK, SeedInv
  <2>1. \A t \in Torrent : s[t] \in Nat /\ all[t] \in Nat /\ s[t] <= all[t]
    <3> SUFFICES ASSUME NEW t \in Torrent PROVE s[t] \in Nat /\ all[t] \in Nat /\ s[t] <= all[t]
      OBVIOUS
    <3>1. /\ s[t] = seeded[<<u, t>>] - Age(u, t)
          /\ seeded[<<u, t>>] \in Nat /\ Age(u, t) \in Nat
      BY SettlementType
    <3>2. s[t] \in Nat /\ all[t] = seeded[<<u, t>>]  BY <2>0 DEF SeedOf
    <3> HIDE DEF s, all
    <3> QED  BY <3>1, <3>2
  <2>2. \A i, j, k \in Nat : i <= j => k * i <= k * j /\ k * i \in Nat /\ k * j \in Nat
    OBVIOUS
  <2>3. ASSUME NEW t \in Torrent, <<u, t>> \in DOMAIN totals
        PROVE  totals[<<u, t>>].timeActive <= N * seeded[<<u, t>>]
    <3>1. Given(<<u, t>>) + Sum(Time(u, t), Child) <= N * s[t]  BY <2>0 DEF SeedOf
    <3>2. Given(<<u, t>>) \in Nat /\ Sum(Time(u, t), Child) \in Nat  BY <2>0, SumsType
    <3>3. totals[<<u, t>>].timeActive = Given(<<u, t>>) /\ all[t] = seeded[<<u, t>>]
      BY <2>3 DEF Given
    <3> HIDE DEF N, s, all
    <3>4. N * s[t] <= N * all[t] /\ N * s[t] \in Nat /\ N * all[t] \in Nat
      BY <2>0, <2>1, <2>2
    <3> QED  BY <3>1, <3>2, <3>3, <3>4
  <2>4. points[u] <= N * Sum(all, Torrent)
    <3>1. points[u] + Sum(Bonus(u), Child) <= N * Sum(s, Torrent)  BY <2>0 DEF SeedOf
    <3>2. points[u] \in Nat  BY <2>0 DEF TypeOK
    <3>3. Sum(Bonus(u), Child) \in Nat
      <4>1. \A d \in Child : Bonus(u)[d] \in Nat  BY <2>0 DEF Bonus, TypeOK, ChildState
      <4> QED  BY <4>1, ChildAssumption, SumNat
    <3> HIDE DEF N, s, all
    <3>4. Sum(s, Torrent) \in Nat  BY <2>1, TorrentAssumption, SumNat
    <3>5. Sum(all, Torrent) \in Nat  BY <2>1, TorrentAssumption, SumNat
    <3>6. Sum(s, Torrent) <= Sum(all, Torrent)  BY <2>1, TorrentAssumption, SumMono
    <3>7. /\ N * Sum(s, Torrent) <= N * Sum(all, Torrent)
          /\ N * Sum(s, Torrent) \in Nat /\ N * Sum(all, Torrent) \in Nat
      BY <2>0, <2>2, <3>4, <3>5, <3>6
    <3> QED  BY <3>1, <3>2, <3>3, <3>7
  <2> QED  BY <2>3, <2>4
<1> QED  BY <1>1, GroundHolds, SeedHolds, PTL

=============================================================================
