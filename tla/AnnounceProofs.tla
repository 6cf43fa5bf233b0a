--------------------------- MODULE AnnounceProofs ---------------------------
(***************************************************************************)
(* Theorems of Announce for every value of its constants.                  *)
(*                                                                         *)
(* The statements are read twice.  ChildSteps says what a step of child c  *)
(* does to the children: c moves along the control flow of the code, fails *)
(* into the catch block of its statement or dies, and no other child moves *)
(* (Effect).  TableSteps says what it does to the tables (TablesOK,        *)
(* Growth).  The invariants follow from these two and never look into an   *)
(* action again.                                                           *)
(***************************************************************************)
EXTENDS Announce, TLAPS, FiniteSetTheorems

Children == [Child -> ChildState]

\* The control flow of updateClientTorrents, getTorrent and what they call, when
\* no statement fails.
Follows(p, q) ==
  \/ p = "getUserId"     /\ q \in {"userCanLeech", "buildErrorDict"}
  \/ p = "userCanLeech"  /\ q \in {"ipaIsBanned", "buildErrorDict"}
  \/ p = "ipaIsBanned"   /\ q \in {"torrentExists", "buildErrorDict"}
  \/ p = "torrentExists" /\ q \in {"getIpaId", "buildErrorDict"}
  \/ p = "getIpaId"      /\ q \in {"getClientId", "createIpAddress"}
  \/ p = "createIpAddress" /\ q = "getIpaIdAgain"
  \/ p = "getIpaIdAgain" /\ q \in {"getClientId", "buildErrorDict"}
  \/ p = "getClientId"   /\ q \in {"setOldUploadAndDownload", "updateClient", "buildErrorDict"}
  \/ p = "updateClient"  /\ q \in {"getIpaId", "createClient"}
  \/ p = "createClient"  /\ q = "getIpaId"
  \/ p = "setOldUploadAndDownload" /\ q = "newSeedMinutes"
  \/ p = "newSeedMinutes" /\ q = "updateClientTorrents"
  \/ p = "updateClientTorrents" /\ q \in {"createClientTorrent", "totalTimeActive"}
  \/ p = "createClientTorrent" /\ q = "totalTimeActive"
  \/ p = "totalTimeActive" /\ q = "calcBonusPoints"
  \/ p = "calcBonusPoints" /\ q \in {"updateUserBonusPoints", "totalsExist"}
  \/ p = "updateUserBonusPoints" /\ q = "totalsExist"
  \/ p = "totalsExist" /\ q \in {"updateUserTorrentTotals", "createUserTorrentTotals"}
  \/ p \in {"updateUserTorrentTotals", "createUserTorrentTotals"} /\ q = "getTorrentData"
  \/ p = "getTorrentData" /\ q \in {"getPeers", "dead"}
  \/ p = "getPeers" /\ q = "buildDictionary"
  \/ p \in {"buildErrorDict", "buildDictionary"} /\ q = "done"

\* Child x becomes y: its statement succeeds, raises an exception, or it dies.
Succeeds(x, y) ==
  /\ Follows(x.pc, y.pc)
  /\ y.failed = x.failed
  /\ y.reply = IF x.pc = "buildErrorDict" THEN "error"
               ELSE IF x.pc = "buildDictionary" THEN "peers" ELSE x.reply
  /\ y.pc = "ipaIsBanned" => account[x.req.user] = "member"
  /\ y.pc = "torrentExists" => ~Banned(x.req.ip, ipAddress)
  /\ x.pc = "torrentExists" /\ y.pc = "getIpaId" => x.req.torrent \in torrents
  /\ IF y.pc = "setOldUploadAndDownload" THEN y.clientId \in ClientIds(x.req)
     ELSE y.clientId = x.clientId

Fails(x, y) ==
  /\ x.pc \in Statement
  /\ y.pc = Caught(x.pc)
  /\ y.failed = x.failed \cup {x.pc}
  /\ y.reply = x.reply /\ y.clientId = x.clientId

Dies(x, y) ==
  /\ x.pc \notin {"idle"} \cup Ended /\ y.pc = "dead"
  /\ y.failed = x.failed /\ y.reply = x.reply /\ y.clientId = x.clientId

Moves(x, y) ==
  /\ y.req = x.req /\ y.open = x.open
  /\ Succeeds(x, y) \/ Fails(x, y) \/ Dies(x, y)

Effect(c) ==
  /\ child' \in Children
  /\ Moves(child[c], child'[c])
  /\ \A d \in Child \ {c} : child'[d] = child[d]

----------------------------------------------------------------------------
\* One child becomes x: the pattern of every step.
LEMMA OneChild ==
  ASSUME child \in Children, NEW c \in Child, NEW x \in ChildState,
         child' = [child EXCEPT ![c] = x], Moves(child[c], x)
  PROVE  Effect(c)
  BY DEF Children, Effect

\* Goto only moves the program counter, here along the control flow.
LEMMA GotoEffect ==
  ASSUME child \in Children, NEW c \in Child, NEW s \in Pc, Goto(c, s),
         Follows(child[c].pc, s), child[c].pc \notin {"buildErrorDict", "buildDictionary"},
         s = "ipaIsBanned" => account[child[c].req.user] = "member",
         s = "torrentExists" => ~Banned(child[c].req.ip, ipAddress),
         child[c].pc = "torrentExists" /\ s = "getIpaId" => child[c].req.torrent \in torrents,
         s # "setOldUploadAndDownload"
  PROVE  Effect(c)
<1> DEFINE x == [child[c] EXCEPT !.pc = s]
<1>1. child[c] \in ChildState  BY DEF Children
<1>2. x \in ChildState  BY <1>1 DEF ChildState
<1>3. /\ x.pc = s /\ x.req = child[c].req /\ x.open = child[c].open
      /\ x.failed = child[c].failed /\ x.reply = child[c].reply /\ x.clientId = child[c].clientId
  BY <1>1 DEF ChildState
<1>4. child' = [child EXCEPT ![c] = x]  BY DEF Goto
<1> HIDE DEF x
<1>5. Moves(child[c], x)  BY <1>3 DEF Moves, Succeeds
<1> QED  BY <1>2, <1>4, <1>5, OneChild

\* Record leads from the statements of clientTorrents to those of the bonus.
LEMMA RecordEffect ==
  ASSUME child \in Children, NEW c \in Child, NEW R \in SUBSET Nat, Record(c, R),
         child[c].pc \in {"updateClientTorrents", "createClientTorrent"}
  PROVE  Effect(c)
<1> DEFINE x == [child[c] EXCEPT !.pc = "totalTimeActive", !.recorded = R]
<1>1. child[c] \in ChildState  BY DEF Children
<1>2. x \in ChildState  BY <1>1 DEF ChildState, Pc, Statement, BonusStatement
<1>3. /\ x.pc = "totalTimeActive" /\ x.req = child[c].req /\ x.open = child[c].open
      /\ x.failed = child[c].failed /\ x.reply = child[c].reply /\ x.clientId = child[c].clientId
  BY <1>1 DEF ChildState
<1>4. child' = [child EXCEPT ![c] = x]  BY DEF Record
<1> HIDE DEF x
<1>5. Moves(child[c], x)  BY <1>3 DEF Moves, Succeeds, Follows
<1> QED  BY <1>2, <1>4, <1>5, OneChild

\* RefuseAs is Goto with an error message.
LEMMA RefuseAsEffect ==
  ASSUME child \in Children, NEW c \in Child, NEW m \in Message, RefuseAs(c, m),
         child[c].pc \in GateStatement
  PROVE  Effect(c)
<1> DEFINE x == [child[c] EXCEPT !.pc = "buildErrorDict", !.errorMessage = m]
<1>1. child[c] \in ChildState  BY DEF Children
<1>2. x \in ChildState  BY <1>1 DEF ChildState, Pc
<1>3. /\ x.pc = "buildErrorDict" /\ x.req = child[c].req /\ x.open = child[c].open
      /\ x.failed = child[c].failed /\ x.reply = child[c].reply /\ x.clientId = child[c].clientId
  BY <1>1 DEF ChildState
<1>4. child' = [child EXCEPT ![c] = x]  BY DEF RefuseAs
<1> HIDE DEF x
<1>5. Moves(child[c], x)  BY <1>3 DEF Moves, Succeeds, Follows, GateStatement
<1> QED  BY <1>2, <1>4, <1>5, OneChild

\* Every catch block leads to a place in the code.
LEMMA CaughtType == \A s \in Statement : Caught(s) \in Pc
  BY DEF Caught, Pc, Statement, AnswerStatement, TotalsStatement, Ended

\* Raise takes the child to the catch block of its statement.
LEMMA RaiseEffect ==
  ASSUME child \in Children, NEW c \in Child, child[c].pc \in Statement, Raise(c)
  PROVE  Effect(c)
<1> DEFINE x == [child[c] EXCEPT !.pc = Caught(child[c].pc),
                                 !.failed = child[c].failed \cup {child[c].pc}]
<1>1. child[c] \in ChildState  BY DEF Children
<1>2. Caught(child[c].pc) \in Pc  BY CaughtType
<1>3. x \in ChildState  BY <1>1, <1>2 DEF ChildState
<1>4. /\ x.pc = Caught(child[c].pc) /\ x.req = child[c].req /\ x.open = child[c].open
      /\ x.failed = child[c].failed \cup {child[c].pc}
      /\ x.reply = child[c].reply /\ x.clientId = child[c].clientId
  BY <1>1 DEF ChildState
<1>5. child' = [child EXCEPT ![c] = x]  BY DEF Raise
<1> HIDE DEF x
<1>6. Moves(child[c], x)  BY <1>4 DEF Moves, Fails
<1> QED  BY <1>3, <1>5, <1>6, OneChild

\* The rows selected from a table are countable.
LEMMA RowCount ==
  ASSUME NEW S, NEW f \in Seq(S), NEW T \in SUBSET DOMAIN f
  PROVE  Cardinality(T) \in Nat
<1>1. DOMAIN f = 1 .. Len(f) /\ Len(f) \in Nat  OBVIOUS
<1>2. IsFiniteSet(1 .. Len(f))  BY <1>1, FS_Interval
<1>3. IsFiniteSet(T)  BY <1>1, <1>2, FS_Subset
<1> QED  BY <1>3, FS_CardinalityType

\* The increments of updateUserTorrentTotals are 64-bit words.
LEMMA IncrementType ==
  ASSUME NEW a \in Word, NEW b \in Word
  PROVE  Increment(a, b) \in Word
<1>1. (a - b) % W \in 0 .. W - 1  BY WAssumption DEF Word
<1> QED  BY <1>1 DEF Increment, Word

\* What the SELECTs of clientTorrents return.
LEMMA RecordType ==
  ASSUME TypeOK, NEW i \in DOMAIN clientTorrents
  PROVE  /\ clientTorrents[i] \in TorrentRow
         /\ clientTorrents[i].bytes \in Bytes
         /\ now - clientTorrents[i].lastActivity \in Nat
<1>1. clientTorrents[i] \in TorrentRow  BY DEF TypeOK
<1> QED  BY <1>1 DEF TypeOK, TorrentRow

----------------------------------------------------------------------------
\* What a statement of child c does to the children.
LEMMA ExecuteEffect ==
  ASSUME TypeOK, NEW c \in Child, Execute(c)
  PROVE  Effect(c)
<1>0. child \in Children /\ child[c] \in ChildState  BY DEF TypeOK, Children
<1> USE <1>0
<1>1. CASE GetUserId(c)
  BY <1>1, GotoEffect, RefuseAsEffect
     DEF GetUserId, At, Follows, Pc, Statement, GateStatement, Message
<1>2. CASE UserCanLeech(c)
  BY <1>2, GotoEffect, RefuseAsEffect
     DEF UserCanLeech, Refuse, At, Follows, Pc, Statement, GateStatement, Message
<1>3. CASE IpaIsBanned(c)
  BY <1>3, GotoEffect, RefuseAsEffect
     DEF IpaIsBanned, At, Follows, Pc, Statement, GateStatement, Message
<1>4. CASE TorrentExists(c)
  BY <1>4, GotoEffect, RefuseAsEffect
     DEF TorrentExists, At, Follows, Pc, Statement, GateStatement, ClientStatement, Message
<1>5. CASE GetIpaId(c)
  BY <1>5, GotoEffect DEF GetIpaId, At, Follows, Pc, Statement, ClientStatement
<1>6. CASE CreateIpAddress(c)
  BY <1>6, GotoEffect, RaiseEffect
     DEF CreateIpAddress, At, Follows, Pc, Statement, ClientStatement
<1>7. CASE GetIpaIdAgain(c)
  BY <1>7, GotoEffect DEF GetIpaIdAgain, At, Follows, Pc, Statement, ClientStatement
<1>8. CASE GetClientId(c)
  <2>0. child[c].pc = "getClientId"  BY <1>8 DEF GetClientId, At
  <2>1. ASSUME NEW i \in ClientIds(child[c].req),
               child' = [child EXCEPT ![c].pc = "setOldUploadAndDownload", ![c].clientId = i]
        PROVE  Effect(c)
    <3> DEFINE x == [child[c] EXCEPT !.pc = "setOldUploadAndDownload", !.clientId = i]
    <3>1. i \in Nat  BY DEF TypeOK, ClientIds
    <3>2. x \in ChildState  BY <3>1 DEF ChildState, Pc, Statement, ClientStatement
    <3>3. /\ x.pc = "setOldUploadAndDownload" /\ x.clientId = i /\ x.req = child[c].req
          /\ x.open = child[c].open /\ x.failed = child[c].failed /\ x.reply = child[c].reply
      BY DEF ChildState
    <3>4. child' = [child EXCEPT ![c] = x]  BY <2>1
    <3> HIDE DEF x
    <3>5. Moves(child[c], x)  BY <2>0, <3>3 DEF Moves, Succeeds, Follows
    <3> QED  BY <3>2, <3>4, <3>5, OneChild
  <2> QED
    BY <1>8, <2>0, <2>1, GotoEffect
       DEF GetClientId, Refuse, Follows, Pc, Statement, ClientStatement
<1>9. CASE UpdateClient(c)
  <2>0. child[c].pc = "updateClient"  BY <1>9 DEF UpdateClient, At
  <2>1. CASE child' = [child EXCEPT ![c].pc = "getIpaId", ![c].again = TRUE]
    <3> DEFINE x == [child[c] EXCEPT !.pc = "getIpaId", !.again = TRUE]
    <3>1. x \in ChildState  BY DEF ChildState, Pc, Statement, ClientStatement
    <3>2. /\ x.pc = "getIpaId" /\ x.req = child[c].req /\ x.open = child[c].open
          /\ x.failed = child[c].failed /\ x.reply = child[c].reply
          /\ x.clientId = child[c].clientId
      BY DEF ChildState
    <3>3. child' = [child EXCEPT ![c] = x]  BY <2>1
    <3> HIDE DEF x
    <3>4. Moves(child[c], x)  BY <2>0, <3>2 DEF Moves, Succeeds, Follows
    <3> QED  BY <3>1, <3>3, <3>4, OneChild
  <2> QED
    BY <1>9, <2>0, <2>1, GotoEffect, RaiseEffect
       DEF UpdateClient, Follows, Pc, Statement, ClientStatement
<1>10. CASE CreateClient(c)
  <2> DEFINE x == [child[c] EXCEPT !.pc = "getIpaId", !.again = TRUE]
  <2>0. child[c].pc = "createClient"  BY <1>10 DEF CreateClient, At
  <2>1. x \in ChildState  BY DEF ChildState, Pc, Statement, ClientStatement
  <2>2. /\ x.pc = "getIpaId" /\ x.req = child[c].req /\ x.open = child[c].open
        /\ x.failed = child[c].failed /\ x.reply = child[c].reply
        /\ x.clientId = child[c].clientId
    BY DEF ChildState
  <2>3. child' = [child EXCEPT ![c] = x]  BY <1>10 DEF CreateClient
  <2> HIDE DEF x
  <2>4. Moves(child[c], x)  BY <2>0, <2>2 DEF Moves, Succeeds, Follows
  <2> QED  BY <2>1, <2>3, <2>4, OneChild
<1>11. CASE SetOldUploadAndDownload(c)
  <2>0. child[c].pc = "setOldUploadAndDownload"  BY <1>11 DEF SetOldUploadAndDownload, At
  <2>1. ASSUME NEW i \in DOMAIN clientTorrents,
               child' = [child EXCEPT ![c].pc = "newSeedMinutes",
                                      ![c].old = clientTorrents[i].bytes]
        PROVE  Effect(c)
    <3> DEFINE x == [child[c] EXCEPT !.pc = "newSeedMinutes", !.old = clientTorrents[i].bytes]
    <3>1. x \in ChildState  BY RecordType DEF ChildState, Pc, Statement, UpdateStatement
    <3>2. /\ x.pc = "newSeedMinutes" /\ x.req = child[c].req /\ x.open = child[c].open
          /\ x.failed = child[c].failed /\ x.reply = child[c].reply
          /\ x.clientId = child[c].clientId
      BY DEF ChildState
    <3>3. child' = [child EXCEPT ![c] = x]  BY <2>1
    <3> HIDE DEF x
    <3>4. Moves(child[c], x)  BY <2>0, <3>2 DEF Moves, Succeeds, Follows
    <3> QED  BY <3>1, <3>3, <3>4, OneChild
  <2> QED
    BY <1>11, <2>0, <2>1, GotoEffect
       DEF SetOldUploadAndDownload, TorrentClientRows, Follows, Pc, Statement, UpdateStatement
<1>12. CASE NewSeedMinutes(c)
  <2>0. child[c].pc = "newSeedMinutes"  BY <1>12 DEF NewSeedMinutes, At
  <2>1. ASSUME NEW m \in Nat,
               child' = [child EXCEPT ![c].pc = "updateClientTorrents", ![c].minutes = m]
        PROVE  Effect(c)
    <3> DEFINE x == [child[c] EXCEPT !.pc = "updateClientTorrents", !.minutes = m]
    <3>1. x \in ChildState  BY DEF ChildState, Pc, Statement, UpdateStatement
    <3>2. /\ x.pc = "updateClientTorrents" /\ x.req = child[c].req /\ x.open = child[c].open
          /\ x.failed = child[c].failed /\ x.reply = child[c].reply
          /\ x.clientId = child[c].clientId
      BY DEF ChildState
    <3>3. child' = [child EXCEPT ![c] = x]  BY <2>1
    <3> HIDE DEF x
    <3>4. Moves(child[c], x)  BY <2>0, <3>2 DEF Moves, Succeeds, Follows
    <3> QED  BY <3>1, <3>3, <3>4, OneChild
  <2> QED
    BY <1>12, <2>0, <2>1, RecordType, GotoEffect
       DEF NewSeedMinutes, TorrentClientRows, Follows, Pc, Statement, UpdateStatement
<1>13. CASE UpdateClientTorrents(c)
  <2>0. child[c].pc = "updateClientTorrents"  BY <1>13 DEF UpdateClientTorrents, At
  <2>1. \A t, u : UserTorrentRows(t, u) \in SUBSET Nat  BY DEF TypeOK, UserTorrentRows
  <2>2. CASE \E R \in SUBSET Nat : Record(c, R)
    BY <2>0, <2>2, RecordEffect
  <2>3. CASE Goto(c, "createClientTorrent")
    BY <2>0, <2>3, GotoEffect DEF Follows, Pc, Statement
  <2>4. CASE Raise(c)
    BY <2>0, <2>4, RaiseEffect DEF Statement, UpdateStatement
  <2> QED  BY <1>13, <2>1, <2>2, <2>3, <2>4 DEF UpdateClientTorrents
<1>14. CASE CreateClientTorrent(c)
  <2>0. child[c].pc = "createClientTorrent"  BY <1>14 DEF CreateClientTorrent, At
  <2>1. {Len(clientTorrents) + 1} \in SUBSET Nat  BY DEF TypeOK
  <2>2. CASE Record(c, {Len(clientTorrents) + 1})
    BY <2>0, <2>1, <2>2, RecordEffect
  <2>3. CASE Raise(c)
    BY <2>0, <2>3, RaiseEffect DEF Statement
  <2> QED  BY <1>14, <2>2, <2>3 DEF CreateClientTorrent
<1>15. CASE CalcBonusPoints(c)
  BY <1>15, GotoEffect
     DEF CalcBonusPoints, At, Follows, Pc, Statement, BonusStatement, TotalsStatement
<1>16. CASE UpdateUserBonusPoints(c)
  BY <1>16, GotoEffect DEF UpdateUserBonusPoints, At, Follows, Pc, Statement, TotalsStatement
<1>17. CASE TotalsExist(c)
  BY <1>17, GotoEffect DEF TotalsExist, At, Follows, Pc, Statement, TotalsStatement
<1>18. CASE UpdateUserTorrentTotals(c)
  <2> DEFINE inc == [n \in Counter |-> Increment(child[c].req.bytes[n], child[c].old[n])]
             x   == [child[c] EXCEPT !.pc = "getTorrentData", !.credit = inc]
  <2>0. child[c].pc = "updateUserTorrentTotals"  BY <1>18 DEF UpdateUserTorrentTotals, At
  <2>1. inc \in Bytes  BY IncrementType DEF ChildState, RequestType, Bytes
  <2>2. x \in ChildState  BY <2>1 DEF ChildState, Pc, Statement, AnswerStatement
  <2>3. /\ x.pc = "getTorrentData" /\ x.req = child[c].req /\ x.open = child[c].open
        /\ x.failed = child[c].failed /\ x.reply = child[c].reply
        /\ x.clientId = child[c].clientId
    BY DEF ChildState
  <2>4. Moves(child[c], x)  BY <2>0, <2>3 DEF Moves, Succeeds, Follows
  <2>5. CASE child' = [child EXCEPT ![c].pc = "getTorrentData", ![c].credit = inc]
    <3>1. child' = [child EXCEPT ![c] = x]  BY <2>5
    <3> QED  BY <2>2, <2>4, <3>1, OneChild
  <2>6. CASE Raise(c)
    BY <2>0, <2>6, RaiseEffect DEF Statement, TotalsStatement
  <2> QED  BY <1>18, <2>5, <2>6 DEF UpdateUserTorrentTotals
<1>19. CASE CreateUserTorrentTotals(c)
  <2>0. child[c].pc = "createUserTorrentTotals"  BY <1>19 DEF CreateUserTorrentTotals, At
  <2>1. CASE child' = [child EXCEPT ![c].pc = "getTorrentData",
                                    ![c].credit = child[c].req.bytes]
    <3> DEFINE x == [child[c] EXCEPT !.pc = "getTorrentData", !.credit = child[c].req.bytes]
    <3>1. x \in ChildState  BY DEF ChildState, RequestType, Pc, Statement, AnswerStatement
    <3>2. /\ x.pc = "getTorrentData" /\ x.req = child[c].req /\ x.open = child[c].open
          /\ x.failed = child[c].failed /\ x.reply = child[c].reply
          /\ x.clientId = child[c].clientId
      BY DEF ChildState
    <3>3. child' = [child EXCEPT ![c] = x]  BY <2>1
    <3> HIDE DEF x
    <3>4. Moves(child[c], x)  BY <2>0, <3>2 DEF Moves, Succeeds, Follows
    <3> QED  BY <3>1, <3>3, <3>4, OneChild
  <2> QED
    BY <1>19, <2>0, <2>1, RaiseEffect DEF CreateUserTorrentTotals, Statement, TotalsStatement
<1>20. CASE GetTorrentData(c)
  <2>0. child[c].pc = "getTorrentData"  BY <1>20 DEF GetTorrentData, At
  <2>1. ASSUME NEW m \in Nat, NEW n \in Nat,
               child' = [child EXCEPT ![c].pc = "getPeers", ![c].seeders = m, ![c].leechers = n]
        PROVE  Effect(c)
    <3> DEFINE x == [child[c] EXCEPT !.pc = "getPeers", !.seeders = m, !.leechers = n]
    <3>1. x \in ChildState  BY DEF ChildState, Pc, Statement, AnswerStatement
    <3>2. /\ x.pc = "getPeers" /\ x.req = child[c].req /\ x.open = child[c].open
          /\ x.failed = child[c].failed /\ x.reply = child[c].reply
          /\ x.clientId = child[c].clientId
      BY DEF ChildState
    <3>3. child' = [child EXCEPT ![c] = x]  BY <2>1
    <3> HIDE DEF x
    <3>4. Moves(child[c], x)  BY <2>0, <3>2 DEF Moves, Succeeds, Follows
    <3> QED  BY <3>1, <3>3, <3>4, OneChild
  <2>2. \A T \in SUBSET DOMAIN clientTorrents : Cardinality(T) \in Nat
    BY RowCount DEF TypeOK
  <2>3. CASE Goto(c, "dead")
    BY <2>0, <2>3, GotoEffect DEF Follows, Pc, Ended
  <2> QED
    BY <1>20, <2>1, <2>2, <2>3 DEF GetTorrentData
<1>21. CASE GetPeers(c)
  <2> DEFINE P == {i \in DOMAIN clientTorrents :
                     /\ child[c].req.torrent \in torrents
                     /\ clientTorrents[i].torrent = child[c].req.torrent /\ Fresh(i)}
             x == [child[c] EXCEPT !.pc = "buildDictionary", !.peers = P]
  <2>0. child[c].pc = "getPeers"  BY <1>21 DEF GetPeers, At
  <2>1. P \in SUBSET Nat  BY DEF TypeOK
  <2>2. x \in ChildState  BY <2>1 DEF ChildState, Pc
  <2>3. /\ x.pc = "buildDictionary" /\ x.req = child[c].req /\ x.open = child[c].open
        /\ x.failed = child[c].failed /\ x.reply = child[c].reply
        /\ x.clientId = child[c].clientId
    BY DEF ChildState
  <2>4. child' = [child EXCEPT ![c] = x]  BY <1>21 DEF GetPeers
  <2> HIDE DEF x
  <2>5. Moves(child[c], x)  BY <2>0, <2>3 DEF Moves, Succeeds, Follows
  <2> QED  BY <2>2, <2>4, <2>5, OneChild
<1>22. CASE BuildErrorDict(c)
  <2> DEFINE x == [child[c] EXCEPT !.pc = "done", !.reply = "error"]
  <2>0. child[c].pc = "buildErrorDict"  BY <1>22 DEF BuildErrorDict, At
  <2>1. x \in ChildState  BY DEF ChildState, Pc, Ended
  <2>2. /\ x.pc = "done" /\ x.reply = "error" /\ x.req = child[c].req
        /\ x.open = child[c].open /\ x.failed = child[c].failed
        /\ x.clientId = child[c].clientId
    BY DEF ChildState
  <2>3. child' = [child EXCEPT ![c] = x]  BY <1>22 DEF BuildErrorDict
  <2> HIDE DEF x
  <2>4. Moves(child[c], x)  BY <2>0, <2>2 DEF Moves, Succeeds, Follows
  <2> QED  BY <2>1, <2>3, <2>4, OneChild
<1>23. CASE BuildDictionary(c)
  <2> DEFINE x == [child[c] EXCEPT !.pc = "done", !.reply = "peers"]
  <2>0. child[c].pc = "buildDictionary"  BY <1>23 DEF BuildDictionary, At
  <2>1. x \in ChildState  BY DEF ChildState, Pc, Ended
  <2>2. /\ x.pc = "done" /\ x.reply = "peers" /\ x.req = child[c].req
        /\ x.open = child[c].open /\ x.failed = child[c].failed
        /\ x.clientId = child[c].clientId
    BY DEF ChildState
  <2>3. child' = [child EXCEPT ![c] = x]  BY <1>23 DEF BuildDictionary
  <2> HIDE DEF x
  <2>4. Moves(child[c], x)  BY <2>0, <2>2 DEF Moves, Succeeds, Follows
  <2> QED  BY <2>1, <2>3, <2>4, OneChild
<1>24. CASE TotalTimeActive(c)
  BY <1>24, GotoEffect DEF TotalTimeActive, At, Follows, Pc, Statement, BonusStatement
<1> QED
  BY <1>1, <1>2, <1>3, <1>4, <1>5, <1>6, <1>7, <1>8, <1>9, <1>10, <1>11, <1>12, <1>13,
     <1>14, <1>15, <1>16, <1>17, <1>18, <1>19, <1>20, <1>21, <1>22, <1>23, <1>24 DEF Execute

\* A step of child c: a statement, an exception in it, or its death.
ChildStep(c) == Execute(c) \/ Throw(c) \/ Die(c)

LEMMA ChildStepEffect ==
  ASSUME TypeOK, NEW c \in Child, ChildStep(c)
  PROVE  Effect(c)
<1>0. child \in Children /\ child[c] \in ChildState  BY DEF TypeOK, Children
<1>1. CASE Execute(c)  BY <1>1, ExecuteEffect
<1>2. CASE Throw(c)  BY <1>0, <1>2, RaiseEffect DEF Throw
<1>3. CASE Die(c)
  <2> DEFINE x == [child[c] EXCEPT !.pc = "dead"]
  <2>1. x \in ChildState  BY <1>0 DEF ChildState, Pc, Ended
  <2>2. /\ x.pc = "dead" /\ x.req = child[c].req /\ x.open = child[c].open
        /\ x.failed = child[c].failed /\ x.reply = child[c].reply
        /\ x.clientId = child[c].clientId
    BY <1>0 DEF ChildState
  <2>3. child' = [child EXCEPT ![c] = x]  BY <1>3 DEF Die, Goto
  <2>4. child[c].pc \notin {"idle"} \cup Ended  BY <1>3 DEF Die, Live
  <2> HIDE DEF x
  <2>5. Moves(child[c], x)  BY <2>2, <2>4 DEF Moves, Dies
  <2> QED  BY <1>0, <2>1, <2>3, <2>5, OneChild
<1> QED  BY <1>1, <1>2, <1>3 DEF ChildStep

----------------------------------------------------------------------------
\* What a statement does to the tables.

TablesOK ==
  /\ account \in [User -> {"absent", "barred", "member"}]
  /\ torrents \subseteq Torrent
  /\ DOMAIN ipAddress \subseteq Ip /\ ipAddress \in [DOMAIN ipAddress -> IpRow]
  /\ client \in Seq(ClientRow)
  /\ clientTorrents \in Seq(TorrentRow)
  /\ \A i \in DOMAIN clientTorrents : clientTorrents[i].lastActivity <= now
  /\ DOMAIN totals \subseteq User \X Torrent /\ totals \in [DOMAIN totals -> TotalsRow]
  /\ points \in [User -> Nat]
  /\ {now, faults, web} \subseteq Nat

LEMMA TypeSplit == TypeOK <=> child \in Children /\ TablesOK
  BY DEF TypeOK, TablesOK, Children

\* No client is deleted, and its address and port never change.
ClientsKept ==
  /\ DOMAIN client \subseteq DOMAIN client'
  /\ \A i \in DOMAIN client : client'[i].ip = client[i].ip /\ client'[i].port = client[i].port

\* No record is deleted, and its torrent never changes.
RecordsKept ==
  /\ DOMAIN clientTorrents \subseteq DOMAIN clientTorrents'
  /\ \A i \in DOMAIN clientTorrents : clientTorrents'[i].torrent = clientTorrents[i].torrent

\* What TotalsMonotone says of one step.
TotalsGrow ==
  \A k \in DOMAIN totals :
    /\ k \in DOMAIN totals'
    /\ \A n \in Counter : totals'[k].bytes[n] >= totals[k].bytes[n]
    /\ totals'[k].timeActive >= totals[k].timeActive

\* A step of child c that creates totals is a step of createUserTorrentTotals.
TotalsCreated(c) ==
  \A k \in DOMAIN totals' :
    k \in DOMAIN totals \/ (child[c].pc = "createUserTorrentTotals" /\ k[2] = child[c].req.torrent)

\* Rewriting the rows of a table in place keeps its type.
LEMMA SeqMap ==
  ASSUME NEW S, NEW f \in Seq(S), NEW g, DOMAIN g = DOMAIN f, g = [i \in DOMAIN f |-> g[i]],
         \A i \in DOMAIN f : g[i] \in S
  PROVE  g \in Seq(S)
<1>1. DOMAIN f = 1 .. Len(f) /\ Len(f) \in Nat  OBVIOUS
<1>2. g \in [1 .. Len(f) -> S]  BY <1>1
<1> QED  BY <1>1, <1>2

\* createIpAddress adds an address that is not banned.
LEMMA IpStep ==
  ASSUME TypeOK, NEW c \in Child, CreateIpAddress(c)
  PROVE  /\ DOMAIN ipAddress' \subseteq Ip /\ ipAddress' \in [DOMAIN ipAddress' -> IpRow]
         /\ \A ip \in Ip : Banned(ip, ipAddress') <=> Banned(ip, ipAddress)
<1>1. child[c].req.ip \in Ip /\ child[c].req.user \in User
  BY DEF TypeOK, ChildState, RequestType
<1>2. CASE ipAddress' = ipAddress  BY <1>2 DEF TypeOK
<1>3. CASE /\ child[c].req.ip \notin DOMAIN ipAddress
           /\ ipAddress' = Put(ipAddress, child[c].req.ip,
                               [user |-> child[c].req.user, isBanned |-> FALSE])
  BY <1>1, <1>3 DEF TypeOK, Put, IpRow, Banned
<1> QED  BY <1>2, <1>3 DEF CreateIpAddress

\* updateClient rewrites peer ids only, createClient appends.
LEMMA ClientStep ==
  ASSUME TypeOK, NEW c \in Child, UpdateClient(c) \/ CreateClient(c)
  PROVE  client' \in Seq(ClientRow) /\ ClientsKept
<1>1. /\ child[c].req.ip \in Ip /\ child[c].req.port \in Port /\ child[c].req.peer \in PeerId
      /\ client \in Seq(ClientRow)
  BY DEF TypeOK, ChildState, RequestType
<1>2. CASE client' = client  BY <1>1, <1>2 DEF ClientsKept
<1>3. CASE \E T : client' = [i \in DOMAIN client |->
                 IF i \in T THEN [client[i] EXCEPT !.peer = child[c].req.peer] ELSE client[i]]
  <2>1. PICK T : client' = [i \in DOMAIN client |->
                 IF i \in T THEN [client[i] EXCEPT !.peer = child[c].req.peer] ELSE client[i]]
    BY <1>3
  <2>2. \A i \in DOMAIN client : client[i] \in ClientRow  BY <1>1
  <2>3. \A i \in DOMAIN client : /\ client'[i] \in ClientRow
                                 /\ client'[i].ip = client[i].ip /\ client'[i].port = client[i].port
    BY <1>1, <2>1, <2>2 DEF ClientRow
  <2>4. DOMAIN client' = DOMAIN client /\ client' = [i \in DOMAIN client |-> client'[i]]
    BY <2>1
  <2> QED  BY <1>1, <2>3, <2>4, SeqMap DEF ClientsKept
<1>4. CASE client' = Append(client, [peer |-> child[c].req.peer, ip |-> child[c].req.ip,
                                     port |-> child[c].req.port])
  BY <1>1, <1>4 DEF ClientsKept, ClientRow
<1> QED  BY <1>2, <1>3, <1>4 DEF UpdateClient, CreateClient

\* What updateClientTorrents and createClientTorrent write is a record.
LEMMA AnnouncedType ==
  ASSUME TypeOK, NEW c \in Child, NEW active \in 0 .. 1
  PROVE  /\ Announced(c, active) \in TorrentRow
         /\ Announced(c, active).torrent = child[c].req.torrent
         /\ Announced(c, active).lastActivity = now
  BY DEF TypeOK, Announced, TorrentRow, ChildState, RequestType

\* Both keep every record, and lead on only with the child's own for the
\* announced torrent.
LEMMA RecordStep ==
  ASSUME TypeOK, NEW c \in Child, UpdateClientTorrents(c) \/ CreateClientTorrent(c)
  PROVE  /\ clientTorrents' \in Seq(TorrentRow)
         /\ \A i \in DOMAIN clientTorrents' : clientTorrents'[i].lastActivity <= now
         /\ RecordsKept
         /\ \/ \E i \in child'[c].recorded :
                 i \in DOMAIN clientTorrents' /\ clientTorrents'[i].torrent = child[c].req.torrent
            \/ child'[c].pc \in {"createClientTorrent", "getTorrentData", "buildErrorDict"}
<1> DEFINE t == child[c].req.torrent
<1>1. /\ clientTorrents \in Seq(TorrentRow) /\ now \in Nat
      /\ \A i \in DOMAIN clientTorrents : clientTorrents[i] \in TorrentRow
      /\ \A i \in DOMAIN clientTorrents : clientTorrents[i].lastActivity <= now
      /\ child \in Children /\ child[c] \in ChildState
  BY DEF TypeOK, Children
<1>2. CASE clientTorrents' = clientTorrents /\ (Goto(c, "createClientTorrent") \/ Raise(c))
  <2>1. child[c].pc \in {"updateClientTorrents", "createClientTorrent"}
    BY DEF UpdateClientTorrents, CreateClientTorrent, At
  <2>2. Caught(child[c].pc) \in {"getTorrentData", "buildErrorDict"}
    BY <2>1 DEF Caught, UpdateStatement, BonusStatement
  <2>3. child'[c].pc \in {"createClientTorrent", "getTorrentData", "buildErrorDict"}
    BY <1>1, <1>2, <2>2 DEF Goto, Raise, Children, ChildState
  <2> QED  BY <1>1, <1>2, <2>3 DEF RecordsKept
<1>0. ASSUME NEW R, Record(c, R) PROVE child'[c].recorded = R
  BY <1>0, <1>1 DEF Record, Children, ChildState
<1>3. CASE \E a \in 0 .. 1, T \in SUBSET DOMAIN clientTorrents :
             /\ Record(c, T)
             /\ T # {} /\ \A i \in T : clientTorrents[i].torrent = t
             /\ clientTorrents' = [i \in DOMAIN clientTorrents |->
                                     IF i \in T THEN Announced(c, a) ELSE clientTorrents[i]]
  <2>1. PICK a \in 0 .. 1, T \in SUBSET DOMAIN clientTorrents :
             /\ Record(c, T)
             /\ T # {} /\ \A i \in T : clientTorrents[i].torrent = t
             /\ clientTorrents' = [i \in DOMAIN clientTorrents |->
                                     IF i \in T THEN Announced(c, a) ELSE clientTorrents[i]]
    BY <1>3
  <2>2. \A i \in DOMAIN clientTorrents : /\ clientTorrents'[i] \in TorrentRow
                                         /\ clientTorrents'[i].torrent = clientTorrents[i].torrent
                                         /\ clientTorrents'[i].lastActivity <= now
    BY <1>1, <2>1, AnnouncedType
  <2>3. /\ DOMAIN clientTorrents' = DOMAIN clientTorrents
        /\ clientTorrents' = [i \in DOMAIN clientTorrents |-> clientTorrents'[i]]
    BY <2>1
  <2>4. PICK i \in T : TRUE  BY <2>1
  <2>5. /\ i \in DOMAIN clientTorrents' /\ clientTorrents'[i].torrent = t
        /\ i \in child'[c].recorded
    BY <1>0, <2>1, <2>2, <2>3, <2>4
  <2> QED  BY <1>1, <2>2, <2>3, <2>5, SeqMap DEF RecordsKept
<1>4. CASE /\ Record(c, {Len(clientTorrents) + 1})
           /\ clientTorrents' = Append(clientTorrents, Announced(c, DefaultActive))
  <2> DEFINE r == Announced(c, DefaultActive)
  <2>1. r \in TorrentRow /\ r.torrent = t /\ r.lastActivity = now
    BY AnnouncedType, SchemaAssumption
  <2> HIDE DEF r
  <2>2. clientTorrents' = Append(clientTorrents, r)  BY <1>4 DEF r
  <2>3. /\ DOMAIN clientTorrents = 1 .. Len(clientTorrents) /\ Len(clientTorrents) \in Nat
        /\ DOMAIN clientTorrents' = 1 .. Len(clientTorrents) + 1
        /\ clientTorrents' \in Seq(TorrentRow)
        /\ clientTorrents'[Len(clientTorrents) + 1] = r
        /\ \A i \in 1 .. Len(clientTorrents) : clientTorrents'[i] = clientTorrents[i]
    BY <1>1, <2>1, <2>2
  <2>4. \A i \in DOMAIN clientTorrents' : clientTorrents'[i].lastActivity <= now
    BY <1>1, <2>1, <2>3
  <2>5. RecordsKept  BY <2>3 DEF RecordsKept
  <2>6. /\ Len(clientTorrents) + 1 \in DOMAIN clientTorrents'
        /\ Len(clientTorrents) + 1 \in child'[c].recorded
    BY <1>0, <1>4, <2>3
  <2> QED  BY <2>1, <2>3, <2>4, <2>5, <2>6
<1>5. CASE UpdateClientTorrents(c)
  <2>1. \A T : T = UserTorrentRows(t, child[c].req.user) =>
          T \in SUBSET DOMAIN clientTorrents /\ \A i \in T : clientTorrents[i].torrent = t
    BY DEF UserTorrentRows
  <2> QED  BY <1>2, <1>3, <1>5, <2>1 DEF UpdateClientTorrents
<1> QED  BY <1>2, <1>4, <1>5 DEF CreateClientTorrent

\* Totals only grow, and only createUserTorrentTotals adds a row.
LEMMA TotalsStep ==
  ASSUME TypeOK, NEW c \in Child,
         UpdateUserTorrentTotals(c) \/ CreateUserTorrentTotals(c)
  PROVE  /\ DOMAIN totals' \subseteq User \X Torrent /\ totals' \in [DOMAIN totals' -> TotalsRow]
         /\ TotalsGrow
         /\ TotalsCreated(c)
<1> DEFINE k == TotalsKey(c)
<1>1. child[c] \in ChildState /\ k \in User \X Torrent /\ k[2] = child[c].req.torrent
      /\ child[c].minutes \in Nat /\ child[c].req.bytes \in Bytes
  BY DEF TypeOK, ChildState, RequestType, TotalsKey
<1>2. \A j \in DOMAIN totals : /\ totals[j].timeActive \in Nat /\ totals[j].bytes \in Bytes
                               /\ \A n \in Counter : totals[j].bytes[n] \in Word
  BY DEF TypeOK, TotalsRow, Bytes
<1>3. Word \subseteq Nat  BY WAssumption DEF Word
<1>4. CASE totals' = totals
  BY <1>2, <1>3, <1>4 DEF TypeOK, TotalsGrow, TotalsCreated
<1>5. CASE UpdateUserTorrentTotals(c) /\ totals' # totals
  <2> DEFINE inc == [n \in Counter |-> Increment(child[c].req.bytes[n], child[c].old[n])]
             sum == [n \in Counter |-> totals[k].bytes[n] + inc[n]]
             new == [bytes |-> sum, timeActive |-> totals[k].timeActive + child[c].minutes]
  <2>1. sum \in Bytes /\ totals' = [totals EXCEPT ![k] = new]
    BY <1>5 DEF UpdateUserTorrentTotals
  <2>2. k \in DOMAIN totals  BY <1>5, <2>1 DEF TypeOK
  <2>3. \A n \in Counter : inc[n] \in Word
    BY <1>1, IncrementType DEF ChildState, RequestType, Bytes
  <2>4. \A n \in Counter : sum[n] >= totals[k].bytes[n]
    <3> SUFFICES ASSUME NEW n \in Counter PROVE sum[n] >= totals[k].bytes[n]
      OBVIOUS
    <3>1. inc[n] \in Nat  BY <1>3, <2>3
    <3>2. totals[k].bytes[n] \in Nat  BY <1>2, <1>3, <2>2
    <3>3. sum[n] = totals[k].bytes[n] + inc[n]  OBVIOUS
    <3> HIDE DEF sum, inc, k
    <3> QED  BY <3>1, <3>2, <3>3
  <2>5. new.bytes = sum /\ new.timeActive = totals[k].timeActive + child[c].minutes
        /\ new \in TotalsRow
    BY <1>1, <1>2, <2>1, <2>2 DEF TotalsRow
  <2> HIDE DEF sum, inc, new
  <2>6. /\ DOMAIN totals' = DOMAIN totals /\ totals'[k] = new
        /\ \A j \in DOMAIN totals : j # k => totals'[j] = totals[j]
        /\ totals' \in [DOMAIN totals' -> TotalsRow]
    BY <2>1, <2>2, <2>5 DEF TypeOK
  <2>7. TotalsGrow
    BY <1>1, <1>2, <1>3, <2>2, <2>4, <2>5, <2>6 DEF TotalsGrow
  <2> QED  BY <2>6, <2>7 DEF TypeOK, TotalsCreated
<1>6. CASE CreateUserTorrentTotals(c) /\ totals' # totals
  <2> DEFINE new == [bytes |-> child[c].req.bytes, timeActive |-> 0]
  <2>1. k \notin DOMAIN totals /\ totals' = Put(totals, k, new)
        /\ child[c].pc = "createUserTorrentTotals"
    BY <1>6 DEF CreateUserTorrentTotals, At
  <2>2. new \in TotalsRow  BY <1>1 DEF TotalsRow
  <2> HIDE DEF new, k
  <2>3. /\ DOMAIN totals' = DOMAIN totals \cup {k}
        /\ \A j \in DOMAIN totals : totals'[j] = totals[j]
        /\ totals' \in [DOMAIN totals' -> TotalsRow]
    BY <2>1, <2>2 DEF TypeOK, Put
  <2> QED  BY <1>1, <1>2, <1>3, <2>1, <2>3 DEF TypeOK, TotalsGrow, TotalsCreated
<1> QED  BY <1>4, <1>5, <1>6
\* The statements that write.
Writes(c) ==
  \/ CreateIpAddress(c) \/ UpdateClient(c) \/ CreateClient(c)
  \/ UpdateClientTorrents(c) \/ CreateClientTorrent(c) \/ UpdateUserBonusPoints(c)
  \/ UpdateUserTorrentTotals(c) \/ CreateUserTorrentTotals(c)

LEMMA OthersRead ==
  ASSUME NEW c \in Child, Execute(c), ~Writes(c)
  PROVE  UNCHANGED <<site, rows, now, faults>>
  BY DEF Execute, Writes, GetUserId, UserCanLeech, IpaIsBanned, TorrentExists, GetIpaId,
         GetIpaIdAgain, GetClientId, SetOldUploadAndDownload, NewSeedMinutes, TotalTimeActive,
         CalcBonusPoints, TotalsExist, GetTorrentData, GetPeers, BuildErrorDict, BuildDictionary

\* What a step of child c does to the tables: types are kept, nothing is deleted
\* and no ban changes.
TableEffect(c) ==
  /\ TablesOK'
  /\ account' = account /\ torrents' = torrents
  /\ \A ip \in Ip : Banned(ip, ipAddress') <=> Banned(ip, ipAddress)
  /\ ClientsKept /\ RecordsKept /\ TotalsGrow /\ TotalsCreated(c)

LEMMA NoTableStep ==
  ASSUME TypeOK, NEW c \in Child, UNCHANGED rows, account' = account, torrents' = torrents,
         now' = now, web' = web, faults' \in Nat
  PROVE  TableEffect(c)
<1>1. TotalsGrow
  <2>1. \A k \in DOMAIN totals : /\ totals[k].timeActive \in Nat
                                 /\ \A n \in Counter : totals[k].bytes[n] \in Nat
    BY WAssumption DEF TypeOK, TotalsRow, Bytes, Word
  <2>2. totals' = totals  BY DEF rows
  <2> QED  BY <2>1, <2>2 DEF TotalsGrow
<1> QED
  BY <1>1 DEF TypeOK, TablesOK, TableEffect, ClientsKept, RecordsKept, TotalsCreated, rows

LEMMA ChildStepTables ==
  ASSUME TypeOK, NEW c \in Child, ChildStep(c)
  PROVE  TableEffect(c)
<1>0. TablesOK  BY TypeSplit
<1>1. CASE Execute(c) /\ ~Writes(c)
  <2>1. UNCHANGED <<site, rows, now, faults>>  BY <1>1, OthersRead
  <2> QED  BY <2>1, NoTableStep DEF TypeOK, site
<1>2. CASE Throw(c) \/ Die(c)
  <2>1. UNCHANGED rows /\ account' = account /\ torrents' = torrents /\ now' = now /\ web' = web
    BY <1>2 DEF Throw, Die, site
  <2>2. faults' \in Nat  BY <1>2 DEF Throw, Die, TypeOK
  <2> QED  BY <2>1, <2>2, NoTableStep
<1>3. TotalsGrow \/ totals' # totals
  BY WAssumption DEF TypeOK, TotalsRow, Bytes, Word, TotalsGrow
<1>4. CASE CreateIpAddress(c)
  BY <1>0, <1>3, <1>4, IpStep
     DEF CreateIpAddress, TablesOK, TableEffect, site, ClientsKept, RecordsKept, TotalsCreated
<1>5. CASE UpdateClient(c) \/ CreateClient(c)
  BY <1>0, <1>3, <1>5, ClientStep
     DEF UpdateClient, CreateClient, TablesOK, TableEffect, site, RecordsKept, TotalsCreated
<1>6. CASE UpdateClientTorrents(c) \/ CreateClientTorrent(c)
  BY <1>0, <1>3, <1>6, RecordStep
     DEF UpdateClientTorrents, CreateClientTorrent, TablesOK, TableEffect, site, ClientsKept,
         TotalsCreated
<1>7. CASE UpdateUserBonusPoints(c)
  <2>1. child[c].minutes \in Nat /\ child[c].req.user \in User
    BY DEF TypeOK, ChildState, RequestType
  <2>2. points' \in [User -> Nat]
    BY <1>0, <1>7, <2>1 DEF UpdateUserBonusPoints, TablesOK
  <2> QED
    BY <1>0, <1>3, <1>7, <2>2
       DEF UpdateUserBonusPoints, TablesOK, TableEffect, site, ClientsKept, RecordsKept,
           TotalsCreated
<1>8. CASE UpdateUserTorrentTotals(c) \/ CreateUserTorrentTotals(c)
  BY <1>0, <1>8, TotalsStep
     DEF UpdateUserTorrentTotals, CreateUserTorrentTotals, TablesOK, TableEffect, site,
         ClientsKept, RecordsKept
<1> QED  BY <1>1, <1>2, <1>4, <1>5, <1>6, <1>7, <1>8 DEF ChildStep, Writes

----------------------------------------------------------------------------
\* Type correctness.

LEMMA IdleTyped == Idle \in ChildState
<1>1. (CHOOSE r \in Request : TRUE) \in RequestType  BY RequestAssumption
<1>2. Zero \in Bytes  BY WAssumption DEF Zero, Bytes, Word
<1> QED  BY <1>1, <1>2 DEF Idle, ChildState, Pc, Message

LEMMA IdleFields == Idle.pc = "idle" /\ Idle.reply = "none" /\ Idle.failed = {} /\ Idle.clientId = 0
                    /\ Idle.recorded = {}
  BY DEF Idle

\* The history variable is the only thing that the web site changes in a child.
LEMMA WatchEffect ==
  ASSUME child \in Children, NEW a, NEW h, NEW i, Watch(a, h, i)
  PROVE  /\ child' \in Children
         /\ \A d \in Child :
              /\ child'[d].pc = child[d].pc /\ child'[d].req = child[d].req
              /\ child'[d].failed = child[d].failed /\ child'[d].reply = child[d].reply
              /\ child'[d].clientId = child[d].clientId
              /\ child'[d].recorded = child[d].recorded
              /\ child'[d].open = IF Live(d)
                                  THEN child[d].open \cup OpenGates(child[d].req, a, h, i)
                                  ELSE child[d].open
<1>1. ASSUME NEW d \in Child
      PROVE  /\ child'[d] \in ChildState
             /\ child'[d].pc = child[d].pc /\ child'[d].req = child[d].req
             /\ child'[d].failed = child[d].failed /\ child'[d].reply = child[d].reply
             /\ child'[d].clientId = child[d].clientId
             /\ child'[d].recorded = child[d].recorded
             /\ child'[d].open = IF Live(d)
                                 THEN child[d].open \cup OpenGates(child[d].req, a, h, i)
                                 ELSE child[d].open
  <2> DEFINE open == child[d].open \cup OpenGates(child[d].req, a, h, i)
  <2>1. child[d] \in ChildState  BY DEF Children
  <2>2. open \in SUBSET Gate  BY <2>1 DEF ChildState, OpenGates
  <2>3. child'[d] = IF Live(d) THEN [child[d] EXCEPT !.open = open] ELSE child[d]
    BY DEF Watch
  <2> HIDE DEF open
  <2>4. CASE Live(d)  BY <2>1, <2>2, <2>3, <2>4 DEF ChildState, open
  <2>5. CASE ~Live(d)  BY <2>1, <2>3, <2>5
  <2> QED  BY <2>4, <2>5
<1>2. child' = [d \in Child |-> child'[d]]  BY DEF Watch
<1> QED  BY <1>1, <1>2 DEF Children

\* What Fork makes of an idle child.
LEMMA ForkEffect ==
  ASSUME child \in Children, NEW c \in Child, NEW r \in Request, Fork(c, r)
  PROVE  /\ child' \in Children
         /\ child[c].pc = "idle"
         /\ child'[c].pc = "getUserId" /\ child'[c].req = r
         /\ child'[c].open = OpenGates(r, account, torrents, ipAddress)
         /\ child'[c].failed = child[c].failed /\ child'[c].reply = child[c].reply
         /\ child'[c].recorded = child[c].recorded
         /\ \A d \in Child \ {c} : child'[d] = child[d]
<1> DEFINE open == OpenGates(r, account, torrents, ipAddress)
           x    == [child[c] EXCEPT !.pc = "getUserId", !.req = r, !.open = open]
<1>1. child[c] \in ChildState  BY DEF Children
<1>2. open \in SUBSET Gate /\ r \in RequestType  BY RequestAssumption DEF OpenGates
<1>3. child' = [child EXCEPT ![c] = x]  BY DEF Fork
<1> HIDE DEF open
<1>4. /\ x \in ChildState /\ x.pc = "getUserId" /\ x.req = r /\ x.open = open
      /\ x.failed = child[c].failed /\ x.reply = child[c].reply
      /\ x.recorded = child[c].recorded
  BY <1>1, <1>2 DEF ChildState, Pc, Statement, GateStatement
<1> HIDE DEF x
<1>5. child[c].pc = "idle"  BY DEF Fork, At
<1> QED  BY <1>3, <1>4, <1>5 DEF Children, open

LEMMA SetBanTyped ==
  ASSUME TypeOK, NEW ip \in Ip, SetBan(ip)
  PROVE  DOMAIN ipAddress' \subseteq Ip /\ ipAddress' \in [DOMAIN ipAddress' -> IpRow]
<1>1. ipAddress[ip] \in IpRow  BY DEF SetBan, TypeOK
<1>2. [ipAddress[ip] EXCEPT !.isBanned = ~ipAddress[ip].isBanned] \in IpRow  BY <1>1 DEF IpRow
<1>3. ipAddress' = [ipAddress EXCEPT ![ip] =
                      [ipAddress[ip] EXCEPT !.isBanned = ~ipAddress[ip].isBanned]]
  BY DEF SetBan
<1> QED  BY <1>2, <1>3 DEF TypeOK

\* Every variable keeps its type, for any number of children, users and torrents,
\* any width W and any interleaving.
THEOREM TypeCorrect == Spec => []TypeOK
<1>1. Init => TypeOK
  <2> SUFFICES ASSUME Init PROVE TypeOK
    OBVIOUS
  <2>1. child \in [Child -> ChildState]  BY IdleTyped DEF Init
  <2> QED  BY <2>1 DEF Init, TypeOK, Empty
<1>2. TypeOK /\ [Next]_vars => TypeOK'
  <2> SUFFICES ASSUME TypeOK, [Next]_vars PROVE TypeOK'
    OBVIOUS
  <2>0. child \in Children /\ TablesOK  BY TypeSplit
  <2>1. ASSUME NEW c \in Child, NEW r \in Request, Fork(c, r) PROVE TypeOK'
    <3>1. child' \in Children  BY <2>0, <2>1, ForkEffect
    <3> QED  BY <3>1, <2>0, <2>1 DEF Fork, TypeOK, Children, site, rows
  <2>2. ASSUME NEW c \in Child, ChildStep(c) PROVE TypeOK'
    <3>1. child' \in Children  BY <2>2, ChildStepEffect DEF Effect
    <3>2. TablesOK'  BY <2>2, ChildStepTables DEF TableEffect
    <3> QED  BY <3>1, <3>2 DEF TablesOK, TypeOK, Children
  <2>3. CASE Tick
    <3>1. UNCHANGED <<child, site, rows, faults>> /\ now' = now + 1  BY <2>3 DEF Tick
    <3>2. \A i \in DOMAIN clientTorrents : clientTorrents[i].lastActivity <= now + 1
      BY RecordType DEF TypeOK, TorrentRow
    <3> QED  BY <3>1, <3>2 DEF TypeOK, site, rows
  <2>4. ASSUME NEW u \in User, NEW s \in {"absent", "barred", "member"}, SetAccount(u, s)
        PROVE  TypeOK'
    <3>1. child' \in Children  BY <2>0, <2>4, WatchEffect DEF SetAccount
    <3> QED  BY <3>1, <2>4 DEF SetAccount, TypeOK, Children, rows
  <2>5. ASSUME NEW ip \in Ip, SetBan(ip) PROVE TypeOK'
    <3>1. child' \in Children  BY <2>0, <2>5, WatchEffect DEF SetBan
    <3>2. DOMAIN ipAddress' \subseteq Ip /\ ipAddress' \in [DOMAIN ipAddress' -> IpRow]
      BY <2>5, SetBanTyped
    <3> QED  BY <3>1, <3>2, <2>5 DEF SetBan, TypeOK, Children
  <2>6. ASSUME NEW t \in Torrent, SetTorrent(t) PROVE TypeOK'
    <3>1. child' \in Children  BY <2>0, <2>6, WatchEffect DEF SetTorrent
    <3> QED  BY <3>1, <2>6 DEF SetTorrent, TypeOK, Children, rows
  <2>7. CASE UNCHANGED vars
    BY <2>7 DEF vars, site, rows, TypeOK
  <2> QED
    BY <2>1, <2>2, <2>3, <2>4, <2>5, <2>6, <2>7 DEF Next, Site, Finished, ChildStep
<1> QED  BY <1>1, <1>2, PTL DEF Spec

----------------------------------------------------------------------------
\* What a step of the environment does to the children: only history changes,
\* and a child that has seen every open gate still has.
EnvironmentStep == Tick \/ Site \/ UNCHANGED vars

Seen(c) == Live(c) => OpenGates(child[c].req, account, torrents, ipAddress) \subseteq child[c].open

LEMMA EnvironmentEffect ==
  ASSUME TypeOK, EnvironmentStep
  PROVE  /\ \A d \in Child :
              /\ child'[d].pc = child[d].pc /\ child'[d].req = child[d].req
              /\ child'[d].failed = child[d].failed /\ child'[d].reply = child[d].reply
              /\ child'[d].clientId = child[d].clientId
              /\ child'[d].recorded = child[d].recorded
              /\ child[d].open \subseteq child'[d].open
              /\ child'[d].open \subseteq Gate
              /\ Seen(d) => Seen(d)'
         /\ UNCHANGED <<client, clientTorrents, totals, points>>
<1>0. child \in Children /\ \A d \in Child : child[d].open \subseteq Gate
  BY DEF TypeOK, Children, ChildState
<1>1. CASE Tick \/ UNCHANGED vars
  BY <1>0, <1>1 DEF Tick, vars, site, rows, Seen, Live
<1>2. ASSUME Watch(account', torrents', ipAddress')
      PROVE  \A d \in Child :
              /\ child'[d].pc = child[d].pc /\ child'[d].req = child[d].req
              /\ child'[d].failed = child[d].failed /\ child'[d].reply = child[d].reply
              /\ child'[d].clientId = child[d].clientId
              /\ child'[d].recorded = child[d].recorded
              /\ child[d].open \subseteq child'[d].open
              /\ child'[d].open \subseteq Gate
              /\ Seen(d) => Seen(d)'
  <2> DEFINE open(d) == OpenGates(child[d].req, account', torrents', ipAddress')
  <2>1. \A d \in Child :
          /\ child'[d].pc = child[d].pc /\ child'[d].req = child[d].req
          /\ child'[d].failed = child[d].failed /\ child'[d].reply = child[d].reply
          /\ child'[d].clientId = child[d].clientId
          /\ child'[d].recorded = child[d].recorded
          /\ child'[d].open = IF Live(d) THEN child[d].open \cup open(d) ELSE child[d].open
    BY <1>0, <1>2, WatchEffect
  <2>2. \A d \in Child : open(d) \subseteq Gate  BY DEF OpenGates
  <2>3. \A d \in Child :
          Seen(d)' <=> (Live(d) => open(d) \subseteq child'[d].open)
    BY <2>1 DEF Seen, Live
  <2> HIDE DEF open
  <2> QED  BY <1>0, <2>1, <2>2, <2>3
<1>3. ASSUME NEW u, NEW s, SetAccount(u, s)
      PROVE  /\ Watch(account', torrents', ipAddress')
             /\ UNCHANGED <<client, clientTorrents, totals, points>>
  BY <1>3 DEF SetAccount, rows, Watch
<1>4. ASSUME NEW ip, SetBan(ip)
      PROVE  /\ Watch(account', torrents', ipAddress')
             /\ UNCHANGED <<client, clientTorrents, totals, points>>
  BY <1>4 DEF SetBan, Watch
<1>5. ASSUME NEW t, SetTorrent(t)
      PROVE  /\ Watch(account', torrents', ipAddress')
             /\ UNCHANGED <<client, clientTorrents, totals, points>>
  BY <1>5 DEF SetTorrent, rows, Watch
<1> QED  BY <1>1, <1>2, <1>3, <1>4, <1>5 DEF EnvironmentStep, Site

\* Every step is a fork, a step of one child or one of the environment.
LEMMA StepKinds ==
  ASSUME [Next]_vars
  PROVE  \/ \E c \in Child, r \in Request : Fork(c, r)
         \/ \E c \in Child : ChildStep(c)
         \/ EnvironmentStep
  BY DEF Next, Finished, ChildStep, EnvironmentStep

----------------------------------------------------------------------------
\* The gates.  Gated alone is not inductive: a child that is about to be served
\* must already have passed every gate, in the order of the condition of
\* updateClientTorrents, and must not have missed a change of the web site.
Admitted == (Statement \ GateStatement) \cup {"buildDictionary"}

GateOrder(x) ==
  /\ x.pc \in {"ipaIsBanned", "torrentExists"} \cup Admitted => "member" \in x.open
  /\ x.pc \in {"torrentExists"} \cup Admitted => "notBanned" \in x.open
  /\ x.pc \in Admitted => "torrent" \in x.open
  /\ x.reply = "peers" => x.open = Gate
  /\ x.pc # "done" => x.reply = "none"

GateInv == \A c \in Child : GateOrder(child[c]) /\ Seen(c)

LEMMA GateStep ==
  ASSUME TypeOK, GateInv, NEW c \in Child, ChildStep(c)
  PROVE  GateInv'
<1> DEFINE x == child[c]
           y == child'[c]
<1>1. Moves(x, y) /\ \A d \in Child \ {c} : child'[d] = child[d]
  BY ChildStepEffect DEF Effect
<1>2. x \in ChildState /\ GateOrder(x) /\ Seen(c)  BY DEF TypeOK, GateInv
<1>3. \A d \in Child : OpenGates(child[d].req, account', torrents', ipAddress')
                         = OpenGates(child[d].req, account, torrents, ipAddress)
  <2>1. TableEffect(c)  BY ChildStepTables
  <2>2. \A d \in Child : child[d].req.ip \in Ip  BY DEF TypeOK, ChildState, RequestType
  <2> QED  BY <2>1, <2>2 DEF TableEffect, OpenGates
<1>4. GateOrder(y)
  <2>1. x.open \subseteq Gate  BY <1>2 DEF ChildState
  <2>2. CASE Succeeds(x, y)
    <3>1. x.pc \in GateStatement =>
            OpenGates(x.req, account, torrents, ipAddress) \subseteq x.open
      BY <1>2 DEF Seen, Live, GateStatement, Ended
    <3>2. x.pc = "userCanLeech" /\ y.pc = "ipaIsBanned" => "member" \in x.open
      BY <2>2, <3>1 DEF Succeeds, OpenGates, Gate, GateStatement
    <3>3. x.pc = "ipaIsBanned" /\ y.pc = "torrentExists" => "notBanned" \in x.open
      BY <2>2, <3>1 DEF Succeeds, OpenGates, Gate, GateStatement
    <3>4. x.pc = "torrentExists" /\ y.pc = "getIpaId" => "torrent" \in x.open
      BY <2>2, <3>1 DEF Succeeds, OpenGates, Gate, GateStatement
    <3> QED
      BY <1>1, <1>2, <2>1, <2>2, <3>2, <3>3, <3>4
         DEF GateOrder, Moves, Succeeds, Follows, Admitted, Gate, Statement, GateStatement,
             ClientStatement, UpdateStatement, BonusStatement, TotalsStatement, AnswerStatement
  <2>3. CASE Fails(x, y)
    BY <1>1, <1>2, <2>3
       DEF GateOrder, Moves, Fails, Caught, Admitted, Statement, GateStatement, ClientStatement,
           UpdateStatement, BonusStatement, TotalsStatement, AnswerStatement
  <2>4. CASE Dies(x, y)
    BY <1>1, <1>2, <2>4
       DEF GateOrder, Moves, Dies, Admitted, Statement, GateStatement, ClientStatement,
           UpdateStatement, BonusStatement, TotalsStatement, AnswerStatement, Ended
  <2> QED  BY <1>1, <2>2, <2>3, <2>4 DEF Moves
<1>5. Seen(c)'
  <2>1. y.req = x.req /\ y.open = x.open  BY <1>1 DEF Moves
  <2>2. y.pc \notin {"idle"} \cup Ended => x.pc \notin {"idle"} \cup Ended
    BY <1>1 DEF Moves, Succeeds, Follows, Fails, Dies, Statement, GateStatement, ClientStatement,
            UpdateStatement, BonusStatement, TotalsStatement, AnswerStatement, Ended
  <2> QED  BY <1>2, <1>3, <2>1, <2>2 DEF Seen, Live
<1>6. ASSUME NEW d \in Child \ {c} PROVE GateOrder(child[d])' /\ Seen(d)'
  BY <1>1, <1>3 DEF GateInv, GateOrder, Seen, Live
<1> QED  BY <1>4, <1>5, <1>6 DEF GateInv, GateOrder

LEMMA GateCorrect == Spec => []GateInv
<1>1. Init => GateInv
  BY IdleFields
     DEF Init, GateInv, GateOrder, Seen, Live, Admitted, Statement, GateStatement,
         ClientStatement, UpdateStatement, BonusStatement, TotalsStatement, AnswerStatement
<1>2. TypeOK /\ GateInv /\ [Next]_vars => GateInv'
  <2> SUFFICES ASSUME TypeOK, GateInv, [Next]_vars PROVE GateInv'
    OBVIOUS
  <2>1. ASSUME NEW c \in Child, NEW r \in Request, Fork(c, r) PROVE GateInv'
    <3>0. child \in Children  BY DEF TypeOK, Children
    <3>1. UNCHANGED <<account, torrents, ipAddress>>  BY <2>1 DEF Fork, site, rows
    <3>2. /\ child'[c].pc = "getUserId" /\ child'[c].req = r /\ child'[c].reply = "none"
          /\ child'[c].open = OpenGates(r, account, torrents, ipAddress)
      BY <2>1, <3>0, ForkEffect DEF GateInv, GateOrder
    <3>3. GateOrder(child[c])' /\ Seen(c)'
      BY <3>1, <3>2 DEF GateOrder, Seen, Admitted, Statement, GateStatement, ClientStatement,
         UpdateStatement, BonusStatement, TotalsStatement, AnswerStatement
    <3>4. ASSUME NEW d \in Child \ {c} PROVE GateOrder(child[d])' /\ Seen(d)'
      BY <2>1, <3>0, <3>1, ForkEffect DEF GateInv, GateOrder, Seen, Live
    <3> QED  BY <3>3, <3>4 DEF GateInv
  <2>2. ASSUME NEW c \in Child, ChildStep(c) PROVE GateInv'
    BY <2>2, GateStep
  <2>3. CASE EnvironmentStep
    BY <2>3, EnvironmentEffect DEF GateInv, GateOrder
  <2> QED  BY <2>1, <2>2, <2>3, StepKinds
<1> QED  BY <1>1, <1>2, TypeCorrect, PTL DEF Spec

\* No child answers with peers that has not found each gate open at some time
\* since its fork, whatever fails and whatever the web site changes meanwhile.
THEOREM NeverServedUngated == Spec => []Gated
<1>1. TypeOK /\ GateInv => Gated
  <2> SUFFICES ASSUME TypeOK, GateInv, NEW c \in Child, Served(c) PROVE child[c].open = Gate
    BY DEF Gated
  <2>1. child[c].open \subseteq Gate  BY DEF TypeOK, ChildState
  <2> QED  BY <2>1 DEF GateInv, GateOrder, Served, Admitted, Gate
<1> QED  BY <1>1, GateCorrect, TypeCorrect, PTL

----------------------------------------------------------------------------
\* The catch blocks.  The exceptions after which the code goes on are those of
\* the statements whose catch block does not refuse.
Tolerated == UpdateStatement \cup BonusStatement \cup {"getPeers"}

FailInv ==
  \A c \in Child :
    /\ child[c].pc \in Statement \cup {"idle", "buildDictionary"} =>
         child[c].failed \subseteq Tolerated
    /\ child[c].reply = "peers" => child[c].failed \subseteq Tolerated
    /\ child[c].pc # "done" => child[c].reply = "none"

\* A child in which a statement of the checks, of getClientId's family, of
\* createClientTorrent, of the totals or of getTorrentData failed never answers
\* with peers.
THEOREM FailuresRefuse == Spec => []FailsClosed
<1>1. Init => FailInv
  BY IdleFields DEF Init, FailInv
<1>2. TypeOK /\ FailInv /\ [Next]_vars => FailInv'
  <2> SUFFICES ASSUME TypeOK, FailInv, [Next]_vars PROVE FailInv'
    OBVIOUS
  <2>1. ASSUME NEW c \in Child, NEW r \in Request, Fork(c, r) PROVE FailInv'
    <3>0. child \in Children  BY DEF TypeOK, Children
    <3> QED  BY <2>1, <3>0, ForkEffect DEF FailInv
  <2>2. ASSUME NEW c \in Child, ChildStep(c) PROVE FailInv'
    <3>1. Moves(child[c], child'[c]) /\ \A d \in Child \ {c} : child'[d] = child[d]
      BY <2>2, ChildStepEffect DEF Effect
    <3>2. CASE Succeeds(child[c], child'[c])
      BY <3>1, <3>2
         DEF FailInv, Succeeds, Follows, Statement, GateStatement, ClientStatement,
             UpdateStatement, BonusStatement, TotalsStatement, AnswerStatement
    <3>3. CASE Fails(child[c], child'[c])
      BY <3>1, <3>3
         DEF FailInv, Fails, Caught, Tolerated, Statement, GateStatement, ClientStatement,
             UpdateStatement, BonusStatement, TotalsStatement, AnswerStatement
    <3>4. CASE Dies(child[c], child'[c])
      BY <3>1, <3>4
         DEF FailInv, Dies, Ended, Statement, GateStatement, ClientStatement,
             UpdateStatement, BonusStatement, TotalsStatement, AnswerStatement
    <3> QED  BY <3>1, <3>2, <3>3, <3>4 DEF Moves
  <2>3. CASE EnvironmentStep
    BY <2>3, EnvironmentEffect DEF FailInv
  <2> QED  BY <2>1, <2>2, <2>3, StepKinds
<1>3. FailInv => FailsClosed
  BY DEF FailInv, FailsClosed, Served, Tolerated
<1> QED  BY <1>1, <1>2, <1>3, TypeCorrect, PTL DEF Spec

----------------------------------------------------------------------------
\* The client id that a child carries stays valid while other children rewrite
\* the peer ids of the table and append to it.
LEMMA ClientIdStep ==
  ASSUME TypeOK, ClientIdValid, NEW c \in Child, ChildStep(c)
  PROVE  ClientIdValid'
<1> DEFINE x == child[c]
           y == child'[c]
<1>1. Moves(x, y) /\ \A d \in Child \ {c} : child'[d] = child[d]
  BY ChildStepEffect DEF Effect
<1>2. ClientsKept  BY ChildStepTables DEF TableEffect
<1>3. ASSUME y.pc \in WithClient
      PROVE  /\ y.clientId \in DOMAIN client
             /\ client[y.clientId].ip = x.req.ip /\ client[y.clientId].port = x.req.port
  <2>1. CASE Succeeds(x, y) /\ y.pc = "setOldUploadAndDownload"
    BY <2>1 DEF Succeeds, ClientIds
  <2>2. CASE Succeeds(x, y) /\ y.pc # "setOldUploadAndDownload"
    <3>1. x.pc \in WithClient /\ y.clientId = x.clientId
      BY <1>3, <2>2 DEF Succeeds, Follows, WithClient, WithRecord, UpdateStatement,
         BonusStatement, TotalsStatement
    <3> QED  BY <3>1 DEF ClientIdValid
  <2>3. CASE Fails(x, y)
    <3>1. x.pc \in WithClient /\ y.clientId = x.clientId
      BY <1>3, <2>3 DEF Fails, Caught, WithClient, WithRecord, UpdateStatement,
         BonusStatement, TotalsStatement
    <3> QED  BY <3>1 DEF ClientIdValid
  <2>4. CASE Dies(x, y)
    BY <1>3, <2>4 DEF Dies, WithClient, WithRecord, UpdateStatement, BonusStatement,
       TotalsStatement
  <2> QED  BY <1>1, <2>1, <2>2, <2>3, <2>4 DEF Moves
<1>4. y.req = x.req  BY <1>1 DEF Moves
<1> QED  BY <1>1, <1>2, <1>3, <1>4 DEF ClientIdValid, ClientsKept

\* From getClientId to its last statement, a child's client id names a row of
\* client at the child's own address and port.
THEOREM ClientIdStaysValid == Spec => []ClientIdValid
<1> USE DEF WithClient, WithRecord, UpdateStatement, BonusStatement, TotalsStatement
<1>1. Init => ClientIdValid
  BY IdleFields DEF Init, ClientIdValid
<1>2. TypeOK /\ ClientIdValid /\ [Next]_vars => ClientIdValid'
  <2> SUFFICES ASSUME TypeOK, ClientIdValid, [Next]_vars PROVE ClientIdValid'
    OBVIOUS
  <2>1. ASSUME NEW c \in Child, NEW r \in Request, Fork(c, r) PROVE ClientIdValid'
    <3>0. child \in Children  BY DEF TypeOK, Children
    <3>1. client' = client  BY <2>1 DEF Fork, rows
    <3>2. child'[c].pc = "getUserId" /\ \A d \in Child \ {c} : child'[d] = child[d]
      BY <2>1, <3>0, ForkEffect
    <3> QED  BY <3>1, <3>2 DEF ClientIdValid
  <2>2. ASSUME NEW c \in Child, ChildStep(c) PROVE ClientIdValid'
    BY <2>2, ClientIdStep
  <2>3. CASE EnvironmentStep
    BY <2>3, EnvironmentEffect DEF ClientIdValid
  <2> QED  BY <2>1, <2>2, <2>3, StepKinds
<1> QED  BY <1>1, <1>2, TypeCorrect, PTL DEF Spec

----------------------------------------------------------------------------
\* No step of any child shrinks a total, although the counters of a restarted
\* client are subtracted: the wrapped difference makes the sum overflow or grow.
THEOREM TotalsNeverShrink == Spec => TotalsMonotone
<1>1. TypeOK /\ [Next]_vars => [TotalsGrow]_totals
  <2> SUFFICES ASSUME TypeOK, [Next]_vars, totals' # totals PROVE TotalsGrow
    OBVIOUS
  <2>1. ASSUME NEW c \in Child, NEW r \in Request, Fork(c, r) PROVE FALSE
    BY <2>1 DEF Fork, rows
  <2>2. ASSUME NEW c \in Child, ChildStep(c) PROVE TotalsGrow
    BY <2>2, ChildStepTables DEF TableEffect
  <2>3. CASE EnvironmentStep
    BY <2>3, EnvironmentEffect
  <2> QED  BY <2>1, <2>2, <2>3, StepKinds
<1>2. [TotalsGrow]_totals =>
        [\A k \in DOMAIN totals :
           /\ k \in DOMAIN totals'
           /\ \A n \in Counter : totals'[k].bytes[n] >= totals[k].bytes[n]
           /\ totals'[k].timeActive >= totals[k].timeActive]_totals
  BY DEF TotalsGrow
<1> QED  BY <1>1, <1>2, TypeCorrect, PTL DEF Spec, TotalsMonotone

----------------------------------------------------------------------------
(***************************************************************************)
(* The joins of updateClientTorrents and getPeers lose no row: no foreign  *)
(* key is declared in the code, but every record has its client and every  *)
(* client its address, under any interleaving and any failure.             *)
(***************************************************************************)

\* Statements a child reaches only with a row for its address.
Located == {"getClientId", "updateClient", "createClient"}

\* JoinsComplete alone is not inductive: createClient does not look its address up
\* again, and the records are given the client id found before.
JoinInv ==
  /\ JoinsComplete
  /\ \A c \in Child : child[c].pc \in Located => child[c].req.ip \in DOMAIN ipAddress

\* No address is deleted.
LEMMA AddressesKept ==
  ASSUME NEW c \in Child, ChildStep(c)
  PROVE  DOMAIN ipAddress \subseteq DOMAIN ipAddress'
<1>1. CASE Execute(c) /\ ~Writes(c)
  BY <1>1, OthersRead DEF rows
<1>2. CASE CreateIpAddress(c)
  BY <1>2 DEF CreateIpAddress, Put
<1>3. CASE Writes(c) /\ ~CreateIpAddress(c)
  BY <1>3 DEF Writes, UpdateClient, CreateClient, UpdateClientTorrents, CreateClientTorrent,
     UpdateUserBonusPoints, UpdateUserTorrentTotals, CreateUserTorrentTotals
<1>4. CASE Throw(c) \/ Die(c)
  BY <1>4 DEF Throw, Die, rows
<1> QED  BY <1>1, <1>2, <1>3, <1>4 DEF ChildStep

\* A child comes to getClientId from a SELECT that has found its address.
LEMMA AddressFound ==
  ASSUME TypeOK, NEW c \in Child, ChildStep(c), child'[c].pc \in Located,
         child[c].pc \notin Located
  PROVE  child[c].req.ip \in DOMAIN ipAddress
<1>0. child \in Children /\ child[c] \in ChildState  BY DEF TypeOK, Children
<1>1. Moves(child[c], child'[c])  BY ChildStepEffect DEF Effect
<1>2. child[c].pc \in {"getIpaId", "getIpaIdAgain"}
  BY <1>1 DEF Moves, Succeeds, Follows, Fails, Caught, Dies, Located
<1>3. CASE Throw(c)
  <2>1. child'[c].pc = Caught(child[c].pc)
    BY <1>0, <1>3 DEF Throw, Raise, Children, ChildState
  <2> QED  BY <1>2, <2>1 DEF Caught, Located, UpdateStatement, BonusStatement
<1>4. CASE Die(c)
  <2>1. child'[c].pc = "dead"
    BY <1>0, <1>4 DEF Die, Goto, Children, ChildState
  <2> QED  BY <2>1 DEF Located
<1>5. CASE Execute(c)
  <2>1. GetIpaId(c) \/ GetIpaIdAgain(c)
    BY <1>2, <1>5
       DEF Execute, At, GetUserId, UserCanLeech, IpaIsBanned, TorrentExists,
           CreateIpAddress, GetClientId, UpdateClient, CreateClient,
           SetOldUploadAndDownload, NewSeedMinutes, UpdateClientTorrents, CreateClientTorrent,
           TotalTimeActive, CalcBonusPoints, UpdateUserBonusPoints,
           TotalsExist, UpdateUserTorrentTotals, CreateUserTorrentTotals, GetTorrentData,
           GetPeers, BuildErrorDict, BuildDictionary
  <2>2. child[c].req.ip \notin DOMAIN ipAddress =>
          child'[c].pc \in {"createIpAddress", "buildErrorDict"}
    BY <1>0, <2>1 DEF GetIpaId, GetIpaIdAgain, Goto, Children, ChildState
  <2> QED  BY <2>2 DEF Located
<1> QED  BY <1>3, <1>4, <1>5 DEF ChildStep

\* A new client is one of createClient, at the announcing address.
LEMMA ClientMade ==
  ASSUME TypeOK, NEW c \in Child, ChildStep(c), NEW i \in DOMAIN client', i \notin DOMAIN client
  PROVE  child[c].pc = "createClient" /\ client'[i].ip = child[c].req.ip
<1>1. CASE Execute(c) /\ ~Writes(c)
  BY <1>1, OthersRead DEF rows
<1>2. CASE CreateClient(c)
  <2>1. client \in Seq(ClientRow)  BY DEF TypeOK
  <2>2. client' = Append(client, [peer |-> child[c].req.peer, ip |-> child[c].req.ip,
                                  port |-> child[c].req.port])
    BY <1>2 DEF CreateClient
  <2>3. i = Len(client) + 1  BY <2>1, <2>2
  <2> QED  BY <1>2, <2>1, <2>2, <2>3 DEF CreateClient, At
<1>3. CASE UpdateClient(c)
  BY <1>3 DEF UpdateClient
<1>4. CASE Writes(c) /\ ~CreateClient(c) /\ ~UpdateClient(c)
  BY <1>4 DEF Writes, CreateIpAddress, UpdateClientTorrents, CreateClientTorrent,
     UpdateUserBonusPoints, UpdateUserTorrentTotals, CreateUserTorrentTotals
<1>5. CASE Throw(c) \/ Die(c)
  BY <1>5 DEF Throw, Die, rows
<1> QED  BY <1>1, <1>2, <1>3, <1>4, <1>5 DEF ChildStep

\* A record keeps its client or is given that of the announcing child.
LEMMA RecordOfClient ==
  ASSUME TypeOK, NEW c \in Child, ChildStep(c), NEW i \in DOMAIN clientTorrents'
  PROVE  \/ i \in DOMAIN clientTorrents /\ clientTorrents'[i].client = clientTorrents[i].client
         \/ /\ child[c].pc \in {"updateClientTorrents", "createClientTorrent"}
            /\ clientTorrents'[i].client = child[c].clientId
<1>0. /\ clientTorrents \in Seq(TorrentRow)
      /\ \A active : Announced(c, active).client = child[c].clientId
  BY DEF TypeOK, Announced
<1>1. CASE Execute(c) /\ ~Writes(c)
  BY <1>1, OthersRead DEF rows
<1>2. CASE UpdateClientTorrents(c)
  BY <1>0, <1>2 DEF UpdateClientTorrents, At
<1>3. CASE CreateClientTorrent(c)
  <2>1. CASE clientTorrents' = clientTorrents  BY <2>1
  <2>2. CASE clientTorrents' = Append(clientTorrents, Announced(c, DefaultActive))
    BY <1>0, <1>3, <2>2 DEF CreateClientTorrent, At
  <2> QED  BY <1>3, <2>1, <2>2 DEF CreateClientTorrent
<1>4. CASE Writes(c) /\ ~UpdateClientTorrents(c) /\ ~CreateClientTorrent(c)
  BY <1>4 DEF Writes, CreateIpAddress, UpdateClient, CreateClient,
     UpdateUserBonusPoints, UpdateUserTorrentTotals, CreateUserTorrentTotals
<1>5. CASE Throw(c) \/ Die(c)
  BY <1>5 DEF Throw, Die, rows
<1> QED  BY <1>1, <1>2, <1>3, <1>4, <1>5 DEF ChildStep

LEMMA JoinStep ==
  ASSUME TypeOK, ClientIdValid, JoinInv, NEW c \in Child, ChildStep(c)
  PROVE  JoinInv'
<1>1. Moves(child[c], child'[c]) /\ \A d \in Child \ {c} : child'[d] = child[d]
  BY ChildStepEffect DEF Effect
<1>2. ClientsKept  BY ChildStepTables DEF TableEffect
<1>3. DOMAIN ipAddress \subseteq DOMAIN ipAddress'  BY AddressesKept
<1>4. ASSUME NEW d \in Child, child'[d].pc \in Located
      PROVE  child'[d].req.ip \in DOMAIN ipAddress'
  <2>1. CASE d = c  BY <1>1, <1>3, <1>4, <2>1, AddressFound DEF Moves, JoinInv
  <2>2. CASE d # c  BY <1>1, <1>3, <1>4, <2>2 DEF JoinInv
  <2> QED  BY <2>1, <2>2
<1>5. ASSUME NEW i \in DOMAIN client' PROVE client'[i].ip \in DOMAIN ipAddress'
  <2>1. CASE i \in DOMAIN client
    BY <1>2, <1>3, <2>1 DEF ClientsKept, JoinInv, JoinsComplete
  <2>2. CASE i \notin DOMAIN client
    BY <1>3, <2>2, ClientMade DEF JoinInv, Located
  <2> QED  BY <2>1, <2>2
<1>6. ASSUME NEW i \in DOMAIN clientTorrents' PROVE clientTorrents'[i].client \in DOMAIN client'
  <2>1. child[c].pc \in {"updateClientTorrents", "createClientTorrent"} =>
          child[c].clientId \in DOMAIN client
    BY DEF ClientIdValid, WithClient, UpdateStatement
  <2> QED  BY <1>2, <2>1, RecordOfClient DEF ClientsKept, JoinInv, JoinsComplete
<1> QED  BY <1>4, <1>5, <1>6 DEF JoinInv, JoinsComplete

LEMMA JoinInvHolds == Spec => []JoinInv
<1>1. Init => JoinInv
  BY IdleFields DEF Init, JoinInv, JoinsComplete, Located
<1>2. TypeOK /\ ClientIdValid /\ JoinInv /\ [Next]_vars => JoinInv'
  <2> SUFFICES ASSUME TypeOK, ClientIdValid, JoinInv, [Next]_vars PROVE JoinInv'
    OBVIOUS
  <2>1. ASSUME NEW c \in Child, NEW r \in Request, Fork(c, r) PROVE JoinInv'
    <3>0. child \in Children  BY DEF TypeOK, Children
    <3>1. UNCHANGED rows  BY <2>1 DEF Fork
    <3>2. child'[c].pc = "getUserId" /\ \A d \in Child \ {c} : child'[d] = child[d]
      BY <2>1, <3>0, ForkEffect
    <3> QED  BY <3>1, <3>2 DEF JoinInv, JoinsComplete, Located, rows
  <2>2. ASSUME NEW c \in Child, ChildStep(c) PROVE JoinInv'
    BY <2>2, JoinStep
  <2>3. CASE EnvironmentStep
    <3>1. DOMAIN ipAddress' = DOMAIN ipAddress
      BY <2>3 DEF EnvironmentStep, Site, Tick, SetAccount, SetBan, SetTorrent, rows, vars
    <3> QED  BY <2>3, <3>1, EnvironmentEffect DEF JoinInv, JoinsComplete
  <2> QED  BY <2>1, <2>2, <2>3, StepKinds
<1> QED  BY <1>1, <1>2, TypeCorrect, ClientIdStaysValid, PTL DEF Spec

\* Every record joins with a client and every client with an address, so that
\* neither the UPDATE nor the list of peers misses a row.
THEOREM JoinsAreComplete == Spec => []JoinsComplete
<1>1. JoinInv => JoinsComplete
  BY DEF JoinInv
<1> QED  BY <1>1, JoinInvHolds, PTL

----------------------------------------------------------------------------
(***************************************************************************)
(* No credit is lost: the totals are the sums of what the children have    *)
(* credited.  The first part proves what that needs of sums.  The library's *)
(* induction theorems take an operator; here the induction is over a set   *)
(* of good subsets instead, from the fact that the strict subsets of a     *)
(* finite set are well founded.                                            *)
(***************************************************************************)

\* The sum of NoLostCredit, under a short name.
Sum(f, S) == SumFunctionOnSet(f, S)

\* The element that the fold of the community modules takes out of T.
Pick(T) == CHOOSE x \in T : TRUE

\* g gives the sum of f over each subset of S, the way the fold computes it.
IsSum(g, f, S) ==
  g = [T \in SUBSET S |-> IF T = {} THEN 0 ELSE f[Pick(T)] + g[T \ {Pick(T)}]]

\* What every subset has if its strict subsets have it, all subsets of S have.
LEMMA SubsetInduction ==
  ASSUME NEW S, IsFiniteSet(S), NEW Good,
         \A T \in SUBSET S : (\A U \in SUBSET T : U # T => U \in Good) => T \in Good
  PROVE  \A T \in SUBSET S : T \in Good
<1> DEFINE Bad == {T \in SUBSET S : T \notin Good}
<1>1. SUFFICES ASSUME Bad # {} PROVE FALSE
  OBVIOUS
<1>2. IsWellFoundedOn(StrictSubsetOrdering(S), SUBSET S)
  BY FS_StrictSubsetOrderingWellFounded, FS_FiniteSubsetsOfFinite
<1>3. PICK T \in Bad : \A U \in Bad : ~ (<<U, T>> \in StrictSubsetOrdering(S))
  <2> HIDE DEF Bad
  <2>1. Bad \subseteq SUBSET S  BY DEF Bad
  <2> QED  BY <1>1, <1>2, <2>1, WFMin
<1>4. \A U \in SUBSET T : U # T => U \in Good
  BY <1>3 DEF StrictSubsetOrdering
<1> QED  BY <1>3, <1>4

LEMMA SumUnique ==
  ASSUME NEW S, IsFiniteSet(S), NEW f, NEW g, NEW h, IsSum(g, f, S), IsSum(h, f, S)
  PROVE  g = h
<1> DEFINE Good == {T \in SUBSET S : g[T] = h[T]}
<1>1. ASSUME NEW T \in SUBSET S, \A U \in SUBSET T : U # T => U \in Good
      PROVE  T \in Good
  <2>1. CASE T = {}  BY <2>1 DEF IsSum
  <2>2. CASE T # {}
    <3>1. Pick(T) \in T  BY <2>2 DEF Pick
    <3>2. g[T \ {Pick(T)}] = h[T \ {Pick(T)}]  BY <1>1, <3>1
    <3>3. /\ g[T] = f[Pick(T)] + g[T \ {Pick(T)}]
          /\ h[T] = f[Pick(T)] + h[T \ {Pick(T)}]
      BY <2>2 DEF IsSum
    <3> QED  BY <3>2, <3>3
  <2> QED  BY <2>1, <2>2
<1>2. \A T \in SUBSET S : T \in Good
  <2> HIDE DEF Good
  <2> QED  BY <1>1, SubsetInduction
<1>3. \A T \in SUBSET S : g[T] = h[T]  BY <1>2
<1>4. g = [T \in SUBSET S |-> g[T]] /\ h = [T \in SUBSET S |-> h[T]]  BY DEF IsSum
<1> QED  BY <1>3, <1>4

LEMMA SumRestrict ==
  ASSUME NEW S, NEW f, NEW g, IsSum(g, f, S), NEW T \in SUBSET S
  PROVE  IsSum([U \in SUBSET T |-> g[U]], f, T)
<1> DEFINE h == [U \in SUBSET T |-> g[U]]
<1>1. ASSUME NEW U \in SUBSET T
      PROVE  h[U] = IF U = {} THEN 0 ELSE f[Pick(U)] + h[U \ {Pick(U)}]
  <2>1. U \in SUBSET S /\ U \ {Pick(U)} \in SUBSET T  OBVIOUS
  <2>2. g[U] = IF U = {} THEN 0 ELSE f[Pick(U)] + g[U \ {Pick(U)}]
    BY <2>1 DEF IsSum
  <2> QED  BY <2>1, <2>2
<1>2. h = [U \in SUBSET T |-> IF U = {} THEN 0 ELSE f[Pick(U)] + h[U \ {Pick(U)}]]
  BY <1>1
<1> QED  BY <1>2 DEF IsSum

LEMMA SumExists ==
  ASSUME NEW S, IsFiniteSet(S), NEW f
  PROVE  \E g : IsSum(g, f, S)
<1> DEFINE Good == {T \in SUBSET S : \E g : IsSum(g, f, T)}
<1>1. ASSUME NEW T \in SUBSET S, \A U \in SUBSET T : U # T => U \in Good
      PROVE  T \in Good
  <2> DEFINE the(U) == CHOOSE g : IsSum(g, f, U)
             less(U) == U \ {Pick(U)}
             G == [U \in SUBSET T |-> IF U = {} THEN 0 ELSE f[Pick(U)] + the(less(U))[less(U)]]
  <2>1. ASSUME NEW U \in SUBSET T, U # T PROVE IsSum(the(U), f, U)
    BY <1>1, <2>1
  <2>2. ASSUME NEW U \in SUBSET T, U # {} PROVE less(U) \in SUBSET T /\ less(U) # T
    <3>1. Pick(U) \in U  BY <2>2 DEF Pick
    <3> QED  BY <3>1
  <2>3. ASSUME NEW U \in SUBSET T, U # T PROVE the(U)[U] = G[U]
    <3>1. IsSum(the(U), f, U)  BY <2>1, <2>3
    <3>2. CASE U = {}  BY <3>1, <3>2 DEF IsSum
    <3>3. CASE U # {}
      <4> DEFINE V == less(U)
      <4>1. V \in SUBSET U /\ V \in SUBSET T /\ V # T  BY <2>2, <3>3
      <4>0. V \in SUBSET S /\ U \in SUBSET S  BY <4>1
      <4>2. the(U)[U] = f[Pick(U)] + the(U)[V]  BY <3>1, <3>3 DEF IsSum
      <4>3. IsSum([X \in SUBSET V |-> the(U)[X]], f, V)
        <5> HIDE DEF V, the, G
        <5> QED  BY <3>1, <4>1, SumRestrict
      <4>4. IsFiniteSet(V)  BY <4>0, FS_Subset
      <4>5. IsSum(the(V), f, V)  BY <2>1, <4>1
      <4>6. [X \in SUBSET V |-> the(U)[X]] = the(V)
        <5> HIDE DEF V, the, G
        <5> QED  BY <4>3, <4>4, <4>5, SumUnique
      <4>7. the(V)[V] = the(U)[V]
        <5> HIDE DEF V, the, G
        <5>1. [X \in SUBSET V |-> the(U)[X]][V] = the(U)[V]  OBVIOUS
        <5> QED  BY <4>6, <5>1
      <4> QED  BY <3>3, <4>2, <4>7
    <3> QED  BY <3>2, <3>3
  <2>4. G = [U \in SUBSET T |-> IF U = {} THEN 0 ELSE f[Pick(U)] + G[less(U)]]
    <3>1. \A U \in SUBSET T : U # {} => G[less(U)] = the(less(U))[less(U)]
      BY <2>2, <2>3
    <3>2. ASSUME NEW U \in SUBSET T
          PROVE  G[U] = IF U = {} THEN 0 ELSE f[Pick(U)] + G[less(U)]
      <4>1. G[U] = IF U = {} THEN 0 ELSE f[Pick(U)] + the(less(U))[less(U)]  OBVIOUS
      <4> HIDE DEF G, the, less
      <4> QED  BY <3>1, <4>1
    <3>3. G = [U \in SUBSET T |-> G[U]]  OBVIOUS
    <3> HIDE DEF G, the
    <3> QED  BY <3>2, <3>3
  <2>5. IsSum(G, f, T)  BY <2>4 DEF IsSum
  <2> QED  BY <2>5
<1>2. \A T \in SUBSET S : T \in Good
  <2> HIDE DEF Good
  <2> QED  BY <1>1, SubsetInduction
<1> QED  BY <1>2

LEMMA SumDef ==
  ASSUME NEW S, IsFiniteSet(S), NEW f
  PROVE  Sum(f, S) = IF S = {} THEN 0 ELSE f[Pick(S)] + Sum(f, S \ {Pick(S)})
<1>1. ASSUME NEW T, IsFiniteSet(T), NEW h, IsSum(h, f, T) PROVE Sum(f, T) = h[T]
  <2>1. \A g : IsSum(g, f, T) <=> g = h  BY <1>1, SumUnique
  <2> QED  BY <2>1 DEF Sum, SumFunctionOnSet, FoldFunctionOnSet, MapThenFoldSet, IsSum, Pick
<1>2. PICK g : IsSum(g, f, S)  BY SumExists
<1>3. Sum(f, S) = g[S]  BY <1>1, <1>2
<1>4. g[S] = IF S = {} THEN 0 ELSE f[Pick(S)] + g[S \ {Pick(S)}]  BY <1>2 DEF IsSum
<1> DEFINE T == S \ {Pick(S)}
           h == [U \in SUBSET T |-> g[U]]
<1>5. T \in SUBSET S /\ IsFiniteSet(T)  BY FS_Subset
<1>6. IsSum(h, f, T)  BY <1>2, <1>5, SumRestrict
<1>7. Sum(f, T) = h[T]
  <2> HIDE DEF h, T
  <2> QED  BY <1>1, <1>5, <1>6
<1>8. h[T] = g[T]  OBVIOUS
<1> QED  BY <1>3, <1>4, <1>7, <1>8

LEMMA SumAny ==
  ASSUME NEW S, IsFiniteSet(S), NEW f, \A x \in S : f[x] \in Int
  PROVE  Sum(f, S) \in Int /\ \A x \in S : Sum(f, S) = f[x] + Sum(f, S \ {x})
<1> DEFINE Good == {T \in SUBSET S : /\ Sum(f, T) \in Int
                                     /\ \A x \in T : Sum(f, T) = f[x] + Sum(f, T \ {x})}
<1>1. ASSUME NEW T \in SUBSET S, \A U \in SUBSET T : U # T => U \in Good
      PROVE  T \in Good
  <2>0. IsFiniteSet(T)  BY FS_Subset
  <2>1. CASE T = {}  BY <2>0, <2>1, SumDef
  <2>2. CASE T # {}
    <3> DEFINE p == Pick(T)
    <3>1. p \in T  BY <2>2 DEF Pick
    <3>2. Sum(f, T) = f[p] + Sum(f, T \ {p})  BY <2>0, <2>2, SumDef
    <3> HIDE DEF p
    <3>3. \A y \in T : T \ {y} \in Good  BY <1>1
    <3>4. \A y \in T : Sum(f, T \ {y}) \in Int  BY <3>3
    <3>5. ASSUME NEW x \in T PROVE Sum(f, T) = f[x] + Sum(f, T \ {x})
      <4>1. CASE x = p  BY <3>2, <4>1
      <4>2. CASE x # p
        <5>1. Sum(f, T \ {p}) = f[x] + Sum(f, (T \ {p}) \ {x})  BY <3>1, <3>3, <4>2
        <5>2. Sum(f, T \ {x}) = f[p] + Sum(f, (T \ {x}) \ {p})  BY <3>1, <3>3, <4>2
        <5>3. (T \ {p}) \ {x} = (T \ {x}) \ {p}  OBVIOUS
        <5>4. (T \ {x}) \ {p} \in Good
          <6>1. (T \ {x}) \ {p} \in SUBSET T /\ (T \ {x}) \ {p} # T  BY <3>1
          <6> QED  BY <1>1, <6>1
        <5>5. Sum(f, (T \ {x}) \ {p}) \in Int /\ f[x] \in Int /\ f[p] \in Int
          BY <3>1, <5>4
        <5>6. Sum(f, T \ {p}) = f[x] + Sum(f, (T \ {x}) \ {p})  BY <5>1, <5>3
        <5> HIDE DEF Good
        <5> QED  BY <3>2, <5>2, <5>5, <5>6, SMT
      <4> QED  BY <4>1, <4>2
    <3>6. Sum(f, T) \in Int  BY <3>1, <3>2, <3>4
    <3> QED  BY <3>5, <3>6
  <2> QED  BY <2>1, <2>2
<1>2. \A T \in SUBSET S : T \in Good
  <2> HIDE DEF Good
  <2> QED  BY <1>1, SubsetInduction
<1> QED  BY <1>2

LEMMA SumSame ==
  ASSUME NEW S, IsFiniteSet(S), NEW f, NEW g, \A x \in S : f[x] = g[x]
  PROVE  Sum(f, S) = Sum(g, S)
<1> DEFINE Good == {T \in SUBSET S : Sum(f, T) = Sum(g, T)}
<1>1. ASSUME NEW T \in SUBSET S, \A U \in SUBSET T : U # T => U \in Good
      PROVE  T \in Good
  <2>0. IsFiniteSet(T)  BY FS_Subset
  <2>1. CASE T = {}  BY <2>0, <2>1, SumDef
  <2>2. CASE T # {}
    <3>1. Pick(T) \in T  BY <2>2 DEF Pick
    <3>2. T \ {Pick(T)} \in Good  BY <1>1, <3>1
    <3>3. Sum(f, T \ {Pick(T)}) = Sum(g, T \ {Pick(T)}) /\ f[Pick(T)] = g[Pick(T)]
      BY <3>1, <3>2
    <3>4. /\ Sum(f, T) = f[Pick(T)] + Sum(f, T \ {Pick(T)})
          /\ Sum(g, T) = g[Pick(T)] + Sum(g, T \ {Pick(T)})
      BY <2>0, <2>2, SumDef
    <3> QED  BY <3>3, <3>4
  <2> QED  BY <2>1, <2>2
<1>2. \A T \in SUBSET S : T \in Good
  <2> HIDE DEF Good
  <2> QED  BY <1>1, SubsetInduction
<1> QED  BY <1>2

LEMMA SumZero ==
  ASSUME NEW S, IsFiniteSet(S), NEW f, \A x \in S : f[x] = 0
  PROVE  Sum(f, S) = 0
<1> DEFINE Good == {T \in SUBSET S : Sum(f, T) = 0}
<1>1. ASSUME NEW T \in SUBSET S, \A U \in SUBSET T : U # T => U \in Good
      PROVE  T \in Good
  <2>0. IsFiniteSet(T)  BY FS_Subset
  <2>1. CASE T = {}  BY <2>0, <2>1, SumDef
  <2>2. CASE T # {}
    <3>1. Pick(T) \in T  BY <2>2 DEF Pick
    <3>2. T \ {Pick(T)} \in Good /\ f[Pick(T)] = 0  BY <1>1, <3>1
    <3> QED  BY <2>0, <2>2, <3>2, SumDef
  <2> QED  BY <2>1, <2>2
<1>2. \A T \in SUBSET S : T \in Good
  <2> HIDE DEF Good
  <2> QED  BY <1>1, SubsetInduction
<1> QED  BY <1>2

LEMMA SumChange ==
  ASSUME NEW S, IsFiniteSet(S), NEW c \in S, NEW f, NEW g,
         \A x \in S : f[x] \in Int /\ g[x] \in Int, \A x \in S \ {c} : f[x] = g[x]
  PROVE  Sum(g, S) = Sum(f, S) - f[c] + g[c]
<1>1. IsFiniteSet(S \ {c})  BY FS_Subset
<1>2. Sum(f, S \ {c}) = Sum(g, S \ {c})  BY <1>1, SumSame
<1>3. Sum(f, S) = f[c] + Sum(f, S \ {c})  BY SumAny
<1>4. Sum(g, S) = g[c] + Sum(g, S \ {c})  BY SumAny
<1>5. Sum(f, S \ {c}) \in Int  BY <1>1, SumAny
<1> QED  BY <1>2, <1>3, <1>4, <1>5

----------------------------------------------------------------------------
\* Which statement sets which field of its child.
FieldsKept(c) ==
  /\ child'[c].credit = child[c].credit \/ UpdateUserTorrentTotals(c) \/ CreateUserTorrentTotals(c)
  /\ child'[c].old = child[c].old \/ SetOldUploadAndDownload(c)
  /\ child'[c].minutes = child[c].minutes \/ NewSeedMinutes(c)
  /\ child'[c].seeders = child[c].seeders \/ GetTorrentData(c)
  /\ child'[c].peers = child[c].peers \/ GetPeers(c)
  /\ child'[c].again = child[c].again \/ UpdateClient(c) \/ CreateClient(c)
  /\ child'[c].recorded = child[c].recorded \/ child'[c].pc = "totalTimeActive"

LEMMA FieldStep ==
  ASSUME TypeOK, NEW c \in Child, ChildStep(c)
  PROVE  FieldsKept(c)
<1>0. child \in Children /\ child[c] \in ChildState  BY DEF TypeOK, Children
<1> DEFINE Same == /\ child'[c].credit = child[c].credit /\ child'[c].old = child[c].old
                   /\ child'[c].minutes = child[c].minutes
                   /\ child'[c].seeders = child[c].seeders /\ child'[c].peers = child[c].peers
                   /\ child'[c].again = child[c].again
                   /\ child'[c].recorded = child[c].recorded
<1>1. ASSUME NEW s, Goto(c, s) PROVE Same
  BY <1>0, <1>1 DEF Goto, Children, ChildState
<1>2. ASSUME NEW m, RefuseAs(c, m) PROVE Same
  BY <1>0, <1>2 DEF RefuseAs, Children, ChildState
<1>3. ASSUME Raise(c) PROVE Same
  BY <1>0, <1>3 DEF Raise, Children, ChildState
<1> HIDE DEF Same
<1>4. CASE \/ GetUserId(c) \/ UserCanLeech(c) \/ IpaIsBanned(c) \/ TorrentExists(c)
           \/ GetIpaId(c) \/ CreateIpAddress(c) \/ GetIpaIdAgain(c)
  <2>1. Same
    BY <1>1, <1>2, <1>3, <1>4 DEF GetUserId, UserCanLeech, IpaIsBanned, TorrentExists, GetIpaId,
       CreateIpAddress, GetIpaIdAgain, Refuse
  <2> QED  BY <2>1 DEF Same, FieldsKept
<1>5. CASE GetClientId(c)
  <2>1. ASSUME NEW i, child' = [child EXCEPT ![c].pc = "setOldUploadAndDownload", ![c].clientId = i]
        PROVE  Same
    BY <1>0, <2>1 DEF Same, Children, ChildState
  <2>2. Same  BY <1>1, <1>5, <2>1 DEF GetClientId, Refuse
  <2> QED  BY <2>2 DEF Same, FieldsKept
<1>14. CASE UpdateClient(c) \/ CreateClient(c)
  <2>1. ASSUME child' = [child EXCEPT ![c].pc = "getIpaId", ![c].again = TRUE]
        PROVE  /\ child'[c].credit = child[c].credit /\ child'[c].old = child[c].old
               /\ child'[c].minutes = child[c].minutes
               /\ child'[c].seeders = child[c].seeders /\ child'[c].peers = child[c].peers
               /\ child'[c].recorded = child[c].recorded
    BY <1>0, <2>1 DEF Children, ChildState
  <2> QED
    BY <1>1, <1>3, <1>14, <2>1 DEF UpdateClient, CreateClient, Same, FieldsKept
<1>6. CASE SetOldUploadAndDownload(c)
  <2>1. ASSUME NEW o, child' = [child EXCEPT ![c].pc = "newSeedMinutes", ![c].old = o]
        PROVE  /\ child'[c].credit = child[c].credit /\ child'[c].minutes = child[c].minutes
               /\ child'[c].seeders = child[c].seeders /\ child'[c].peers = child[c].peers
               /\ child'[c].again = child[c].again
               /\ child'[c].recorded = child[c].recorded
    BY <1>0, <2>1 DEF Children, ChildState
  <2> QED  BY <1>1, <1>6, <2>1 DEF SetOldUploadAndDownload, Same, FieldsKept
<1>7. CASE NewSeedMinutes(c)
  <2>1. ASSUME NEW m, child' = [child EXCEPT ![c].pc = "updateClientTorrents", ![c].minutes = m]
        PROVE  /\ child'[c].credit = child[c].credit /\ child'[c].old = child[c].old
               /\ child'[c].seeders = child[c].seeders /\ child'[c].peers = child[c].peers
               /\ child'[c].again = child[c].again
               /\ child'[c].recorded = child[c].recorded
    BY <1>0, <2>1 DEF Children, ChildState
  <2> QED  BY <1>1, <1>7, <2>1 DEF NewSeedMinutes, Same, FieldsKept
<1>15. CASE UpdateClientTorrents(c) \/ CreateClientTorrent(c)
  <2>1. ASSUME NEW R, Record(c, R)
        PROVE  /\ child'[c].credit = child[c].credit /\ child'[c].old = child[c].old
               /\ child'[c].minutes = child[c].minutes
               /\ child'[c].seeders = child[c].seeders /\ child'[c].peers = child[c].peers
               /\ child'[c].again = child[c].again
               /\ child'[c].pc = "totalTimeActive"
    BY <1>0, <2>1 DEF Record, Children, ChildState
  <2> QED
    BY <1>1, <1>3, <1>15, <2>1 DEF UpdateClientTorrents, CreateClientTorrent, Same, FieldsKept
<1>8. CASE \/ TotalTimeActive(c) \/ CalcBonusPoints(c) \/ UpdateUserBonusPoints(c)
           \/ TotalsExist(c)
  <2>1. Same
    BY <1>1, <1>8 DEF TotalTimeActive, CalcBonusPoints, UpdateUserBonusPoints, TotalsExist
  <2> QED  BY <2>1 DEF Same, FieldsKept
<1>9. CASE UpdateUserTorrentTotals(c) \/ CreateUserTorrentTotals(c)
  <2>1. ASSUME NEW b, child' = [child EXCEPT ![c].pc = "getTorrentData", ![c].credit = b]
        PROVE  /\ child'[c].old = child[c].old /\ child'[c].minutes = child[c].minutes
               /\ child'[c].seeders = child[c].seeders /\ child'[c].peers = child[c].peers
               /\ child'[c].again = child[c].again
               /\ child'[c].recorded = child[c].recorded
    BY <1>0, <2>1 DEF Children, ChildState
  <2> QED
    BY <1>3, <1>9, <2>1 DEF UpdateUserTorrentTotals, CreateUserTorrentTotals, Same, FieldsKept
<1>10. CASE GetTorrentData(c)
  <2>1. ASSUME NEW s, NEW l, child' = [child EXCEPT ![c].pc = "getPeers", ![c].seeders = s,
                                                    ![c].leechers = l]
        PROVE  /\ child'[c].credit = child[c].credit /\ child'[c].old = child[c].old
               /\ child'[c].minutes = child[c].minutes /\ child'[c].peers = child[c].peers
               /\ child'[c].again = child[c].again
               /\ child'[c].recorded = child[c].recorded
    BY <1>0, <2>1 DEF Children, ChildState
  <2> QED  BY <1>1, <1>10, <2>1 DEF GetTorrentData, Same, FieldsKept
<1>11. CASE GetPeers(c)
  <2>1. ASSUME NEW p, child' = [child EXCEPT ![c].pc = "buildDictionary", ![c].peers = p]
        PROVE  /\ child'[c].credit = child[c].credit /\ child'[c].old = child[c].old
               /\ child'[c].minutes = child[c].minutes /\ child'[c].seeders = child[c].seeders
               /\ child'[c].again = child[c].again
               /\ child'[c].recorded = child[c].recorded
    BY <1>0, <2>1 DEF Children, ChildState
  <2> QED  BY <1>11, <2>1 DEF GetPeers, FieldsKept
<1>12. CASE BuildErrorDict(c) \/ BuildDictionary(c)
  <2>1. ASSUME NEW r, child' = [child EXCEPT ![c].pc = "done", ![c].reply = r] PROVE Same
    BY <1>0, <2>1 DEF Same, Children, ChildState
  <2>2. Same  BY <1>12, <2>1 DEF BuildErrorDict, BuildDictionary
  <2> QED  BY <2>2 DEF Same, FieldsKept
<1>13. CASE Throw(c) \/ Die(c)
  <2>1. Same  BY <1>1, <1>3, <1>13 DEF Throw, Die
  <2> QED  BY <2>1 DEF Same, FieldsKept
<1> QED
  BY <1>4, <1>5, <1>6, <1>7, <1>8, <1>9, <1>10, <1>11, <1>12, <1>13, <1>14, <1>15
     DEF ChildStep, Execute

----------------------------------------------------------------------------
\* Credit follows a record.  A child on its way to the totals has written its
\* announce into a record of its torrent, which nobody deletes.
RecordOf(c) ==
  /\ child[c].recorded # {} => HasRecord(c)
  /\ child[c].pc = "idle" => child[c].recorded = {}
  /\ child[c].pc \in WithRecord => child[c].recorded # {}

RecordInv == \A c \in Child : RecordOf(c)

\* A child comes to the statements which credit its announce from one that has
\* just recorded it.
LEMMA RecordMade ==
  ASSUME TypeOK, NEW c \in Child, ChildStep(c), child'[c].pc = "totalTimeActive"
  PROVE  \E i \in child'[c].recorded :
           i \in DOMAIN clientTorrents' /\ clientTorrents'[i].torrent = child[c].req.torrent
<1>1. Moves(child[c], child'[c])  BY ChildStepEffect DEF Effect
<1>2. child[c].pc \in {"updateClientTorrents", "createClientTorrent"}
  BY <1>1 DEF Moves, Succeeds, Follows, Fails, Caught, Dies
<1>3. CASE Throw(c)
  <2>1. child \in Children /\ child[c] \in ChildState  BY DEF TypeOK, Children
  <2>2. child'[c].pc = Caught(child[c].pc)
    BY <1>3, <2>1 DEF Throw, Raise, Children, ChildState
  <2> QED  BY <2>2 DEF Caught
<1>4. CASE Die(c)
  <2>1. child \in Children /\ child[c] \in ChildState  BY DEF TypeOK, Children
  <2>2. child'[c].pc = "dead"
    BY <1>4, <2>1 DEF Die, Goto, Children, ChildState
  <2> QED  BY <2>2
<1>5. CASE Execute(c)
  <2>1. UpdateClientTorrents(c) \/ CreateClientTorrent(c)
    BY <1>2, <1>5
       DEF Execute, At, GetUserId, UserCanLeech, IpaIsBanned, TorrentExists, GetIpaId,
           CreateIpAddress, GetIpaIdAgain, GetClientId, UpdateClient, CreateClient,
           SetOldUploadAndDownload, NewSeedMinutes, TotalTimeActive, CalcBonusPoints,
           UpdateUserBonusPoints, TotalsExist, UpdateUserTorrentTotals,
           CreateUserTorrentTotals, GetTorrentData, GetPeers, BuildErrorDict, BuildDictionary
  <2> QED  BY <2>1, RecordStep
<1> QED  BY <1>3, <1>4, <1>5 DEF ChildStep

LEMMA RecordInvStep ==
  ASSUME TypeOK, RecordInv, NEW c \in Child, ChildStep(c)
  PROVE  RecordInv'
<1> DEFINE x == child[c]
           y == child'[c]
<1>1. Moves(x, y) /\ \A d \in Child \ {c} : child'[d] = child[d]
  BY ChildStepEffect DEF Effect
<1>2. RecordsKept  BY ChildStepTables DEF TableEffect
<1>3. ASSUME NEW d \in Child \ {c} PROVE RecordOf(d)'
  <2>1. child'[d] = child[d]  BY <1>1
  <2> QED  BY <1>2, <2>1 DEF RecordInv, RecordOf, HasRecord, RecordsKept
<1>4. RecordOf(c)'
  <2>0. y.pc # "idle" /\ y.req = x.req
    BY <1>1 DEF Moves, Succeeds, Follows, Fails, Caught, Dies
  <2>1. CASE y.pc = "totalTimeActive"
    BY <2>0, <2>1, RecordMade DEF RecordOf, HasRecord
  <2>2. CASE y.pc # "totalTimeActive"
    <3>1. y.recorded = x.recorded  BY <2>2, FieldStep DEF FieldsKept
    <3>2. y.pc \in WithRecord => x.pc \in WithRecord
      BY <1>1, <2>2 DEF Moves, Succeeds, Follows, Fails, Caught, Dies, WithRecord,
         UpdateStatement, BonusStatement, TotalsStatement
    <3> QED  BY <1>2, <2>0, <3>1, <3>2 DEF RecordInv, RecordOf, HasRecord, RecordsKept
  <2> QED  BY <2>1, <2>2
<1> QED  BY <1>3, <1>4 DEF RecordInv

LEMMA RecordHolds == Spec => []RecordInv
<1>1. Init => RecordInv
  BY IdleFields DEF Init, RecordInv, RecordOf, WithRecord, BonusStatement, TotalsStatement
<1>2. TypeOK /\ RecordInv /\ [Next]_vars => RecordInv'
  <2> SUFFICES ASSUME TypeOK, RecordInv, [Next]_vars PROVE RecordInv'
    OBVIOUS
  <2>1. ASSUME NEW c \in Child, NEW r \in Request, Fork(c, r) PROVE RecordInv'
    <3>0. child \in Children  BY DEF TypeOK, Children
    <3>1. clientTorrents' = clientTorrents  BY <2>1 DEF Fork, rows
    <3>2. /\ child[c].pc = "idle" /\ child'[c].pc = "getUserId"
          /\ child'[c].recorded = child[c].recorded
          /\ \A d \in Child \ {c} : child'[d] = child[d]
      BY <2>1, <3>0, ForkEffect
    <3>3. child'[c].recorded = {}  BY <3>2 DEF RecordInv, RecordOf
    <3>4. RecordOf(c)'
      BY <3>2, <3>3 DEF RecordOf, WithRecord, BonusStatement, TotalsStatement
    <3> QED  BY <3>1, <3>2, <3>4 DEF RecordInv, RecordOf, HasRecord
  <2>2. ASSUME NEW c \in Child, ChildStep(c) PROVE RecordInv'
    BY <2>2, RecordInvStep
  <2>3. CASE EnvironmentStep
    BY <2>3, EnvironmentEffect DEF RecordInv, RecordOf, HasRecord
  <2> QED  BY <2>1, <2>2, <2>3, StepKinds
<1> QED  BY <1>1, <1>2, TypeCorrect, PTL DEF Spec

\* Whoever is credited by a step of child c, it is the user of c's announce, and
\* the totals are those of its torrent.
LEMMA CreditOf ==
  ASSUME TypeOK, NEW c \in Child, ChildStep(c), ~UNCHANGED <<totals, points>>
  PROVE  /\ child[c].pc \in WithRecord /\ child'[c] # child[c]
         /\ \A k \in DOMAIN totals' :
              k = TotalsKey(c) \/ (k \in DOMAIN totals /\ totals'[k] = totals[k])
         /\ \A u \in User : u = child[c].req.user \/ points'[u] = points[u]
<1>1. UpdateUserBonusPoints(c) \/ UpdateUserTorrentTotals(c) \/ CreateUserTorrentTotals(c)
  <2>1. CASE Execute(c) /\ ~Writes(c)  BY <2>1, OthersRead DEF rows
  <2>2. CASE Throw(c) \/ Die(c)  BY <2>2 DEF Throw, Die, rows
  <2>3. CASE Writes(c)
    BY <2>3 DEF Writes, CreateIpAddress, UpdateClient, CreateClient, UpdateClientTorrents,
       CreateClientTorrent
  <2> QED  BY <2>1, <2>2, <2>3 DEF ChildStep
<1>2. child[c].pc \in BonusStatement \cup TotalsStatement
  BY <1>1 DEF UpdateUserBonusPoints, UpdateUserTorrentTotals, CreateUserTorrentTotals, At,
     BonusStatement, TotalsStatement
<1>3. child'[c].pc # child[c].pc
  <2>1. Moves(child[c], child'[c])  BY ChildStepEffect DEF Effect
  <2> QED
    BY <1>2, <2>1 DEF Moves, Succeeds, Follows, Fails, Caught, Dies, UpdateStatement,
       BonusStatement, TotalsStatement, Ended
<1>4. CASE UpdateUserBonusPoints(c)
  BY <1>2, <1>3, <1>4 DEF UpdateUserBonusPoints, TypeOK, WithRecord
<1>5. CASE UpdateUserTorrentTotals(c)
  BY <1>2, <1>3, <1>5 DEF UpdateUserTorrentTotals, TypeOK, WithRecord
<1>6. CASE CreateUserTorrentTotals(c)
  BY <1>2, <1>3, <1>6 DEF CreateUserTorrentTotals, Put, WithRecord
<1> QED  BY <1>1, <1>4, <1>5, <1>6

\* What RecordedBeforeCredit says of one step.
CreditOnRecord ==
  /\ \A k \in DOMAIN totals' : (k \in DOMAIN totals => totals'[k] # totals[k]) =>
       \E c \in Child : Entitled(c) /\ TotalsKey(c) = k
  /\ \A u \in User : points'[u] # points[u] =>
       \E c \in Child : Entitled(c) /\ child[c].req.user = u

\* A user's total for a torrent and a user's points change only in a step of a
\* child whose own announce, of that user and for that torrent, is on record:
\* whatever fails between the two tables, no credit is invented.
THEOREM CreditFollowsRecord == Spec => RecordedBeforeCredit
<1>1. TypeOK /\ RecordInv /\ [Next]_vars => [CreditOnRecord]_<<totals, points>>
  <2> SUFFICES ASSUME TypeOK, RecordInv, [Next]_vars, ~UNCHANGED <<totals, points>>
               PROVE  CreditOnRecord
    OBVIOUS
  <2>1. ASSUME NEW c \in Child, NEW r \in Request, Fork(c, r) PROVE FALSE
    BY <2>1 DEF Fork, rows
  <2>2. ASSUME NEW c \in Child, ChildStep(c) PROVE CreditOnRecord
    <3>1. Entitled(c)  BY <2>2, CreditOf DEF Entitled, RecordInv, RecordOf
    <3> QED  BY <2>2, <3>1, CreditOf DEF CreditOnRecord
  <2>3. CASE EnvironmentStep
    BY <2>3, EnvironmentEffect
  <2> QED  BY <2>1, <2>2, <2>3, StepKinds
<1>2. [CreditOnRecord]_<<totals, points>> =>
        [/\ \A k \in DOMAIN totals' : (k \in DOMAIN totals => totals'[k] # totals[k]) =>
              \E c \in Child : Entitled(c) /\ TotalsKey(c) = k
         /\ \A u \in User : points'[u] # points[u] =>
              \E c \in Child : Entitled(c) /\ child[c].req.user = u]_<<totals, points>>
  BY DEF CreditOnRecord
<1> QED  BY <1>1, <1>2, TypeCorrect, RecordHolds, PTL DEF Spec, RecordedBeforeCredit

----------------------------------------------------------------------------
\* The sum alone is not inductive: the credit of a child is assigned, so it must
\* still be zero when the child comes to the totals, and the row that totalsExist
\* has found must still be there for the UPDATE.
Credited == AnswerStatement \cup {"buildErrorDict", "buildDictionary"} \cup Ended

Account(k)  == {c \in Child : TotalsKey(c) = k}
Credits(n)  == [c \in Child |-> child[c].credit[n]]
Total(k, n) == IF k \in DOMAIN totals THEN totals[k].bytes[n] ELSE 0

CreditInv ==
  /\ \A k \in User \X Torrent, n \in Counter : Sum(Credits(n), Account(k)) = Total(k, n)
  /\ \A c \in Child : child[c].pc \notin Credited => child[c].credit = Zero
  /\ \A c \in Child : At(c, "updateUserTorrentTotals") => TotalsKey(c) \in DOMAIN totals

\* What a child credits is what its step adds to the totals of its key.
LEMMA CreditAdded ==
  ASSUME TypeOK, CreditInv, NEW c \in Child, ChildStep(c),
         NEW k \in User \X Torrent, NEW n \in Counter
  PROVE  Total(k, n)' = Total(k, n) + (IF k = TotalsKey(c)
                                       THEN child'[c].credit[n] - child[c].credit[n] ELSE 0)
<1>0. child \in Children /\ child[c] \in ChildState  BY DEF TypeOK, Children
<1>1. Total(k, n) \in Nat /\ child[c].credit[n] \in Nat /\ child[c].req.bytes \in Bytes
  <2>1. Word \subseteq Nat  BY WAssumption DEF Word
  <2>2. child[c].credit \in Bytes /\ child[c].req.bytes \in Bytes
    BY <1>0 DEF ChildState, RequestType
  <2>3. k \in DOMAIN totals => totals[k].bytes \in Bytes
    BY DEF TypeOK, TotalsRow
  <2> QED  BY <2>1, <2>2, <2>3 DEF Total, Bytes
<1>2. CASE totals' = totals /\ child'[c].credit = child[c].credit
  BY <1>1, <1>2 DEF Total
<1> DEFINE inc == [m \in Counter |-> Increment(child[c].req.bytes[m], child[c].old[m])]
           sum == [m \in Counter |-> totals[TotalsKey(c)].bytes[m] + inc[m]]
<1>3. CASE /\ child[c].pc = "updateUserTorrentTotals" /\ UpdateUserTorrentTotals(c)
           /\ sum \in Bytes
           /\ child' = [child EXCEPT ![c].pc = "getTorrentData", ![c].credit = inc]
           /\ totals' = [totals EXCEPT ![TotalsKey(c)] =
                [bytes |-> sum, timeActive |-> totals[TotalsKey(c)].timeActive + child[c].minutes]]
  <2>1. child[c].credit[n] = 0
    BY <1>3 DEF CreditInv, Credited, AnswerStatement, Ended, Zero
  <2>2. child'[c].credit = inc  BY <1>0, <1>3 DEF Children, ChildState
  <2>3. TotalsKey(c) \in DOMAIN totals  BY <1>3 DEF CreditInv, At
  <2>4. totals'[TotalsKey(c)].bytes = sum /\ DOMAIN totals' = DOMAIN totals
        /\ \A j \in DOMAIN totals : j # TotalsKey(c) => totals'[j] = totals[j]
    BY <1>3, <2>3
  <2>5. sum[n] = totals[TotalsKey(c)].bytes[n] + inc[n]  OBVIOUS
  <2>6. inc[n] \in Nat
    <3>1. child[c].req.bytes[n] \in Word /\ child[c].old[n] \in Word
      BY <1>0 DEF ChildState, RequestType, Bytes
    <3>2. inc[n] = Increment(child[c].req.bytes[n], child[c].old[n])  OBVIOUS
    <3>3. Word \subseteq Nat  BY WAssumption DEF Word
    <3>4. Increment(child[c].req.bytes[n], child[c].old[n]) \in Word  BY <3>1, IncrementType
    <3> QED  BY <3>2, <3>3, <3>4
  <2> HIDE DEF sum, inc
  <2> QED  BY <1>1, <2>1, <2>2, <2>3, <2>4, <2>5, <2>6 DEF Total
<1>4. CASE /\ child[c].pc = "createUserTorrentTotals"
           /\ TotalsKey(c) \notin DOMAIN totals
           /\ child' = [child EXCEPT ![c].pc = "getTorrentData", ![c].credit = child[c].req.bytes]
           /\ totals' = Put(totals, TotalsKey(c), [bytes |-> child[c].req.bytes, timeActive |-> 0])
  <2>1. child[c].credit[n] = 0
    BY <1>4 DEF CreditInv, Credited, AnswerStatement, Ended, Zero
  <2>2. child'[c].credit = child[c].req.bytes /\ child[c].req.bytes[n] \in Nat
    BY <1>0, <1>1, <1>4, WAssumption DEF Children, ChildState, Bytes, Word
  <2> QED  BY <1>1, <1>4, <2>1, <2>2 DEF Total, Put
<1>5. CASE Raise(c) /\ UNCHANGED totals
  <2>1. child'[c].credit = child[c].credit  BY <1>0, <1>5 DEF Raise, Children, ChildState
  <2> QED  BY <1>2, <1>5, <2>1
<1>6. CASE UpdateUserTorrentTotals(c)
  BY <1>3, <1>5, <1>6 DEF UpdateUserTorrentTotals, At
<1>7. CASE CreateUserTorrentTotals(c)
  BY <1>4, <1>5, <1>7 DEF CreateUserTorrentTotals, At
<1>8. CASE ~UpdateUserTorrentTotals(c) /\ ~CreateUserTorrentTotals(c)
  <2>1. child'[c].credit = child[c].credit  BY <1>8, FieldStep DEF FieldsKept
  <2>2. totals' = totals
    <3>1. CASE Execute(c) /\ ~Writes(c)  BY <3>1, OthersRead DEF rows
    <3>2. CASE Writes(c)
      BY <1>8, <3>2 DEF Writes, CreateIpAddress, UpdateClient, CreateClient, UpdateClientTorrents,
         CreateClientTorrent, UpdateUserBonusPoints
    <3>3. CASE Throw(c) \/ Die(c)  BY <3>3 DEF Throw, Die, rows
    <3> QED  BY <3>1, <3>2, <3>3 DEF ChildStep
  <2> QED  BY <1>2, <2>1, <2>2
<1> QED  BY <1>6, <1>7, <1>8

\* A term that has not changed leaves the sums as they are.
LEMMA CreditsSum ==
  ASSUME TypeOK, NEW n \in Counter, NEW S \in SUBSET Child
  PROVE  /\ IsFiniteSet(S)
         /\ \A c \in S : Credits(n)[c] = child[c].credit[n] /\ Credits(n)[c] \in Int
<1>1. IsFiniteSet(S)  BY ChildAssumption, FS_Subset
<1>2. \A c \in Child : child[c].credit \in Bytes  BY DEF TypeOK, ChildState
<1> QED  BY <1>1, <1>2, WAssumption DEF Credits, Bytes, Word

LEMMA CreditStep ==
  ASSUME TypeOK, TypeOK', CreditInv, NEW c \in Child, ChildStep(c)
  PROVE  CreditInv'
<1>1. Moves(child[c], child'[c]) /\ \A d \in Child \ {c} : child'[d] = child[d]
  BY ChildStepEffect DEF Effect
<1>2. \A d \in Child : TotalsKey(d)' = TotalsKey(d)
  BY <1>1 DEF Moves, TotalsKey
<1>3. ASSUME NEW k \in User \X Torrent, NEW n \in Counter
      PROVE  Sum(Credits(n), Account(k))' = Total(k, n)'
  <2> DEFINE S == Account(k)
  <2>0. S \in SUBSET Child /\ S' = S  BY <1>2 DEF Account
  <2>1. Sum(Credits(n), S) = Total(k, n)  BY DEF CreditInv
  <2>2. IsFiniteSet(S) /\ \A d \in S : Credits(n)[d] = child[d].credit[n] /\ Credits(n)[d] \in Int
    BY <2>0, CreditsSum
  <2>3. \A d \in S : Credits(n)'[d] = child'[d].credit[n] /\ Credits(n)'[d] \in Int
    <3>1. \A d \in Child : child'[d].credit \in Bytes  BY DEF TypeOK, ChildState
    <3> QED  BY <2>0, <3>1, WAssumption DEF Credits, Bytes, Word
  <2>4. Total(k, n)' = Total(k, n) + (IF k = TotalsKey(c)
                                      THEN child'[c].credit[n] - child[c].credit[n] ELSE 0)
    BY CreditAdded
  <2>5. Total(k, n) \in Int  BY <2>1, <2>2, SumAny
  <2>6. c \in S <=> k = TotalsKey(c)  BY DEF Account
  <2> HIDE DEF S
  <2>7. CASE c \in S
    <3>1. \A d \in S \ {c} : Credits(n)[d] = Credits(n)'[d]  BY <1>1, <2>0, <2>2, <2>3
    <3>2. Sum(Credits(n)', S) = Sum(Credits(n), S) - Credits(n)[c] + Credits(n)'[c]
      BY <2>2, <2>3, <2>7, <3>1, SumChange
    <3> QED  BY <2>0, <2>1, <2>2, <2>3, <2>4, <2>5, <2>6, <2>7, <3>2 DEF S, Sum
  <2>8. CASE c \notin S
    <3>1. \A d \in S : Credits(n)[d] = Credits(n)'[d]  BY <1>1, <2>0, <2>2, <2>3, <2>8
    <3>2. Sum(Credits(n)', S) = Sum(Credits(n), S)  BY <2>2, <3>1, SumSame
    <3> QED  BY <2>0, <2>1, <2>4, <2>5, <2>6, <2>8, <3>2 DEF S, Sum
  <2> QED  BY <2>7, <2>8
<1>4. child'[c].pc \notin Credited => child'[c].credit = Zero
  <2>1. child'[c].pc \notin Credited => child[c].pc \notin Credited
    BY <1>1 DEF Moves, Succeeds, Follows, Fails, Caught, Dies, Credited, Ended, AnswerStatement,
       UpdateStatement, BonusStatement
  <2>2. child'[c].pc \notin Credited =>
          child[c].pc \notin {"updateUserTorrentTotals", "createUserTorrentTotals"}
    BY <1>1 DEF Moves, Succeeds, Follows, Fails, Caught, Dies, Credited, Ended, AnswerStatement,
       UpdateStatement, BonusStatement
  <2>3. child'[c].pc \notin Credited => child'[c].credit = child[c].credit
    BY <2>2, FieldStep DEF FieldsKept, UpdateUserTorrentTotals, CreateUserTorrentTotals, At
  <2> QED  BY <2>1, <2>3 DEF CreditInv
<1>5. child'[c].pc = "updateUserTorrentTotals" => TotalsKey(c) \in DOMAIN totals
  <2> SUFFICES ASSUME child'[c].pc = "updateUserTorrentTotals" PROVE TotalsKey(c) \in DOMAIN totals
    OBVIOUS
  <2>0. child \in Children /\ child[c] \in ChildState  BY DEF TypeOK, Children
  <2>1. child[c].pc = "totalsExist"
    BY <1>1 DEF Moves, Succeeds, Follows, Fails, Caught, Dies
  <2>2. TotalsExist(c) \/ Throw(c) \/ Die(c)
    BY <2>1 DEF ChildStep, Execute, At, GetUserId, UserCanLeech, IpaIsBanned, TorrentExists, GetIpaId,
       CreateIpAddress, GetIpaIdAgain, GetClientId, UpdateClient, CreateClient,
       SetOldUploadAndDownload, NewSeedMinutes, UpdateClientTorrents, CreateClientTorrent,
       TotalTimeActive, CalcBonusPoints, UpdateUserBonusPoints, UpdateUserTorrentTotals,
       CreateUserTorrentTotals, GetTorrentData, GetPeers, BuildErrorDict, BuildDictionary
  <2>3. CASE TotalsExist(c)
    BY <2>0, <2>3 DEF TotalsExist, Goto, Children, ChildState
  <2>4. CASE Throw(c)
    BY <2>0, <2>1, <2>4 DEF Throw, Raise, Caught, Children, ChildState, UpdateStatement, BonusStatement
  <2>5. CASE Die(c)
    BY <2>0, <2>5 DEF Die, Goto, Children, ChildState
  <2> QED  BY <2>2, <2>3, <2>4, <2>5
<1>6. DOMAIN totals \subseteq DOMAIN totals'
  BY ChildStepTables DEF TableEffect, TotalsGrow
<1> QED  BY <1>1, <1>2, <1>3, <1>4, <1>5, <1>6 DEF CreditInv, At

\* A fork moves an idle child, which has no credit, from one key to another.
LEMMA CreditFork ==
  ASSUME TypeOK, CreditInv, NEW c \in Child, NEW r \in Request, Fork(c, r)
  PROVE  CreditInv'
<1>0. child \in Children  BY DEF TypeOK, Children
<1>1. /\ child[c].pc = "idle" /\ child'[c].pc = "getUserId" /\ totals' = totals
      /\ \A d \in Child \ {c} : child'[d] = child[d]
  BY <1>0, ForkEffect DEF Fork, rows
<1>2. child'[c].credit = child[c].credit
  BY <1>0 DEF Fork, Children, ChildState
<1>3. child[c].credit = Zero  BY <1>1 DEF CreditInv, Credited, AnswerStatement, Ended
<1>4. ASSUME NEW k \in User \X Torrent, NEW n \in Counter
      PROVE  Sum(Credits(n), Account(k))' = Total(k, n)'
  <2> DEFINE f == Credits(n)
             S == Account(k)
             T == Account(k)'
  <2>1. Sum(f, S) = Total(k, n) /\ Total(k, n)' = Total(k, n)
    BY <1>1 DEF CreditInv, Total
  <2>2. f' = f  BY <1>1, <1>2 DEF Credits
  <2>3. S \in SUBSET Child /\ T \in SUBSET Child /\ S \ {c} = T \ {c}
    BY <1>1 DEF Account, TotalsKey
  <2>4. IsFiniteSet(S) /\ IsFiniteSet(T) /\ \A d \in S \cup T : f[d] \in Int
    BY <2>3, CreditsSum
  <2>5. f[c] = 0  BY <1>3 DEF Credits, Zero
  <2> HIDE DEF f, S, T
  <2>6. ASSUME NEW U, IsFiniteSet(U), \A d \in U : f[d] \in Int PROVE Sum(f, U) = Sum(f, U \ {c})
    <3>1. CASE c \in U
      <4>1. Sum(f, U) = f[c] + Sum(f, U \ {c})  BY <2>6, <3>1, SumAny
      <4>2. IsFiniteSet(U \ {c})  BY <2>6, FS_Subset
      <4>3. Sum(f, U \ {c}) \in Int  BY <2>6, <4>2, SumAny
      <4> QED  BY <2>5, <4>1, <4>3
    <3>2. CASE c \notin U
      <4>1. U \ {c} = U  BY <3>2
      <4> QED  BY <4>1
    <3> QED  BY <3>1, <3>2
  <2>7. Sum(f, S) = Sum(f, T)
    <3>1. Sum(f, S) = Sum(f, S \ {c})  BY <2>4, <2>6
    <3>2. Sum(f, T) = Sum(f, T \ {c})  BY <2>4, <2>6
    <3> QED  BY <2>3, <3>1, <3>2
  <2> QED  BY <2>1, <2>2, <2>7 DEF f, S, T, Sum
<1> QED  BY <1>1, <1>2, <1>3, <1>4 DEF CreditInv, At, TotalsKey

\* The clock and the web site credit nothing.
LEMMA CreditEnvironment ==
  ASSUME TypeOK, CreditInv, EnvironmentStep
  PROVE  CreditInv'
<1>1. totals' = totals /\ \A d \in Child : child'[d].pc = child[d].pc /\ child'[d].req = child[d].req
  BY EnvironmentEffect
<1>2. \A d \in Child : child'[d].credit = child[d].credit
  <2>1. CASE Tick \/ UNCHANGED vars  BY <2>1 DEF Tick, vars
  <2>2. ASSUME NEW a, NEW h, NEW i, Watch(a, h, i), NEW d \in Child
        PROVE  child'[d].credit = child[d].credit
    <3>1. child[d] \in ChildState  BY DEF TypeOK
    <3> QED  BY <2>2, <3>1 DEF Watch, ChildState
  <2> QED  BY <2>1, <2>2 DEF EnvironmentStep, Site, SetAccount, SetBan, SetTorrent
<1>3. \A n : Credits(n)' = Credits(n)  BY <1>2 DEF Credits
<1>4. \A k : Account(k)' = Account(k)  BY <1>1 DEF Account, TotalsKey
<1> QED  BY <1>1, <1>2, <1>3, <1>4 DEF CreditInv, At, TotalsKey, Total, Sum

LEMMA CreditHolds == Spec => []CreditInv
<1>1. Init => CreditInv
  <2> SUFFICES ASSUME Init PROVE CreditInv
    OBVIOUS
  <2>1. child = [c \in Child |-> Idle] /\ totals = Empty  BY DEF Init
  <2>2. Idle.pc = "idle" /\ Idle.credit = Zero  BY DEF Idle
  <2>3. ASSUME NEW k \in User \X Torrent, NEW n \in Counter
        PROVE  Sum(Credits(n), Account(k)) = Total(k, n)
    <3>1. IsFiniteSet(Account(k))  BY ChildAssumption, FS_Subset DEF Account
    <3>2. \A c \in Account(k) : Credits(n)[c] = 0
      BY <2>1, <2>2 DEF Account, Credits, Zero
    <3>3. Sum(Credits(n), Account(k)) = 0  BY <3>1, <3>2, SumZero
    <3> QED  BY <2>1, <3>3 DEF Total, Empty
  <2> QED  BY <2>1, <2>2, <2>3 DEF CreditInv, At
<1>2. TypeOK /\ TypeOK' /\ CreditInv /\ [Next]_vars => CreditInv'
  BY StepKinds, CreditStep, CreditFork, CreditEnvironment
<1> QED  BY <1>1, <1>2, TypeCorrect, PTL DEF Spec

\* Whatever the interleaving, the failures and the number of children, each total
\* is the sum of what the children have credited to it: updateUserTorrentTotals
\* adds in the statement, createUserTorrentTotals inserts, and neither overwrites.
THEOREM NoCreditIsLost == Spec => []NoLostCredit
<1>1. CreditInv => NoLostCredit
  BY DEF CreditInv, NoLostCredit, Sum, Credits, Account, Total
<1> QED  BY <1>1, CreditHolds, PTL

=============================================================================
