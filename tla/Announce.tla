------------------------------ MODULE Announce ------------------------------
(***************************************************************************)
(* The announce path of the tracker: the children that Server::central     *)
(* forks, one per accepted connection, each running                        *)
(* Database::insertClientInfo and Database::getTorrent against one shared  *)
(* MySQL database (Server.cpp, Database.cpp).                              *)
(*                                                                         *)
(* No transaction is ever opened, so every SQL statement commits by itself *)
(* and is one atomic step here; between two statements of a child any      *)
(* other child, the web site or the clock may move.  child[c].pc is the    *)
(* statement child c executes next.  The tables are kept by another        *)
(* program; what is assumed of their keys is said where they are declared. *)
(***************************************************************************)
EXTENDS Integers, Sequences, FiniteSets, FiniteSetsExt

CONSTANTS
  Child,          \* the processes that central() can fork, one announce each
  User, Torrent, Ip, Port, PeerId,
  Request,        \* the announces that may arrive
  W,              \* 64-bit counters range over 0..W-1 (W stands for 2^64)
  PeerTimeout,    \* minutes without an announce after which a peer is stale
  UniqueTorrentClient, \* whether clientTorrents has a unique key (torrentId, clientId)
  DefaultActive,  \* the column default of clientTorrents.isActive
  \* Bounds of the model, not of the code:
  MaxConcurrent,  \* children alive at the same time
  MaxTime,        \* minutes on the clock
  MaxFaults,      \* SQL exceptions raised and children killed
  MaxWeb          \* changes the web site makes

\* The two byte counters every announce carries and every table accumulates.
Counter == {"downloaded", "uploaded"}
Word    == 0 .. W - 1
Bytes   == [Counter -> Word]
Zero    == [n \in Counter |-> 0]

\* Database::parseEventString: stopped = 3, started = 2, completed = 1, else 0.
Event == {"bump", "completed", "started", "stopped"}

\* What AnnounceInfo holds of the message.  The user is the one whose
\* torrentPass is in the URL; an unknown pass is a user without an account.
RequestType ==
  [user : User, ip : Ip, port : Port, peer : PeerId, torrent : Torrent,
   event : Event, left : 0 .. 1, bytes : Bytes]

ASSUME ChildAssumption   == IsFiniteSet(Child)
ASSUME WAssumption       == W \in Nat \ {0}
ASSUME RequestAssumption == Request # {} /\ Request \subseteq RequestType
ASSUME SchemaAssumption  == UniqueTorrentClient \in BOOLEAN /\ DefaultActive \in 0 .. 1
ASSUME BoundAssumption   ==
  {PeerTimeout, MaxConcurrent, MaxTime, MaxFaults, MaxWeb} \subseteq Nat

VARIABLES
  child,          \* child[c]: the local state of child c
  account,        \* user: "absent", "barred" (canLeech = 0) or "member"
  torrents,       \* torrent: the info hashes that have a row
  ipAddress,      \* ipAddress: the row of each known address (ipa is unique)
  client,         \* client: a sequence of rows, the id is the position
                  \*   ((peerId, port, ipaId) is unique)
  clientTorrents, \* clientTorrents: a sequence of rows
  totals,         \* userTorrentTotals: rows by (userId, torrentId), unique
  points,         \* user.points, as the number of minutes rewarded
  now,            \* NOW(), in minutes
  faults, web     \* how much of MaxFaults and MaxWeb is used

site  == <<account, torrents, web>>
rows  == <<ipAddress, client, clientTorrents, totals, points>>
vars  == <<child, site, rows, now, faults>>

IpRow      == [user : User, isBanned : BOOLEAN]
ClientRow  == [peer : PeerId, ip : Ip, port : Port]
TorrentRow == [torrent : Torrent, client : Nat, isActive : 0 .. 1,
               left : 0 .. 1, bytes : Bytes, lastActivity : Nat]
TotalsRow  == [bytes : Bytes, timeActive : Nat]

\* The statements on the way to an answer, in the functions that issue them.
GateStatement   == {"getUserId", "userCanLeech", "ipaIsBanned", "torrentExists"}
ClientStatement == {"getIpaId", "createIpAddress", "getIpaIdAgain", "getClientId",
                    "updateClient", "createClient", "setOldUploadAndDownload"}
UpdateStatement == {"newSeedMinutes", "updateClientTorrents"}
BonusStatement  == {"totalTimeActive", "calcBonusPoints", "updateUserBonusPoints"}
TotalsStatement == {"totalsExist", "updateUserTorrentTotals", "createUserTorrentTotals"}
AnswerStatement == {"getTorrentData", "getPeers"}
Statement == GateStatement \cup ClientStatement \cup UpdateStatement \cup
             {"createClientTorrent"} \cup BonusStatement \cup TotalsStatement \cup
             AnswerStatement

Ended   == {"done", "dead"}
Pc      == Statement \cup {"idle", "buildErrorDict", "buildDictionary"} \cup Ended
Live(c) == child[c].pc \notin {"idle"} \cup Ended

\* The checks an announce has to pass before it touches the tables.
Gate == {"member", "notBanned", "torrent"}

\* What Database::errorMessage is ever set to.
Message == {"Unknown Error.", "User not found!", "You do not have the privilege to leech!",
            "You are using a banned IP Address!", "Torrent doesn't exist!"}

ChildState ==
  [pc : Pc,
   req : RequestType,
   again : BOOLEAN,           \* inside getClientId(false), the second attempt
   clientId : Nat,            \* annInfo->clientId, 0 before it is set
   old : Bytes,               \* annInfo->oldDownload and oldUpload
   minutes : Nat,             \* newSeedMinutes
   errorMessage : Message,
   seeders : Nat, leechers : Nat,
   peers : SUBSET Nat,        \* the clientTorrents rows listed as peers
   reply : {"none", "error", "peers"},
   \* History, read by properties only:
   open : SUBSET Gate,        \* the gates that were open at some time since the fork
   failed : SUBSET Statement, \* the statements that raised an exception
   recorded : SUBSET Nat,     \* the clientTorrents rows that this child has written
   credit : Bytes]            \* what this child has added to the totals

----------------------------------------------------------------------------
\* Tables as partial functions: the row of key k becomes v.
Empty == [x \in {} |-> 0]
Put(table, k, v) == [x \in DOMAIN table \cup {k} |-> IF x = k THEN v ELSE table[x]]

Banned(ip, addresses) == ip \in DOMAIN addresses /\ addresses[ip].isBanned

\* The gates that a request r finds open, given what the tables hold.
OpenGates(r, accounts, hashes, addresses) ==
  {g \in Gate : \/ g = "member"    /\ accounts[r.user] = "member"
                \/ g = "notBanned" /\ ~Banned(r.ip, addresses)
                \/ g = "torrent"   /\ r.torrent \in hashes}

\* Mutant of ClientIds: without "AND port = ?".
ClientIdsAnyPort(r) == {i \in DOMAIN client : client[i].peer = r.peer /\ client[i].ip = r.ip}

\* SELECT id FROM client WHERE peerId = ? AND port = ? AND ipaId = ?
ClientIds(r) ==
  {i \in DOMAIN client : client[i] = [peer |-> r.peer, ip |-> r.ip, port |-> r.port]}

\* The rows of clientTorrents WHERE torrentId = ? AND clientId = ?
TorrentClientRows(t, k) ==
  {i \in DOMAIN clientTorrents : clientTorrents[i].torrent = t /\ clientTorrents[i].client = k}

\* Mutant of UserTorrentRows: only active records are updated.
ActiveTorrentRows(t, u) ==
  {i \in DOMAIN clientTorrents :
     /\ clientTorrents[i].torrent = t /\ clientTorrents[i].isActive = 1
     /\ account[u] # "absent"
     /\ ipAddress[client[clientTorrents[i].client].ip].user = u}

\* The rows that the UPDATE of updateClientTorrents joins: those of the torrent
\* whose client's address belongs to the announcing user, whatever the client.
UserTorrentRows(t, u) ==
  {i \in DOMAIN clientTorrents :
     /\ clientTorrents[i].torrent = t
     /\ account[u] # "absent"
     /\ ipAddress[client[clientTorrents[i].client].ip].user = u}

\* Active rows that announced less than PeerTimeout minutes ago.
Fresh(i) == clientTorrents[i].isActive = 1 /\ now - clientTorrents[i].lastActivity < PeerTimeout

\* Mutants of Increment: a signed difference, and the absolute counter.
SignedIncrement(reported, recorded)   == reported - recorded
AbsoluteIncrement(reported, recorded) == reported

\* Both increments are uint64_t: the subtraction wraps, and the test for a
\* negative increment, meant for a restarted client, never succeeds.
Increment(reported, recorded) ==
  LET difference == (reported - recorded) % W
  IN  IF difference < 0 THEN reported ELSE difference

----------------------------------------------------------------------------
\* A child before its announce; annInfo's old values and the error message have
\* the initial values of AnnounceInfo.h and Database.h.
Idle ==
  [pc |-> "idle", req |-> CHOOSE r \in Request : TRUE, again |-> FALSE, clientId |-> 0,
   old |-> Zero, minutes |-> 0, errorMessage |-> "Unknown Error.",
   seeders |-> 0, leechers |-> 0, peers |-> {}, reply |-> "none",
   open |-> {}, failed |-> {}, recorded |-> {}, credit |-> Zero]

Init ==
  /\ child = [c \in Child |-> Idle]
  /\ account \in [User -> {"absent", "barred", "member"}]
  /\ torrents \in SUBSET Torrent
  /\ ipAddress = Empty /\ client = << >> /\ clientTorrents = << >> /\ totals = Empty
  /\ points = [u \in User |-> 0]
  /\ now = 0 /\ faults = 0 /\ web = 0

At(c, s)        == child[c].pc = s
Goto(c, s)      == child' = [child EXCEPT ![c].pc = s]
Refuse(c)       == Goto(c, "buildErrorDict")
RefuseAs(c, m)  == child' = [child EXCEPT ![c].pc = "buildErrorDict", ![c].errorMessage = m]

\* Mutants of Caught: the catch block of ipaIsBanned returns false, "not banned";
\* that of updateClientTorrents only logs, and the credit follows all the same.
CaughtOpen(s) ==
  CASE s \in UpdateStatement -> "getTorrentData"
    [] s \in BonusStatement  -> "totalsExist"
    [] s = "ipaIsBanned"     -> "torrentExists"
    [] s = "getPeers"        -> "buildDictionary"
    [] OTHER                 -> "buildErrorDict"

CaughtLogging(s) ==
  CASE s \in UpdateStatement -> "totalTimeActive"
    [] s \in BonusStatement  -> "totalsExist"
    [] s = "getTorrentData"  -> "dead"
    [] s = "getPeers"        -> "buildDictionary"
    [] OTHER                 -> "buildErrorDict"

\* Where the catch block around statement s takes the child.  An exception in
\* updateClientTorrents' own statements returns true; those of the bonus are
\* only logged; getTorrentData returns an empty vector, which getTorrent
\* indexes; getPeers returns the empty list; every other catch returns false.
Caught(s) ==
  CASE s \in UpdateStatement   -> "getTorrentData"
    [] s \in BonusStatement    -> "totalsExist"
    [] s = "getTorrentData"    -> "dead"
    [] s = "getPeers"          -> "buildDictionary"
    [] OTHER                   -> "buildErrorDict"

\* The statement child c is at raises an SQLException and has no effect.
Raise(c) ==
  child' = [child EXCEPT ![c].pc = Caught(child[c].pc), ![c].failed = @ \cup {child[c].pc}]

\* Server::central accepts a connection and forks; the child reads and parses
\* announce r (Server::handle_client, parseAndInsertMessage, insertClientInfo).
Fork(c, r) ==
  /\ At(c, "idle")
  /\ Cardinality({d \in Child : Live(d)}) < MaxConcurrent
  /\ child' = [child EXCEPT ![c].pc = "getUserId", ![c].req = r,
                            ![c].open = OpenGates(r, account, torrents, ipAddress)]
  /\ UNCHANGED <<site, rows, now, faults>>

\* Mutant of GetUserId: userCanLeech is missing from the condition.
GetUserIdOnly(c) ==
  /\ At(c, "getUserId")
  /\ IF account[child[c].req.user] # "absent" THEN Goto(c, "ipaIsBanned") ELSE Refuse(c)
  /\ UNCHANGED <<site, rows, now, faults>>

\* SELECT id FROM user WHERE torrentPass = ?
GetUserId(c) ==
  /\ At(c, "getUserId")
  /\ IF account[child[c].req.user] # "absent" THEN Goto(c, "userCanLeech")
     ELSE RefuseAs(c, "User not found!")
  /\ UNCHANGED <<site, rows, now, faults>>

\* SELECT canLeech FROM user WHERE id = ?  Only a row that has gone since
\* getUserId sets the message; canLeech = 0 leaves it at "Unknown Error.".
UserCanLeech(c) ==
  /\ At(c, "userCanLeech")
  /\ CASE account[child[c].req.user] = "member" -> Goto(c, "ipaIsBanned")
       [] account[child[c].req.user] = "barred" -> Refuse(c)
       [] OTHER -> RefuseAs(c, "You do not have the privilege to leech!")
  /\ UNCHANGED <<site, rows, now, faults>>

\* SELECT isBanned FROM ipAddress WHERE ipa = ?  An unknown address is not banned.
IpaIsBanned(c) ==
  /\ At(c, "ipaIsBanned")
  /\ IF Banned(child[c].req.ip, ipAddress)
     THEN RefuseAs(c, "You are using a banned IP Address!")
     ELSE Goto(c, "torrentExists")
  /\ UNCHANGED <<site, rows, now, faults>>

\* Mutant of TorrentExists: its result is ignored.
TorrentExistsIgnored(c) ==
  /\ At(c, "torrentExists")
  /\ Goto(c, "getIpaId")
  /\ UNCHANGED <<site, rows, now, faults>>

\* SELECT id FROM torrent WHERE infoHash = ?
TorrentExists(c) ==
  /\ At(c, "torrentExists")
  /\ IF child[c].req.torrent \in torrents THEN Goto(c, "getIpaId")
     ELSE RefuseAs(c, "Torrent doesn't exist!")
  /\ UNCHANGED <<site, rows, now, faults>>

\* Mutant of GetIpaId: createIpAddress is left to the web site.
GetIpaIdOnly(c) ==
  /\ At(c, "getIpaId")
  /\ Goto(c, "getClientId")
  /\ UNCHANGED <<site, rows, now, faults>>

\* getIpaId(true): SELECT id FROM ipAddress WHERE ipa = ?
GetIpaId(c) ==
  /\ At(c, "getIpaId")
  /\ Goto(c, IF child[c].req.ip \in DOMAIN ipAddress THEN "getClientId" ELSE "createIpAddress")
  /\ UNCHANGED <<site, rows, now, faults>>

\* INSERT INTO ipAddress (ipa, userId): the address becomes the announcing
\* user's.  If another child has inserted it since getIpaId, the key is violated.
CreateIpAddress(c) ==
  LET r == child[c].req IN
  /\ At(c, "createIpAddress")
  /\ IF r.ip \in DOMAIN ipAddress
     THEN Raise(c) /\ UNCHANGED ipAddress
     ELSE /\ Goto(c, "getIpaIdAgain")
          /\ ipAddress' = Put(ipAddress, r.ip, [user |-> r.user, isBanned |-> FALSE])
  /\ UNCHANGED <<site, client, clientTorrents, totals, points, now, faults>>

\* getIpaId(false), after the INSERT.
GetIpaIdAgain(c) ==
  /\ At(c, "getIpaIdAgain")
  /\ Goto(c, IF child[c].req.ip \in DOMAIN ipAddress THEN "getClientId" ELSE "buildErrorDict")
  /\ UNCHANGED <<site, rows, now, faults>>

\* Mutants of GetClientId: the recursion has no end, or never tries updateClient.
GetClientIdUnbounded(c) ==
  LET ids == ClientIds(child[c].req) IN
  /\ At(c, "getClientId")
  /\ \/ \E i \in ids : child' = [child EXCEPT ![c].pc = "setOldUploadAndDownload",
                                              ![c].clientId = i]
     \/ ids = {} /\ Goto(c, "updateClient")
  /\ UNCHANGED <<site, rows, now, faults>>

GetClientIdCreating(c) ==
  LET ids == ClientIds(child[c].req) IN
  /\ At(c, "getClientId")
  /\ \/ \E i \in ids : child' = [child EXCEPT ![c].pc = "setOldUploadAndDownload",
                                              ![c].clientId = i]
     \/ ids = {} /\ child[c].again /\ Refuse(c)
     \/ ids = {} /\ ~child[c].again /\ Goto(c, "createClient")
  /\ UNCHANGED <<site, rows, now, faults>>

\* getClientId(recursive): an unknown client is updated or created once; the
\* second attempt (recursive = false) gives up.
GetClientId(c) ==
  LET ids == ClientIds(child[c].req) IN
  /\ At(c, "getClientId")
  /\ \/ \E i \in ids : child' = [child EXCEPT ![c].pc = "setOldUploadAndDownload",
                                              ![c].clientId = i]
     \/ ids = {} /\ child[c].again /\ Refuse(c)
     \/ ids = {} /\ ~child[c].again /\ Goto(c, "updateClient")
  /\ UNCHANGED <<site, rows, now, faults>>

----------------------------------------------------------------------------
\* UPDATE client SET peerId = ? WHERE ipaId = ? AND port = ?  MySQL counts the
\* rows that change.  Two rows of one endpoint cannot both take the new peerId.
UpdateClient(c) ==
  LET r        == child[c].req
      endpoint == {i \in DOMAIN client : client[i].ip = r.ip /\ client[i].port = r.port}
      changed  == {i \in endpoint : client[i].peer # r.peer}
  IN
  /\ At(c, "updateClient")
  /\ CASE changed = {} -> Goto(c, "createClient") /\ UNCHANGED client
       [] changed # {} /\ Cardinality(endpoint) > 1 -> Raise(c) /\ UNCHANGED client
       [] OTHER -> /\ child' = [child EXCEPT ![c].pc = "getIpaId", ![c].again = TRUE]
                   /\ client' = [i \in DOMAIN client |->
                                  IF i \in changed THEN [client[i] EXCEPT !.peer = r.peer]
                                  ELSE client[i]]
  /\ UNCHANGED <<site, ipAddress, clientTorrents, totals, points, now, faults>>

\* INSERT IGNORE INTO client: a row that another child has inserted meanwhile
\* is no error.
CreateClient(c) ==
  LET r == child[c].req IN
  /\ At(c, "createClient")
  /\ child' = [child EXCEPT ![c].pc = "getIpaId", ![c].again = TRUE]
  /\ client' = IF ClientIds(r) # {} THEN client
               ELSE Append(client, [peer |-> r.peer, ip |-> r.ip, port |-> r.port])
  /\ UNCHANGED <<site, ipAddress, clientTorrents, totals, points, now, faults>>

\* SELECT uploaded, downloaded FROM clientTorrents: without a row they stay 0.
SetOldUploadAndDownload(c) ==
  LET mine == TorrentClientRows(child[c].req.torrent, child[c].clientId) IN
  /\ At(c, "setOldUploadAndDownload")
  /\ \/ \E i \in mine : child' = [child EXCEPT ![c].pc = "newSeedMinutes",
                                               ![c].old = clientTorrents[i].bytes]
     \/ mine = {} /\ Goto(c, "newSeedMinutes")
  /\ UNCHANGED <<site, rows, now, faults>>

\* Mutants of NewSeedMinutes: the arguments of TIMESTAMPDIFF swapped, and the
\* minutes of a stopped client counted.
NewSeedMinutesReversed(c) ==
  LET mine == TorrentClientRows(child[c].req.torrent, child[c].clientId) IN
  /\ At(c, "newSeedMinutes")
  /\ \/ \E i \in mine :
          child' = [child EXCEPT ![c].pc = "updateClientTorrents",
                                 ![c].minutes = clientTorrents[i].lastActivity - now]
     \/ mine = {} /\ Goto(c, "updateClientTorrents")
  /\ UNCHANGED <<site, rows, now, faults>>

NewSeedMinutesStopped(c) ==
  LET mine == TorrentClientRows(child[c].req.torrent, child[c].clientId) IN
  /\ At(c, "newSeedMinutes")
  /\ \/ \E i \in mine :
          child' = [child EXCEPT ![c].pc = "updateClientTorrents",
                                 ![c].minutes = now - clientTorrents[i].lastActivity]
     \/ mine = {} /\ Goto(c, "updateClientTorrents")
  /\ UNCHANGED <<site, rows, now, faults>>

\* SELECT isActive, TIMESTAMPDIFF(MINUTE, lastActivity, NOW()) FROM clientTorrents
NewSeedMinutes(c) ==
  LET mine == TorrentClientRows(child[c].req.torrent, child[c].clientId) IN
  /\ At(c, "newSeedMinutes")
  /\ \/ \E i \in mine :
          child' = [child EXCEPT ![c].pc = "updateClientTorrents",
                                 ![c].minutes = IF clientTorrents[i].isActive = 0 THEN 0
                                                ELSE now - clientTorrents[i].lastActivity]
     \/ mine = {} /\ Goto(c, "updateClientTorrents")
  /\ UNCHANGED <<site, rows, now, faults>>

\* What a row of clientTorrents holds after c's announce.
Announced(c, active) ==
  LET r == child[c].req IN
  [torrent |-> r.torrent, client |-> child[c].clientId, isActive |-> active,
   left |-> r.left, bytes |-> r.bytes, lastActivity |-> now]

\* Child c has written its announce into these rows.
Record(c, written) ==
  child' = [child EXCEPT ![c].pc = "totalTimeActive", ![c].recorded = written]

\* UPDATE clientTorrents, client, ipAddress, user SET ...: every row of the
\* user's for this torrent becomes a row of the announcing client.  With a
\* unique key, rows that would become equal fail the statement, and the catch
\* block of updateClientTorrents returns true.
UpdateClientTorrents(c) ==
  LET r     == child[c].req
      mine  == UserTorrentRows(r.torrent, r.user)
      equal == mine \cup TorrentClientRows(r.torrent, child[c].clientId)
  IN
  /\ At(c, "updateClientTorrents")
  /\ CASE mine = {} -> Goto(c, "createClientTorrent") /\ UNCHANGED clientTorrents
       [] mine # {} /\ UniqueTorrentClient /\ Cardinality(equal) > 1 ->
            Raise(c) /\ UNCHANGED clientTorrents
       [] OTHER ->
            /\ Record(c, mine)
            /\ clientTorrents' = [i \in DOMAIN clientTorrents |->
                 IF i \in mine THEN Announced(c, IF r.event = "stopped" THEN 0 ELSE 1)
                 ELSE clientTorrents[i]]
  /\ UNCHANGED <<site, ipAddress, client, totals, points, now, faults>>

\* INSERT INTO clientTorrents: isActive is left to the column default, also
\* when the event is "stopped".
CreateClientTorrent(c) ==
  /\ At(c, "createClientTorrent")
  /\ IF UniqueTorrentClient /\ TorrentClientRows(child[c].req.torrent, child[c].clientId) # {}
     THEN Raise(c) /\ UNCHANGED clientTorrents
     ELSE /\ Record(c, {Len(clientTorrents) + 1})
          /\ clientTorrents' = Append(clientTorrents, Announced(c, DefaultActive))
  /\ UNCHANGED <<site, ipAddress, client, totals, points, now, faults>>

\* updateUserBonusPoints: SELECT timeActive FROM userTorrentTotals.  What it finds
\* only scales the award.
TotalTimeActive(c) ==
  /\ At(c, "totalTimeActive")
  /\ Goto(c, "calcBonusPoints")
  /\ UNCHANGED <<site, rows, now, faults>>

\* The SELECT of seeders and size.  The seeders subquery compares ct.torrentId
\* with the column torrentId of its own table, so it counts the fresh rows of
\* every torrent.  The award is linear in newSeedMinutes and is modelled by it;
\* the size of the torrent and the logarithm are left out.
CalcBonusPoints(c) ==
  /\ At(c, "calcBonusPoints")
  /\ IF /\ child[c].minutes > 0
        /\ TorrentClientRows(child[c].req.torrent, child[c].clientId) # {}
        /\ \E i \in DOMAIN clientTorrents : Fresh(i)
     THEN Goto(c, "updateUserBonusPoints")
     ELSE Goto(c, "totalsExist")
  /\ UNCHANGED <<site, rows, now, faults>>

\* UPDATE user SET points = points + ? WHERE id = ?; its result is ignored.
UpdateUserBonusPoints(c) ==
  LET u == child[c].req.user IN
  /\ At(c, "updateUserBonusPoints")
  /\ Goto(c, "totalsExist")
  /\ points' = IF account[u] = "absent" THEN points
               ELSE [points EXCEPT ![u] = @ + child[c].minutes]
  /\ UNCHANGED <<site, ipAddress, client, clientTorrents, totals, now, faults>>

TotalsKey(c) == <<child[c].req.user, child[c].req.torrent>>

\* updateUserTorrentTotals: SELECT 1 FROM userTorrentTotals
TotalsExist(c) ==
  /\ At(c, "totalsExist")
  /\ Goto(c, IF TotalsKey(c) \in DOMAIN totals THEN "updateUserTorrentTotals"
             ELSE "createUserTorrentTotals")
  /\ UNCHANGED <<site, rows, now, faults>>

\* Mutant of UpdateUserTorrentTotals: outside MySQL's strict mode a sum out of range
\* is stored as the greatest value of its column.
UpdateUserTorrentTotalsClamped(c) ==
  LET k   == TotalsKey(c)
      inc == [n \in Counter |-> Increment(child[c].req.bytes[n], child[c].old[n])]
      sum == [n \in Counter |-> Min({W - 1, totals[k].bytes[n] + inc[n]})]
  IN
  /\ At(c, "updateUserTorrentTotals")
  /\ child' = [child EXCEPT ![c].pc = "getTorrentData", ![c].credit = inc]
  /\ totals' = [totals EXCEPT ![k] =
       [bytes |-> sum, timeActive |-> totals[k].timeActive + child[c].minutes]]
  /\ UNCHANGED <<site, ipAddress, client, clientTorrents, points, now, faults>>

\* UPDATE userTorrentTotals SET total... = total... + ?, timeActive = timeActive + ?
\* MySQL raises an error when a sum leaves BIGINT UNSIGNED.
UpdateUserTorrentTotals(c) ==
  LET k   == TotalsKey(c)
      inc == [n \in Counter |-> Increment(child[c].req.bytes[n], child[c].old[n])]
      sum == [n \in Counter |-> totals[k].bytes[n] + inc[n]]
  IN
  /\ At(c, "updateUserTorrentTotals")
  /\ IF sum \in Bytes
     THEN /\ child' = [child EXCEPT ![c].pc = "getTorrentData", ![c].credit = inc]
          /\ totals' = [totals EXCEPT ![k] =
               [bytes |-> sum, timeActive |-> totals[k].timeActive + child[c].minutes]]
     ELSE Raise(c) /\ UNCHANGED totals
  /\ UNCHANGED <<site, ipAddress, client, clientTorrents, points, now, faults>>

\* Mutant of CreateUserTorrentTotals: REPLACE instead of INSERT.
ReplaceUserTorrentTotals(c) ==
  /\ At(c, "createUserTorrentTotals")
  /\ child' = [child EXCEPT ![c].pc = "getTorrentData", ![c].credit = child[c].req.bytes]
  /\ totals' = Put(totals, TotalsKey(c), [bytes |-> child[c].req.bytes, timeActive |-> 0])
  /\ UNCHANGED <<site, ipAddress, client, clientTorrents, points, now, faults>>

\* INSERT INTO userTorrentTotals: the reported values as they are.  If another
\* child has inserted the row since totalsExist, the key is violated.
CreateUserTorrentTotals(c) ==
  LET k == TotalsKey(c) IN
  /\ At(c, "createUserTorrentTotals")
  /\ IF k \in DOMAIN totals
     THEN Raise(c) /\ UNCHANGED totals
     ELSE /\ child' = [child EXCEPT ![c].pc = "getTorrentData", ![c].credit = child[c].req.bytes]
          /\ totals' = Put(totals, k, [bytes |-> child[c].req.bytes, timeActive |-> 0])
  /\ UNCHANGED <<site, ipAddress, client, clientTorrents, points, now, faults>>

\* getTorrentData and the indexing of its vector in getTorrent, which is empty
\* and ends the child when the torrent's row is gone.  The seeders are all
\* fresh rows, the leechers the active ones with something left, stale or not.
GetTorrentData(c) ==
  LET t == child[c].req.torrent
      ofTorrent == {i \in DOMAIN clientTorrents : clientTorrents[i].torrent = t}
  IN
  /\ At(c, "getTorrentData")
  /\ IF t \in torrents
     THEN child' = [child EXCEPT ![c].pc = "getPeers",
            ![c].seeders = Cardinality({i \in ofTorrent : Fresh(i)}),
            ![c].leechers = Cardinality({i \in ofTorrent :
               clientTorrents[i].isActive = 1 /\ clientTorrents[i].left > 0})]
     ELSE Goto(c, "dead")
  /\ UNCHANGED <<site, rows, now, faults>>

\* Mutant of GetPeers: without "ct.isActive = 1".
GetPeersStopped(c) ==
  /\ At(c, "getPeers")
  /\ child' = [child EXCEPT ![c].pc = "buildDictionary",
        ![c].peers = {i \in DOMAIN clientTorrents :
                        /\ clientTorrents[i].torrent = child[c].req.torrent
                        /\ now - clientTorrents[i].lastActivity < PeerTimeout}]
  /\ UNCHANGED <<site, rows, now, faults>>

\* getPeers: the fresh rows of the torrent, each joined with its client and address.
GetPeers(c) ==
  LET t == child[c].req.torrent IN
  /\ At(c, "getPeers")
  /\ child' = [child EXCEPT ![c].pc = "buildDictionary",
        ![c].peers = {i \in DOMAIN clientTorrents :
                        t \in torrents /\ clientTorrents[i].torrent = t /\ Fresh(i)}]
  /\ UNCHANGED <<site, rows, now, faults>>

\* Server::buildErrorDict, the write of handle_client and the child's exit.
BuildErrorDict(c) ==
  /\ At(c, "buildErrorDict")
  /\ child' = [child EXCEPT ![c].pc = "done", ![c].reply = "error"]
  /\ UNCHANGED <<site, rows, now, faults>>

\* Server::buildDictionary, the write of handle_client and the child's exit.
BuildDictionary(c) ==
  /\ At(c, "buildDictionary")
  /\ child' = [child EXCEPT ![c].pc = "done", ![c].reply = "peers"]
  /\ UNCHANGED <<site, rows, now, faults>>

\* The database connection fails under the statement the child is at.
Throw(c) ==
  /\ faults < MaxFaults /\ child[c].pc \in Statement
  /\ Raise(c)
  /\ faults' = faults + 1
  /\ UNCHANGED <<site, rows, now>>

\* The child dies: killed, an uncaught exception of stoi or stoll on a malformed
\* number, or Database's uninitialized pointers when no connection was made.
Die(c) ==
  /\ faults < MaxFaults /\ Live(c)
  /\ Goto(c, "dead")
  /\ faults' = faults + 1
  /\ UNCHANGED <<site, rows, now>>

----------------------------------------------------------------------------
\* The environment: the clock, and the web site that shares the database.

Tick ==
  /\ now < MaxTime
  /\ now' = now + 1
  /\ UNCHANGED <<child, site, rows, faults>>

\* History: every live child sees the gates that a change of the site opens.
Watch(accounts, hashes, addresses) ==
  child' = [c \in Child |->
    IF Live(c) THEN [child[c] EXCEPT !.open =
                       @ \cup OpenGates(child[c].req, accounts, hashes, addresses)]
    ELSE child[c]]

\* A user registers, is deleted, or has the right to leech taken or given back.
SetAccount(u, s) ==
  /\ web < MaxWeb /\ account[u] # s
  /\ account' = [account EXCEPT ![u] = s]
  /\ Watch(account', torrents, ipAddress)
  /\ web' = web + 1
  /\ UNCHANGED <<torrents, rows, now, faults>>

\* A known address is banned, or its ban lifted.
SetBan(ip) ==
  /\ web < MaxWeb /\ ip \in DOMAIN ipAddress
  /\ ipAddress' = [ipAddress EXCEPT ![ip].isBanned = ~@]
  /\ Watch(account, torrents, ipAddress')
  /\ web' = web + 1
  /\ UNCHANGED <<account, torrents, client, clientTorrents, totals, points, now, faults>>

\* A torrent is uploaded or taken down.
SetTorrent(t) ==
  /\ web < MaxWeb
  /\ torrents' = IF t \in torrents THEN torrents \ {t} ELSE torrents \cup {t}
  /\ Watch(account, torrents', ipAddress)
  /\ web' = web + 1
  /\ UNCHANGED <<account, rows, now, faults>>

Site == \/ \E u \in User, s \in {"absent", "barred", "member"} : SetAccount(u, s)
        \/ \E ip \in Ip : SetBan(ip)
        \/ \E t \in Torrent : SetTorrent(t)

\* Every announce of the model is over: the only state without another step.
Finished == (\A c \in Child : child[c].pc \in Ended) /\ UNCHANGED vars

----------------------------------------------------------------------------
\* The statement child c executes next, with the outcomes MySQL can give it.
Execute(c) ==
  \/ GetUserId(c) \/ UserCanLeech(c) \/ IpaIsBanned(c) \/ TorrentExists(c)
  \/ GetIpaId(c) \/ CreateIpAddress(c) \/ GetIpaIdAgain(c)
  \/ GetClientId(c) \/ UpdateClient(c) \/ CreateClient(c)
  \/ SetOldUploadAndDownload(c) \/ NewSeedMinutes(c)
  \/ UpdateClientTorrents(c) \/ CreateClientTorrent(c)
  \/ TotalTimeActive(c) \/ CalcBonusPoints(c) \/ UpdateUserBonusPoints(c)
  \/ TotalsExist(c) \/ UpdateUserTorrentTotals(c) \/ CreateUserTorrentTotals(c)
  \/ GetTorrentData(c) \/ GetPeers(c) \/ BuildErrorDict(c) \/ BuildDictionary(c)

Next ==
  \/ \E c \in Child : (\E r \in Request : Fork(c, r)) \/ Execute(c) \/ Throw(c) \/ Die(c)
  \/ Tick \/ Site \/ Finished

Spec == Init /\ [][Next]_vars

\* The kernel schedules every child and MySQL answers every statement.
FairSpec == Spec /\ \A c \in Child : WF_vars(Execute(c))

----------------------------------------------------------------------------
\* Every variable has the type the code and the schema give it.
TypeOK ==
  /\ child \in [Child -> ChildState]
  /\ account \in [User -> {"absent", "barred", "member"}]
  /\ torrents \subseteq Torrent
  /\ DOMAIN ipAddress \subseteq Ip /\ ipAddress \in [DOMAIN ipAddress -> IpRow]
  /\ client \in Seq(ClientRow)
  /\ clientTorrents \in Seq(TorrentRow)
  /\ \A i \in DOMAIN clientTorrents : clientTorrents[i].lastActivity <= now
  /\ DOMAIN totals \subseteq User \X Torrent /\ totals \in [DOMAIN totals -> TotalsRow]
  /\ points \in [User -> Nat]
  /\ {now, faults, web} \subseteq Nat

\* Statements a child reaches only with its clientId set, and only with its
\* announce recorded in clientTorrents.
WithRecord == BonusStatement \cup TotalsStatement
WithClient == UpdateStatement \cup {"setOldUploadAndDownload", "createClientTorrent"} \cup WithRecord

\* The client id a child carries from getClientId to its last statement always
\* names a client at the child's own address and port, although other children
\* rewrite the peerId of that row (updateClient) in between.
ClientIdValid ==
  \A c \in Child : child[c].pc \in WithClient =>
    /\ child[c].clientId \in DOMAIN client
    /\ client[child[c].clientId].ip = child[c].req.ip
    /\ client[child[c].clientId].port = child[c].req.port

\* The joins of updateClientTorrents and getPeers lose no row: each record's
\* client exists, and each client's address does.
JoinsComplete ==
  /\ \A i \in DOMAIN client : client[i].ip \in DOMAIN ipAddress
  /\ \A i \in DOMAIN clientTorrents : clientTorrents[i].client \in DOMAIN client

\* A child answers with peers only if each check of the condition in
\* updateClientTorrents (account with the right to leech, address not banned,
\* torrent known) would have passed at some time since its fork, whatever the
\* web site changed and whatever statement failed meanwhile.
Served(c) == child[c].pc = "buildDictionary" \/ child[c].reply = "peers"
Gated == \A c \in Child : Served(c) => child[c].open = Gate

\* The catch blocks of the checks, of getClientId's family, of
\* createClientTorrent and of the totals fail closed: a child in which one of
\* these statements raised an exception never answers with peers.
FailsClosed ==
  \A c \in Child : Served(c) =>
    child[c].failed \subseteq UpdateStatement \cup BonusStatement \cup {"getPeers"}

\* The comment at the end of updateClientTorrents (Database.cpp:541): "If any of
\* the statements fails, the program will not respond with any peers".
NoPeersAfterFailure == \A c \in Child : Served(c) => child[c].failed = {}

\* The comment in updateUserTorrentTotals (Database.cpp:869): "If user har
\* restartet the same torrent we do not want to update the total with a negative
\* number".  The reported counter was to be added instead, so no increment is
\* ever above it.
NoNegativeIncrement ==
  \A c \in Child, n \in Counter : At(c, "updateUserTorrentTotals") =>
    Increment(child[c].req.bytes[n], child[c].old[n]) <= child[c].req.bytes[n]

\* The log text of getClientId (Database.cpp:761): "Should never end up here..",
\* the branch in which getIpaId has failed although the database works.
NeverEndsUpHere ==
  faults = 0 =>
    \A c \in Child : child[c].failed \cap {"getIpaId", "createIpAddress", "getIpaIdAgain"} = {}

\* Whatever fails between the two tables loses credit and never invents it:
\* whoever's total or points a step changes (userTorrentTotals, user.points), it
\* is the step of a child with an announce of that user, and for that torrent,
\* whose own announce has been written into a record that still exists.
HasRecord(c) ==
  \E i \in child[c].recorded :
    i \in DOMAIN clientTorrents /\ clientTorrents[i].torrent = child[c].req.torrent
Entitled(c) == child'[c] # child[c] /\ HasRecord(c)

RecordedBeforeCredit ==
  [][/\ \A k \in DOMAIN totals' : (k \in DOMAIN totals => totals'[k] # totals[k]) =>
          \E c \in Child : Entitled(c) /\ TotalsKey(c) = k
     /\ \A u \in User : points'[u] # points[u] =>
          \E c \in Child : Entitled(c) /\ child[c].req.user = u]_<<totals, points>>

\* Totals never shrink and never disappear, although counters of a restarted
\* client do shrink and are subtracted (updateUserTorrentTotals).
TotalsMonotone ==
  [][\A k \in DOMAIN totals :
       /\ k \in DOMAIN totals'
       /\ \A n \in Counter : totals'[k].bytes[n] >= totals[k].bytes[n]
       /\ totals'[k].timeActive >= totals[k].timeActive]_totals

\* Whatever the interleaving, the totals are the sum of what the children have
\* credited: no increment overwrites another.
NoLostCredit ==
  \A u \in User, t \in Torrent, n \in Counter :
    SumFunctionOnSet([c \in Child |-> child[c].credit[n]],
                     {c \in Child : TotalsKey(c) = <<u, t>>}) =
      IF <<u, t>> \in DOMAIN totals THEN totals[<<u, t>>].bytes[n] ELSE 0

\* Every accepted connection is answered or its child dies: the mutual recursion
\* of getClientId, updateClient and createClient ends even when two clients
\* compete for one endpoint.
Terminates == \A c \in Child : child[c].pc # "idle" ~> child[c].pc \in Ended

=============================================================================
