# A verification of the qTracker tracker

TLA+ models of the tracker (`src/`), the TLC runs that check them and the theorems that TLAPS
proves about them. The tracker is a small forking HTTP server for BitTorrent announces: each
connection gets a child process, which parses one announce, checks the user, records the
announce in MySQL, credits the user's totals and bonus points, and answers with a list of peers.

## 1. The system

| Component | State | Operations | Correct when |
|---|---|---|---|
| Server loop (`Server::central`, `handle_client`, `main`) | listening socket, children, their connections | accept, fork, read, answer, exit | every connection ends, at most one zombie, no child answers for another client's address |
| Request parser (`parseAndInsertMessage`, `getKeyFromURL`, `decode`, first half of `insertClientInfo`) | 4096-byte buffer, key/value pairs | one pass over the buffer | the pairs are those of the request, a cut request gives a prefix of them |
| Gates (`getUserId`, `userCanLeech`, `ipaIsBanned`, `torrentExists`) | tables `user`, `ipAddress`, `torrent` (written by the web site) | one SELECT each, in this order | nobody passes who was never admitted; failures refuse |
| Client registry (`getIpaId`, `createIpAddress`, `getClientId`, `updateClient`, `createClient`) | tables `ipAddress`, `client` | look up, insert, take over a row; mutually recursive | the id returned names the announcing endpoint; the recursion ends |
| Records (`setOldUploadAndDownload`, `updateClientTorrents`, `createClientTorrent`) | table `clientTorrents` | read old counters and seed minutes, move the user's record to this client, or insert one | one record per user and torrent |
| Accounting (`updateUserTorrentTotals`, `createUserTorrentTotals`, `updateUserBonusPoints`, `calcBonusPoints`) | table `userTorrentTotals`, `user.points` | add the difference to the last announce | no bytes or minutes are credited that were not moved or seeded; totals never shrink |
| Peer selection and reply (`getTorrent`, `getTorrentData`, `getPeers`, `buildDictionary`, `buildErrorDict`) | - | two SELECTs, bencode, one write | the counts and the list agree; a cut answer is not misread |
| `bencode.hpp` | - | `encode`, and `decode` on the client's side | a client reads what was meant, or nothing |
| `Logger` | a file | output | pure output; nothing depends on it |

Components interact by calls within a child, and between children only through the database.
No transaction is opened anywhere, so **every SQL statement is a step of its own** and any other
child, the web site or the clock may move between two of them. This is where the behaviour is
hard: interleaved children, statements that raise `sql::SQLException` (each function has its own
catch block with its own return value), children that die half way, clients that restart their
counters, retry, or move to another address, and unsigned counters that wrap. `PROJECT.json`
lists these hazards with their lines.

## 2. The modules

| Module | What it is |
|---|---|
| `Server` | `central` and `handle_client` as a process tree: descriptors, the listening socket, accept, fork and their failures, zombies, clients that stay silent |
| `Request` | how a child gets from the bytes it has read to an `AnnounceInfo` |
| `Announce` | the children and the database they share: the core of the system |
| `Accounting` | `Announce` with the BitTorrent clients' side of the story (what was really transferred and seeded), to state what the books owe |
| `Reply` | how a child gets from the rows of `getPeers` to the bytes a client receives, and what that client decodes |
| `Service` | what the tracker promises about an announce, without statements, tables or catch blocks |
| `AnnounceRefines` | the refinement mapping: `Announce` implements `Service` |
| `ServerProofs`, `RequestProofs`, `AnnounceProofs`, `AccountingProofs`, `ReplyProofs`, `RefinementProofs`, `ServiceProofs` | the theorems |
| `SequenceLemmas` | induction over numbers, and what the operators on sequences return: for `RequestProofs` and `ReplyProofs` |
| `MC...` | the small instances; each `.cfg` is one run |

The modules follow an announce through the system. `Server` ends where a child has read
(`received`) and begins again where it writes; `Request` is what happens to what it has read,
`Announce` to what `Request` has understood, `Reply` to what `Announce` has found. They meet in
these interfaces and are not multiplied into one state space: a child shares nothing but the
database, which is `Announce`, and the kernel's objects, which are `Server`.

### Server and the code

`parent` and `child[c]` hold the place in `central` and `handle_client` and the variables there:
`newsockfd`, and `cliAddr` for `cli_addr`, which `fork()` copies. `holds[p]` and `listens` are the
descriptors of each process, `backlog` the queue of `listen`, `client[k]` the other end of a
connection. Each system call is an action, and each unchecked failure one of its own:
`AcceptFails` leaves `cli_addr` as it was and forks all the same, `ForkFails` takes the `else`
branch. `KillParent` and `KillChild` may come at any point. `NewDatabase` is `delete db; db = new
Database`: the destructor deletes pointers that were never initialised, so the child goes on or
dies. `InsertClientInfo` stands for `Request` and `Announce` together: the child goes on to an
answer or ends with an exception.

### Request and the code

Text is a sequence of tokens: the characters ` ?=&` and `/` that the loop looks at, the `%` of
`decode`, the character 0, and pieces of words as long as the properties need to tell apart. One
action is one turn of the loop over the buffer, by the test that succeeds (`Space`, `Question`,
`Equals`, `PushPair`, `Character`, in the order of the code), then one turn of
`insertClientInfo`'s loop (`InsertPair`). `Read(n)` takes the first n tokens of the request, any n:
one `read` is all a child gets. `stoi` and `stoll` skip white space (`Blank`) and give the number that
follows, or throw; a variable that is never assigned holds any value of `Garbage`.

The assumptions on the constants say that the special tokens exist and differ from the character 0
(`TextAssumption`), that `Ascii` and `Lower` are about tokens (`CharacterAssumption`), and what
the `hash` of a request means (`HashAssumption`): the string of hexadecimal digits of which the last
`info_hash` of the request is a spelling, byte by byte escaped or not, with capitals or not
(`Spells`, which does not mention `decode`).

### Reply and the code

Tokens again, with those of bencode as tokens of their own, because a peer id may hold any of
them. `encode` and the `decode_*` operators translate `bencode.hpp`; the tracker only encodes, and
`decode` stands for the client at the other end. The library recurses through `decode_list` and
`decode_dict`; `Loops(s)` is what their two loops make of each position of the text, as one recursive
function, so that the module can be proved about. `ReturnPeers` may come before the rows are at
an end: that is the catch block of `getPeers`. `Write(n)` delivers the first n tokens of the text up to
its first character 0 (`CString`: `c_str` and `strlen`).

### Announce and the code

`child[c]` is the local state of one child. Its `pc` names the SQL statement it executes next,
after the function that issues it; `req` and `old`, `clientId`, `minutes` are the fields of
`AnnounceInfo` and the local `newSeedMinutes`; `errorMessage` is `Database::errorMessage`.
`ipAddress`, `client`, `clientTorrents`, `totals` and `points` are the tables the tracker writes,
`account` and `torrents` those it only reads. There is one action per statement:

* `Fork` is accept, fork, read and parse (`Server`, `Request`). `GetUserId`, `UserCanLeech`, `IpaIsBanned`,
  `TorrentExists` are the condition of `updateClientTorrents`, in its order.
* `GetIpaId`, `CreateIpAddress`, `GetIpaIdAgain`, `GetClientId`, `UpdateClient`, `CreateClient`
  are the mutual recursion; `again` is the argument `recursive = false` of the second
  `getClientId`.
* `SetOldUploadAndDownload`, `NewSeedMinutes`, `UpdateClientTorrents`, `CreateClientTorrent`,
  `TotalTimeActive`, `CalcBonusPoints`, `UpdateUserBonusPoints`, `TotalsExist`,
  `UpdateUserTorrentTotals`, `CreateUserTorrentTotals` are the rest of `updateClientTorrents`.
* `GetTorrentData`, `GetPeers`, `BuildErrorDict`, `BuildDictionary` are the answer.
* `Throw` is an `SQLException` in the statement the child is at; `Caught` says where the catch
  block around that statement leads. `Die` is the end of a child at any point (killed, an
  uncaught `stoi` exception, undefined behaviour that crashes it).
* `Tick`, `SetAccount`, `SetBan`, `SetTorrent` are the environment: `NOW()` and the web site.

`open`, `failed`, `recorded` (the rows of `clientTorrents` that the child has written) and `credit`
are history, which no guard reads.

**Abstractions.** A torrent pass is its user; hashes, addresses, ports and peer ids are model
values; `left` is 0 or 1. Bytes are words modulo `W` (2^64 in the code). The bonus is linear in
`newSeedMinutes` and stands for it; its factors (size, seeders, logarithm) are left out, except
that there is none without a fresh seeder. `getPeers` that fails after some rows answers with
those (`Reply`); here with none. The columns `announced`, `completed` and `lastEvent` are
written and never read, and are left out.

**What is assumed of the schema**, which is not in the repository: `ipAddress.ipa`,
`client (peerId, port, ipaId)` (the code relies on it with `INSERT IGNORE`) and
`userTorrentTotals (torrentId, userId)` are unique; counters are `BIGINT UNSIGNED`, so that MySQL
refuses a sum above 2^64 - 1 (strict mode); new addresses are not banned and
`timeActive` starts at 0. Whether `clientTorrents (torrentId, clientId)` is unique, and the
default of `clientTorrents.isActive`, are the constants `UniqueTorrentClient` and
`DefaultActive`; the runs take both values. A statement that raises an exception has no effect;
one that took effect and whose answer was lost is covered by `Die` right after it.

### Accounting and the code

`Accounting` adds to each step of `Announce` what happened outside: `Send` is the client's report
(`reported`, `moved`, `restarted`), `Minute` the time during which a user has an active record
(`seeded`). Two history variables say how far announces overlapped: `overlaps[u]` counts the pairs
of announces of user u that were alive at the same time, `company[c]` the children that were alive
together with c.

### Service and the refinement

`Service` has six actions of an announce: `Arrive`, `Admit` (only when every gate has been
open), `Record`, `Credit`, `Forgo` or `Refuse`, `Answer`; and `Lose` at any point. The mapping of
`AnnounceRefines` reads the phase of an announce off the statement it is at, whether it is on record
off `recorded` and `clientTorrents` (`HasRecord`) and the credit off `totals`. Of the some twenty statements only those
that admit, record, credit and answer are steps of `Service`; the rest, the client registry's
recursion included, stutters.

## 3. The runs

Bounds: `MaxConcurrent`, `MaxTime`, `MaxFaults`, `MaxWeb` and `MaxRows` are guards and bound the
model only. Children of the announce are symmetric.

| Run | Instance | Shows |
|---|---|---|
| `race` | 3 announces, 2 at a time, one minute, no faults | `ClientIdValid`, `JoinsComplete`, `NoLostCredit`, `TotalsMonotone` when two clients compete for an endpoint and a second user shares the address |
| `faults` | 2 overlapping announces, 1 fault, 2 changes by the web site, no unique key | `Gated`, `FailsClosed`, and `ServiceSpec`: the refinement |
| `live` | 2 announces, 1 fault, 1 change by the web site, fairness | `Terminates` |
| `credit` | 3 announces of 2 users, 2 at a time, restarts, 1 fault, `W` = 8 | `CreditBoundedWhileRunning`, `CreditBoundedThroughRestarts`, `RecordedBeforeCredit` |
| `roaming` | 3 announces of 2 users, 2 at a time, 2 ports, 2 peer ids, clock | `TypeOK`, `SeedTimeBounded`, `OneRecordPerUserTorrent`, `OneClientPerEndpoint`, `PeersWithinCount`, `RecordedBeforeCredit` |
| `server` | 2 clients, 2 processes, requests of 2 segments, a listen queue of one, 1 fault, fairness | `AtMostOneZombie`, `OneHolder`, `OwnAnswer`, `EveryConnectionEnds` |
| `request` | every pair out of 15 parameters, and each alone with headers that hold one `=` or two; cut at every token | `TypeOK`, `AddressFromSocket`, `ParametersWhole`, `AnnounceAsSent`, `HashCanonical`, `NumbersWhole` |
| `reply` | up to 2 of 5 peers whose ids look like bencode, cut at every token | `NeverMisread`, `WholeAnswerRead`, `LengthTells` |
| `failure_served`, `restart`, `moved`, `new_address` | | the findings below |

The bounds are enough for the cases to happen: a race needs two children, and a third announce
meets what the first two left behind; a fault in a first announce shows in the second, a
restart after it in the third; one minute on the clock separates fresh from stale
(`PeerTimeout` = 1). `W` is small so that counters wrap and sums overflow within three announces.
In `server` one client can stay silent while the other is served, both processes can be taken
when a third is wanted, and the one fault is a failed call or a kill at any point, the tracker's
own included. In `request` a number has two digits, so a cut can halve it; `IntMax` and `W` are
just above them, so one that does not fit is among them; `BufferSize` holds the longer requests
and their end only just. `Garbage` is one value none of the requests has. The answers of `reply`
have numbers of one and two digits and a sign, and lists of zero, one and two peers.

The `Accounting` runs start from `OpenSpec`: every user is a member and every torrent is known,
because what the gates refuse is not accounted for (`faults` has the gates), and `AccountingNext`
leaves out `Site` for the same reason. Their `VIEW`s, and that of `race`, hide what ended children
still hold (but for the credit, in `race`), which no action reads and which the invariants have
judged while they were alive, and the part of the history that the properties of the run do not
read.

Each property has a mutant in `PROJECT.json`: a plausible slip in the code (a missing condition or
`close`, a catch block with the wrong value, `REPLACE` for `INSERT`, a signed difference, a
variable that is not emptied, `size` for `strlen`) under which TLC finds it violated.

**Fairness.** `Announce`'s `FairSpec` asks weak fairness of `Execute(c)` for each child: the kernel
schedules every child and MySQL answers every statement. Nothing is asked of `Fork`, `Throw`,
`Die`, the clock or the web site. `Server`'s `FairSpec` asks it of the loop and of each child's
`HandleClient`. Nothing is asked of clients, who may stay silent for ever, nor of failures; `Read` is
not enabled while its client neither sends nor leaves, so a child may wait there for ever, as in
the code, and `EveryConnectionEnds` is about clients that send or leave.

**Overlap.** Announces of one user that overlap break the exact books: both read the old counters
and the same `lastActivity`, both add the difference, both may insert a client. `SeedTimeBounded`
says how much that can be at most (once more per pair of announces that overlap), and
`PeersWithinCount` how far the list and the count of one answer drift apart (by one per announce
in between). `OneRecordPerUserTorrent`, `OneClientPerEndpoint` and
the two bounds on the bytes are stated for users whose own announces do not overlap (`Apart`),
while others' do, and who do not share an address (`Private`): an address belongs to the user who
first announced from it (Database.cpp:498), and the records of whoever comes later lead to that
user. `PeersWithinCount` needs the unique key of `clientTorrents`; without it one UPDATE may
refresh several records.

The bytes have no bound of their own under overlap: a slow announce that is recorded after a newer
one finds the larger counters, and the unsigned difference wraps, as after a restart; a small total
takes it. They are stated for a client that also stays at its address and port (`Settled`; the
finding `moved` is what happens otherwise). `CreditBoundedWhileRunning` then holds whatever fails, as
long as the client does not restart. After a restart (`CreditBoundedThroughRestarts`) it is the sum
out of range, which MySQL refuses, that keeps the wrapped difference out, and that takes a total
as large as the record: a failed statement leaves a smaller one, into which the difference
may fit, and so does a restart with one counter above its last report, because the refused UPDATE
drops the progress of that counter too. So it asks for no fault and no such "mixed" restart.
`NoLostCredit` shows that at least nothing is lost.

**Well-formed requests.** `ParametersWhole`, `AnnounceAsSent`, `HashCanonical` and `NumbersWhole`
are stated for requests that BitTorrent clients send (`WellFormed`): no separator in the torrent
pass, every parameter with a value and no separator inside one, headers that begin with the version
and have at most one `=`. The others are sent in the run too, for the remaining properties: a
parameter without a value becomes part of the next one's name, a `?` in a value sends the rest to
the name as well, and a second `=` in the headers ends a pair whose name can be that of a field.

**Whole answers.** `WholeAnswerRead` is about a client that has all of what was written, up to the
first character 0, and asks that no text of the answer, peer ids and error message alike, has one:
with one the body is cut there, and `LengthTells` and `NeverMisread` say what the client still knows.

## 4. Findings

* **A failure is answered with peers** (`failure_served`). Database.cpp:541 says that the program
  does not respond with peers if any of the statements fails; the catch block at 538 returns
  true, and the announce is neither recorded nor credited.
* **A restart is subtracted** (`restart`). Database.cpp:869 wants no negative number added; the
  increments are unsigned and the tests at 872 and 879 never succeed.
* **A move is credited twice** (`moved`). Database.cpp:1044 says that old counters of 0 are no
  problem; when a client changes its port or address they are 0 although the user has a record.
* **"Should never end up here.."** (`new_address`). Two first announces from one address get there.

## 5. The proofs

For every value of the constants (any number of children, users, torrents, clients and processes,
any `W`, any bounds), from the named assumptions of each module alone:

| Module | Theorem | Establishes |
|---|---|---|
| `AnnounceProofs` | `TypeCorrect` | `Spec => []TypeOK` |
| | `NeverServedUngated` | `Spec => []Gated` |
| | `FailuresRefuse` | `Spec => []FailsClosed` |
| | `ClientIdStaysValid` | `Spec => []ClientIdValid` |
| | `CreditFollowsRecord` | `Spec => RecordedBeforeCredit` |
| | `TotalsNeverShrink` | `Spec => TotalsMonotone` |
| | `JoinsAreComplete` | `Spec => []JoinsComplete` |
| | `NoCreditIsLost` | `Spec => []NoLostCredit` |
| `AccountingProofs` | `AccountingIsAnnounce` | `AccountingSpec => Spec`: the history variables constrain nothing |
| | `OneRecordForEachTorrent` | `AccountingSpec => []OneRecordPerUserTorrent` |
| | `OneClientAtEachEndpoint` | `AccountingSpec => []OneClientPerEndpoint` |
| | `PeersStayWithinCount` | `AccountingSpec => []PeersWithinCount` |
| | `RunningClientsAreNotOvercredited` | `AccountingSpec => []CreditBoundedWhileRunning` |
| | `RestartedClientsAreNotOvercredited` | `AccountingSpec => []CreditBoundedThroughRestarts` |
| | `SeedTimeStaysBounded` | `AccountingSpec => []SeedTimeBounded` |
| `RefinementProofs` | `AnnounceImplementsService` | `Spec => ServiceSpec` |
| `ServiceProofs` | `ServiceCreditsRecords` | `Spec => []CreditRecorded`, of `Service` |
| `ServerProofs` | `TypeCorrect` | `Spec => []TypeOK`, of `Server` |
| | `ZombiesBounded` | `Spec => []AtMostOneZombie` |
| | `OneHolderCorrect` | `Spec => []OneHolder` |
| | `OwnAnswerCorrect` | `Spec => []OwnAnswer` |
| `RequestProofs` | `TypeCorrect` | `Spec => []TypeOK`, of `Request` |
| | `AddressCorrect` | `Spec => []AddressFromSocket` |
| | `ParametersCorrect` | `Spec => []ParametersWhole` |
| | `NumbersCorrect` | `Spec => []NumbersWhole` |
| | `AnnounceCorrect` | `Spec => []AnnounceAsSent` |
| | `HashCorrect` | `Spec => []HashCanonical` |
| | `DecodeSpelling` | `decode` turns every spelling of a hash into the hash |
| `ReplyProofs` | `MisreadNever` | `Spec => []NeverMisread` |
| | `WholeRead` | `Spec => []WholeAnswerRead` |
| | `LengthTrue` | `Spec => []LengthTells` |

**Announce.** The argument reads every action twice. `ExecuteEffect` and `ChildStepEffect` show
what a step does to the children: child `c` follows the control flow of the code (`Follows`), or
fails into its catch block, or dies, and no other child moves. `ChildStepTables` shows what it does
to the tables: types are kept, no client or record is deleted, an address, a port or the torrent of
a record never changes, totals only grow. `EnvironmentEffect` does the same for the web site and
the clock. The invariants follow from these.

`TypeOK`, `ClientIdValid` and `TotalsMonotone` need no strengthening beyond `TypeOK`. `Gated` is
not inductive: `GateInv` adds which gates a child has passed at each statement, in the order of
the condition, that an answer is given only at the end, and that a live child has seen every
gate that is open now (so what a SELECT finds open is in its history). `FailsClosed` is
strengthened to the whole way to the answer (`FailInv`), and `JoinsComplete` to the children that
`createClient` will insert for, whose address has been found and is never deleted (`JoinInv`).
`RecordedBeforeCredit` is about steps: `RecordInv` says that a child on its way to the totals
has written a row for its torrent that still exists (rows are moved, but never deleted), and
`CreditOnRecord` that only such a child changes a total or points, and only those of its own
announce.

**Lost credit.** `NoLostCredit` compares a total with a sum over all children, and needs them to be
finitely many (`ChildAssumption`; the process table is finite). The library's induction theorems
take an operator and cannot be used here, so the lemmas about sums are proved from the
fact that the strict subsets of a finite set are well founded, with the set of subsets for which the
lemma holds in the place of the operator (`SubsetInduction`). The sum alone is not inductive:
`CreditInv` adds that a child that has not been at the totals yet has credited nothing, and that a
child that is about to update its totals still finds the row.

**Accounting.** `AccountingNext` is a step of `Announce` with a step of the history (`Ground` collects
what the proofs stand on: types, valid ids, finished joins, and `Books`: the types of the
history, that an `Apart` user has at most one live announce, that an address belongs to a user who
announces from it, and that a child past the gates has a member's account). Then, each resting on
those before:

* `ClientsInv`: no two clients of a private, apart user at one endpoint, and no child about to insert a
  second (`OneClientAtEachEndpoint`). The child alone knows that it has looked and found none.
* `RecordsInv`: one record for each user and torrent, and none where `createClientTorrent` is
  about to insert one (`OneRecordForEachTorrent`): the UPDATE that came before matched nothing, and
  nothing else of this user has moved since.
* `RunningInv`: as long as the counters only grow, a record of the user is at most what has been reported,
  and a total has no more than what has been moved up to the record (`Reporting` follows the
  announce from the old counters it has read to the difference it adds). Words do not wrap here
  because the difference of the counters is not negative.
* `RestartInv`: through restarts the total may only be behind. `Gap` relates total, record and
  bytes moved for each counter: either the record is at most the report, and the total plus what is
  still to be reported is at most what has been moved; or the client has started again, and the total is at
  least as large as the record, so that the sum with the wrapped difference is out of range.
  That both hold for all counters at once is why mixed restarts are excluded. `MovedInv`
  says that a client has moved at least what it reports. The record has to keep up with the report
  (`Rested`), so every announce of such a client must be recorded: `AdmittedInv` and `ReadyInv` say
  that no statement before the totals refuses it as long as nothing fails (`AlwaysRecorded`).
* `PeersInv`: from `GetTorrentData` to `GetPeers` at most one record becomes fresh for each child that
  has not recorded its announce yet (`Unrecorded`), and each of these is counted by `company`.

**Seed time.** `SeedTimeBounded` is not inductive: an announce reads the minutes since the last one
(`NewSeedMinutes`), and only the UPDATE after it starts their count again, so that another announce may
read them as well. `Age` is the minutes since the oldest active record was last written, and the minutes before that
are settled (`Settlement`). `SeedInv` says, for each torrent, that the seed time given (`Given`) and what
announces are still about to add to it (`Time`) are at most `1 + overlaps` times the settled
minutes, and the same of the points and of all torrents together (`Bonus`; the torrents are finitely many,
`TorrentAssumption`). An announce that has read no more than `Age` has no claim yet, so the clock and the
SELECT change nothing; the UPDATE (`Closes`) turns at most `Age` minutes of each live announce of the
user into a claim and settles as many; and there are at most `1 + overlaps` of these announces
(`Company`). `Fetched` covers the rest: an announce that has read minutes finds a record to update, so
`createClientTorrent` never has any to add. Every later statement turns a claim into time or points, or
loses it.

**Refinement.** `PhaseStep` says what each step of the control flow is for `Service`; `RecordsOf` (which rests on
`RecordInv`) and `CreditsOf` say that only the statements that record and credit change what `Service` sees of
the tables. Two facts about reachable states are needed: `GateInv`, because `Admit` asks that all
gates have been open where `TorrentExists` only looks at the last one, and `TotalsFound`, that a
child which is about to update its totals still finds the row, because `Credit` adds one
otherwise.

**Server.** `AtMostOneZombie` needs to know in which round of the loop the parent is: before the
first `signal` no other child than the first can have ended, and afterwards none becomes a zombie.
`OneHolder` is strengthened to what the parent holds at each place of its round, and to the
backlog being held by nobody. `OwnAnswer` rests on it: a child's descriptor and address agree
unless the descriptor is -1, and a connection that has its answer is held by nobody who is still to
write.

**Request.** `AddressFromSocket` needs no more than the end: once the first loop is over, the last
three pairs come from the path and the socket, and `InsertPair` overwrites; `OwnInv` says, for each
index of the second loop, that what the last two of them (`urlKey` and `ip`) set is set once the loop has
passed them.

The theorems about whole requests need to know where in the request the parser is, which the code
does not store: it is `Taken`, the tokens before `parser.i`, laid against the text that the client
sends. `PathText`, `PiecesText` and the lemmas after them say which token of `RequestText` is at
which place, for parameters of any number and length. `ParserInv` then has one part for each place the
parser can be in: `Early` in the path (whose `?` makes `url` and opens the first name), `InName(k)` and
`InValue(k)` in parameter k, with the k - 1 before it in `pairs` as they were sent and so much of
its name or value as has been taken; `InHeaders`, where the one `=` of the headers may have begun a
value; and, where the text was cut off, `Stopped`: the zeros behind it end no pair, so what
has not been pushed is dropped. Each turn moves along this (`EarlyTurn`, `NameTurn`, `ValueTurn`,
`HeadersTurn`). `InfoInv` is the second loop's: of each name the last pair before `x` is what the
field holds, and a child that threw has met a parameter that is no number. `NumbersWhole` follows
because that parameter was sent as it is.

`decode` and `FlattenSeq` are recursive functions, and what they return for every text needs an
induction. The library's theorems take an operator and cannot be used; `NumberInduction`
proves the principle from the fact that the numbers are well founded, with a set of numbers in
the place of the operator. By it such a function exists (`DecodedExists`, from the end of the text to its
beginning), and `DecodeSpelling` follows unit by unit.

**Reply.** The three properties rest on a relation between a value and how it is written: `Reads(E,
v)` says that whoever decodes a text in which E stands finds v and goes on behind it, and that, if the
text ends within E, `decode` throws. It is proved of numbers (`DecimalSpells`: the digits of
`operator<<` have the value the digit loop computes) and of strings, whose length is read before
their content, so that the content does not matter; then of lists and dictionaries of pieces that have
it (`ListReads`, `DictReads`), and so of every peer, list of peers, torrent and refusal. Beneath it
is the existence of `Loops`: a turn of either loop needs the loops only behind its position (`LoopsLocal`)
because every value that is read ends behind where it began (`DataLater`), so the function can be built
from the end of the text (`LoopsExist`). The invariant of the run, `AnswerInv`, is small: the peers
fetched are the first rows of the result, what is written is what they say (`SayInv`), and what is
received is its beginning. `BodyCame` adds the header: its only empty line is its end, its number
is the length of the body up to the first 0. A cut body is then either shorter than what was encoded,
and throws, or it is the whole.

Every invariant and action property of the passing runs, and the refinement, is a theorem. Only
model-checked are `Terminates` and `EveryConnectionEnds`: liveness under fairness is out of the
prover's reach.

The proofs say nothing of what the constants leave open: that the schema is as described in
section 2, that tokens are fine enough to tell apart what the code tells apart, and that integers
and lengths of `bencode.hpp` do not overflow (in the model they are unbounded).

## 6. Not modelled, and the plan

Left out for good: `Logger` (pure output); connection set-up and reconnection to MySQL (library;
their failures are `Throw` and `Die`); the amount of the bonus (floating point); `urlDecode`, which
nobody calls; the `_view` variants and stream overloads of `bencode.hpp`, and its overflow of
lengths and integers, which the library marks as a TODO; the header lines other than
Content-length; `socket`, `bind` and `listen` that fail (their results are ignored, and every
`accept` fails then: `AcceptFails` without end).

Next: two users behind one address, with what each is credited: the UPDATE takes the records of
whoever owns the address, and no document says what should be credited then.
