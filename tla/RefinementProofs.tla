-------------------------- MODULE RefinementProofs --------------------------
(***************************************************************************)
(* Announce implements Service, for any number of announces, users and     *)
(* torrents, any failures and any changes of the site.                     *)
(***************************************************************************)
EXTENDS AnnounceRefines, AnnounceProofs

Underway == {"arrived", "admitted", "recorded", "answering", "refusing"}

\* The announces on record, and the counters of the totals: what Service sees.
Records == {c \in Child : HasRecord(c)}
CreditedBytes == [k \in DOMAIN totals |-> totals[k].bytes]

\* The steps at which Service sees a table change.
Recording(x, y) == y.pc = "totalTimeActive"
Crediting(x, y) == x.pc \in {"updateUserTorrentTotals", "createUserTorrentTotals"}
                   /\ y.pc = "getTorrentData"

\* What a step of the control flow is for Service.
PhaseStep(x, y) ==
  LET p == PhaseOf(x)
      q == PhaseOf(y)
  IN  \/ p = q /\ ~Recording(x, y) /\ ~Crediting(x, y)
      \/ /\ p = "arrived" /\ q = "admitted" /\ y.pc = "getIpaId"
         /\ ~Recording(x, y) /\ ~Crediting(x, y)
      \/ p = "admitted" /\ q = "recorded" /\ Recording(x, y) /\ ~Crediting(x, y)
      \/ p = "recorded" /\ q = "answering" /\ ~Recording(x, y) /\ Crediting(x, y)
      \/ p = "admitted" /\ q = "answering" /\ ~Recording(x, y) /\ ~Crediting(x, y)
      \/ /\ p \in {"arrived", "admitted", "recorded"} /\ q = "refusing"
         /\ ~Recording(x, y) /\ ~Crediting(x, y)
      \/ p = "answering" /\ q = "served" /\ ~Recording(x, y) /\ ~Crediting(x, y)
      \/ p = "refusing" /\ q = "refused" /\ ~Recording(x, y) /\ ~Crediting(x, y)
      \/ p \in Underway /\ q = "lost" /\ ~Recording(x, y) /\ ~Crediting(x, y)

LEMMA SucceedsPhase ==
  ASSUME NEW x \in ChildState, NEW y \in ChildState, Succeeds(x, y)
  PROVE  PhaseStep(x, y)
  BY DEF Succeeds, Follows, PhaseStep, PhaseOf, Recording, Crediting, Underway, GateStatement,
         ClientStatement, UpdateStatement, BonusStatement, TotalsStatement, AnswerStatement

LEMMA FailsPhase ==
  ASSUME NEW x \in ChildState, NEW y \in ChildState, Fails(x, y)
  PROVE  PhaseStep(x, y)
  BY DEF Fails, Caught, Statement, PhaseStep, PhaseOf, Recording, Crediting, Underway,
         GateStatement, ClientStatement, UpdateStatement, BonusStatement, TotalsStatement,
         AnswerStatement

LEMMA DiesPhase ==
  ASSUME NEW x \in ChildState, NEW y \in ChildState, Dies(x, y)
  PROVE  PhaseStep(x, y)
  BY DEF Dies, Ended, ChildState, Pc, Statement, PhaseStep, PhaseOf, Recording, Crediting,
         Underway, GateStatement, ClientStatement, UpdateStatement, BonusStatement,
         TotalsStatement, AnswerStatement

\* A step of child c that goes on without an exception executes its statement.
LEMMA ChildStepPhase ==
  ASSUME TypeOK, NEW c \in Child, ChildStep(c)
  PROVE  /\ PhaseStep(child[c], child'[c])
         /\ child'[c].req = child[c].req /\ child'[c].open = child[c].open
         /\ \A d \in Child \ {c} : child'[d] = child[d]
<1>1. Effect(c)  BY ChildStepEffect
<1>2. child[c] \in ChildState /\ child'[c] \in ChildState
  BY <1>1 DEF TypeOK, Effect, Children
<1> QED  BY <1>1, <1>2, SucceedsPhase, FailsPhase, DiesPhase DEF Effect, Moves

\* Throw and Die change no totals and do not lead where a statement leads.
LEMMA FaultTables ==
  ASSUME TypeOK, NEW c \in Child, Throw(c) \/ Die(c)
  PROVE  totals' = totals /\ ~Crediting(child[c], child'[c])
<1>1. totals' = totals
  BY DEF Throw, Die, rows
<1>2. CASE Throw(c)
  <2>1. child'[c].pc = Caught(child[c].pc) /\ child[c].pc \in Statement
    BY <1>2 DEF Throw, Raise, TypeOK, ChildState
  <2> QED
    BY <1>1, <2>1 DEF Caught, Crediting, UpdateStatement, BonusStatement
<1>3. CASE Die(c)
  <2>1. child'[c].pc = "dead"
    BY <1>3 DEF Die, Goto, TypeOK, ChildState
  <2> QED
    BY <1>1, <2>1 DEF Crediting
<1> QED  BY <1>2, <1>3

\* The announces on record are those which have written one (RecordInv), and a
\* step of child c adds its own exactly when it goes on to the bonus.
LEMMA RecordsOf ==
  ASSUME TypeOK, RecordInv, NEW c \in Child, ChildStep(c)
  PROVE  Records' = IF Recording(child[c], child'[c]) THEN Records \cup {c} ELSE Records
<1>1. RecordInv'  BY RecordInvStep
<1>2. Records = {d \in Child : child[d].recorded # {}}
  BY DEF Records, RecordInv, RecordOf, HasRecord
<1>3. Records' = {d \in Child : child'[d].recorded # {}}
  BY <1>1 DEF Records, RecordInv, RecordOf, HasRecord
<1>4. \A d \in Child \ {c} : child'[d] = child[d]
  BY ChildStepPhase
<1>5. CASE Recording(child[c], child'[c])
  <2>1. child'[c].recorded # {}  BY <1>5, RecordMade DEF Recording
  <2> QED  BY <1>2, <1>3, <1>4, <1>5, <2>1
<1>6. CASE ~Recording(child[c], child'[c])
  <2>1. child'[c].recorded = child[c].recorded
    BY <1>6, FieldStep DEF FieldsKept, Recording
  <2> QED  BY <1>2, <1>3, <1>4, <1>6, <2>1
<1> QED  BY <1>5, <1>6

----------------------------------------------------------------------------
\* The row that updateUserTorrentTotals adds to has been found by totalsExist,
\* and nobody deletes rows.
TotalsFound == \A c \in Child : child[c].pc = "updateUserTorrentTotals" =>
                                  TotalsKey(c) \in DOMAIN totals

\* Only the SELECT that finds the row leads to the UPDATE.
LEMMA FoundBefore ==
  ASSUME TypeOK, NEW c \in Child, ChildStep(c), child'[c].pc = "updateUserTorrentTotals"
  PROVE  TotalsKey(c) \in DOMAIN totals
<1>1. Moves(child[c], child'[c])  BY ChildStepEffect DEF Effect
<1>2. child[c].pc = "totalsExist"
  BY <1>1 DEF Moves, Succeeds, Follows, Fails, Caught, Dies
<1>3. child \in Children /\ child[c] \in ChildState  BY DEF TypeOK, Children
<1>4. CASE Throw(c) \/ Die(c)
  <2>1. child'[c].pc \in {Caught(child[c].pc), "dead"}
    BY <1>3, <1>4 DEF Throw, Raise, Die, Goto, Children, ChildState
  <2> QED  BY <1>2, <2>1 DEF Caught, UpdateStatement, BonusStatement
<1>5. CASE Execute(c)
  <2>1. TotalsExist(c)
    BY <1>2, <1>5
       DEF Execute, At, GetUserId, UserCanLeech, IpaIsBanned, TorrentExists, GetIpaId,
           CreateIpAddress, GetIpaIdAgain, GetClientId, UpdateClient, CreateClient,
           SetOldUploadAndDownload, NewSeedMinutes, UpdateClientTorrents, CreateClientTorrent,
           TotalTimeActive, CalcBonusPoints, UpdateUserBonusPoints, UpdateUserTorrentTotals,
           CreateUserTorrentTotals, GetTorrentData, GetPeers, BuildErrorDict, BuildDictionary
  <2> QED  BY <1>3, <2>1 DEF TotalsExist, Goto, Children, ChildState
<1> QED  BY <1>4, <1>5 DEF ChildStep

LEMMA FoundCorrect == Spec => []TotalsFound
<1>1. Init => TotalsFound
  BY IdleFields DEF Init, TotalsFound
<1>2. TypeOK /\ TotalsFound /\ [Next]_vars => TotalsFound'
  <2> SUFFICES ASSUME TypeOK, TotalsFound, [Next]_vars PROVE TotalsFound'
    OBVIOUS
  <2>1. ASSUME NEW c \in Child, NEW r \in Request, Fork(c, r) PROVE TotalsFound'
    <3>1. child \in Children /\ totals' = totals  BY <2>1 DEF TypeOK, Children, Fork, rows
    <3> QED  BY <2>1, <3>1, ForkEffect DEF TotalsFound, TotalsKey
  <2>2. ASSUME NEW c \in Child, ChildStep(c) PROVE TotalsFound'
    <3>1. TotalsGrow  BY <2>2, ChildStepTables DEF TableEffect
    <3>2. /\ child'[c].req = child[c].req
          /\ \A d \in Child \ {c} : child'[d] = child[d]
      BY <2>2, ChildStepEffect DEF Effect, Moves
    <3>3. child'[c].pc = "updateUserTorrentTotals" => TotalsKey(c) \in DOMAIN totals
      BY <2>2, FoundBefore
    <3> QED  BY <3>1, <3>2, <3>3 DEF TotalsFound, TotalsKey, TotalsGrow
  <2>3. CASE EnvironmentStep
    BY <2>3, EnvironmentEffect DEF TotalsFound, TotalsKey
  <2> QED  BY <2>1, <2>2, <2>3, StepKinds
<1> QED  BY <1>1, <1>2, TypeCorrect, PTL DEF Spec

\* A step of child c gives the totals of its announce a row, or adds to their
\* counters, exactly when it goes on from the totals to the answer.
LEMMA CreditsOf ==
  ASSUME TypeOK, TotalsFound, NEW c \in Child, ChildStep(c)
  PROVE  IF Crediting(child[c], child'[c])
         THEN /\ DOMAIN totals' = DOMAIN totals \cup {TotalsKey(c)}
              /\ \A k \in DOMAIN totals \ {TotalsKey(c)} : totals'[k] = totals[k]
         ELSE totals' = totals
<1>0. child[c] \in ChildState /\ child \in Children  BY DEF TypeOK, Children
<1>1. CASE Throw(c) \/ Die(c)
  BY <1>1, FaultTables
<1>2. CASE UpdateUserTorrentTotals(c)
  <2> DEFINE k   == TotalsKey(c)
             inc == [n \in Counter |-> Increment(child[c].req.bytes[n], child[c].old[n])]
             sum == [n \in Counter |-> totals[k].bytes[n] + inc[n]]
             new == [bytes |-> sum, timeActive |-> totals[k].timeActive + child[c].minutes]
  <2>1. child[c].pc = "updateUserTorrentTotals"
    BY <1>2 DEF UpdateUserTorrentTotals, At
  <2>2. CASE sum \in Bytes
    <3>1. totals' = [totals EXCEPT ![k] = new]
          /\ child' = [child EXCEPT ![c].pc = "getTorrentData", ![c].credit = inc]
      BY <1>2, <2>2 DEF UpdateUserTorrentTotals
    <3>2. k \in DOMAIN totals  BY <2>1 DEF TotalsFound
    <3> HIDE DEF k, inc, sum, new
    <3>3. child'[c].pc = "getTorrentData"  BY <1>0, <3>1 DEF Children, ChildState
    <3>4. DOMAIN totals' = DOMAIN totals \cup {k}
          /\ \A j \in DOMAIN totals \ {k} : totals'[j] = totals[j]
      BY <3>1, <3>2
    <3> QED  BY <2>1, <3>3, <3>4 DEF Crediting, k
  <2>3. CASE sum \notin Bytes
    <3>1. Raise(c) /\ totals' = totals
      BY <1>2, <2>3 DEF UpdateUserTorrentTotals
    <3>2. Caught(child[c].pc) = "buildErrorDict"
      BY <2>1 DEF Caught, UpdateStatement, BonusStatement
    <3>3. child'[c].pc = "buildErrorDict"
      BY <1>0, <3>1, <3>2 DEF Raise, Children, ChildState
    <3> QED  BY <3>1, <3>3 DEF Crediting
  <2> QED  BY <2>2, <2>3
<1>3. CASE CreateUserTorrentTotals(c)
  <2> DEFINE k   == TotalsKey(c)
             new == [bytes |-> child[c].req.bytes, timeActive |-> 0]
  <2>1. child[c].pc = "createUserTorrentTotals"
    BY <1>3 DEF CreateUserTorrentTotals, At
  <2>2. CASE k \notin DOMAIN totals
    <3>1. /\ totals' = Put(totals, k, new)
          /\ child' = [child EXCEPT ![c].pc = "getTorrentData", ![c].credit = child[c].req.bytes]
      BY <1>3, <2>2 DEF CreateUserTorrentTotals
    <3> HIDE DEF k, new
    <3>2. child'[c].pc = "getTorrentData"  BY <1>0, <3>1 DEF Children, ChildState
    <3>3. DOMAIN totals' = DOMAIN totals \cup {k}
          /\ \A j \in DOMAIN totals \ {k} : totals'[j] = totals[j]
      BY <3>1 DEF Put
    <3> QED  BY <2>1, <3>2, <3>3 DEF Crediting, k
  <2>3. CASE k \in DOMAIN totals
    <3>1. Raise(c) /\ totals' = totals
      BY <1>3, <2>3 DEF CreateUserTorrentTotals
    <3>2. Caught(child[c].pc) = "buildErrorDict"
      BY <2>1 DEF Caught, UpdateStatement, BonusStatement
    <3>3. child'[c].pc = "buildErrorDict"
      BY <1>0, <3>1, <3>2 DEF Raise, Children, ChildState
    <3> QED  BY <3>1, <3>3 DEF Crediting
  <2> QED  BY <2>2, <2>3
<1>4. CASE Execute(c) /\ ~UpdateUserTorrentTotals(c) /\ ~CreateUserTorrentTotals(c)
  <2>1. totals' = totals
    BY <1>4, OthersRead
       DEF Writes, rows, CreateIpAddress, UpdateClient, CreateClient, UpdateUserBonusPoints,
           UpdateClientTorrents, CreateClientTorrent
  <2>2. child[c].pc \notin {"updateUserTorrentTotals", "createUserTorrentTotals"}
    BY <1>4
       DEF Execute, At, GetUserId, UserCanLeech, IpaIsBanned, TorrentExists, GetIpaId,
           CreateIpAddress, GetIpaIdAgain, GetClientId, UpdateClient, CreateClient,
           SetOldUploadAndDownload, NewSeedMinutes, UpdateClientTorrents, CreateClientTorrent,
           TotalTimeActive, CalcBonusPoints, UpdateUserBonusPoints, TotalsExist, GetTorrentData,
           GetPeers, BuildErrorDict, BuildDictionary
  <2> QED  BY <2>1, <2>2 DEF Crediting
<1> QED  BY <1>1, <1>2, <1>3, <1>4 DEF ChildStep

----------------------------------------------------------------------------
\* The refinement.  The definitions of Service are expanded under the mapping of
\* AnnounceRefines.
Phases == [c \in Child |-> PhaseOf(child[c])]
Keys   == [c \in Child |-> <<child[c].req.user, child[c].req.torrent>>]
Opens  == [c \in Child |-> child[c].open]

\* Every step of a child is a step of Service or invisible to it.
LEMMA ChildStepRefines ==
  ASSUME TypeOK, GateInv, RecordInv, TotalsFound, NEW c \in Child, ChildStep(c)
  PROVE  [S!Next]_S!vars
<1> DEFINE x == child[c]
           y == child'[c]
           k == TotalsKey(c)
<1>1. /\ PhaseStep(x, y) /\ y.req = x.req /\ y.open = x.open
      /\ \A d \in Child \ {c} : child'[d] = child[d]
  BY ChildStepPhase
<1>2. Keys' = Keys /\ Opens' = Opens
  BY <1>1 DEF Keys, Opens
<1>3. Phases' = [Phases EXCEPT ![c] = PhaseOf(y)] /\ Phases[c] = PhaseOf(x)
  BY <1>1 DEF Phases
<1>4. Records' = IF Recording(x, y) THEN Records \cup {c} ELSE Records
  BY RecordsOf
<1>5. ~Crediting(x, y) => CreditedBytes' = CreditedBytes
  BY CreditsOf DEF CreditedBytes
<1>6. Crediting(x, y) =>
        /\ DOMAIN CreditedBytes' = DOMAIN CreditedBytes \cup {Keys[c]}
        /\ \A j \in DOMAIN CreditedBytes \ {Keys[c]} : CreditedBytes'[j] = CreditedBytes[j]
        /\ Keys[c] \in DOMAIN CreditedBytes =>
             \A n \in Counter : CreditedBytes'[Keys[c]][n] >= CreditedBytes[Keys[c]][n]
  <2>1. TotalsGrow  BY ChildStepTables DEF TableEffect
  <2> QED  BY <2>1, CreditsOf DEF CreditedBytes, Keys, TotalsKey, TotalsGrow
<1>7. y.pc = "getIpaId" => Opens[c] = Gate
  <2>1. GateInv'  BY GateStep
  <2>2. y.open \subseteq Gate
    BY <1>1 DEF TypeOK, ChildState
  <2> QED
    BY <1>1, <2>1, <2>2
       DEF GateInv, GateOrder, Admitted, Statement, ClientStatement, GateStatement, Gate, Opens
<1> QED
  BY <1>1, <1>2, <1>3, <1>4, <1>5, <1>6, <1>7
     DEF PhaseStep, Underway, Phases, Keys, Opens, Records, CreditedBytes, S!Next, S!vars, S!Admit,
         S!Record, S!Credit, S!Forgo, S!Refuse, S!Answer, S!Lose, S!Move, S!Underway

LEMMA FirstPhases ==
  ASSUME NEW x
  PROVE  /\ x.pc = "idle" => PhaseOf(x) = "idle"
         /\ x.pc = "getUserId" => PhaseOf(x) = "arrived"
  BY DEF PhaseOf, GateStatement, ClientStatement, UpdateStatement, BonusStatement,
         TotalsStatement, AnswerStatement

LEMMA InitRefines == Init => S!Init
<1> SUFFICES ASSUME Init PROVE S!Init
  OBVIOUS
<1>1. \A c \in Child : child[c] = Idle
  BY DEF Init
<1>2. Phases = [c \in Child |-> "idle"]
  <2>1. PhaseOf(Idle) = "idle"
    BY IdleFields, FirstPhases
  <2> QED  BY <1>1, <2>1 DEF Phases
<1>3. Idle.open = {}
  BY DEF Idle
<1>4. Opens = [c \in Child |-> {}]
  BY <1>1, <1>3 DEF Opens
<1>5. Keys \in [Child -> User \X Torrent]
  <2>1. Idle.req \in RequestType
    BY IdleTyped DEF ChildState
  <2> QED  BY <1>1, <2>1 DEF Keys, RequestType
<1>6. Records = {}
  BY <1>1, IdleFields DEF Records, HasRecord
<1>7. CreditedBytes = [k \in {} |-> 0]
  <2>1. DOMAIN totals = {}
    BY DEF Init, Empty
  <2> QED  BY <2>1 DEF CreditedBytes
<1> QED
  BY <1>2, <1>4, <1>5, <1>6, <1>7 DEF S!Init, S!Key, Phases, Opens, Keys, Records, CreditedBytes

\* A fork is an arrival.
LEMMA ForkRefines ==
  ASSUME TypeOK, RecordInv, NEW c \in Child, NEW r \in Request, Fork(c, r)
  PROVE  S!Next
<1> DEFINE seen == OpenGates(r, account, torrents, ipAddress)
           k    == <<r.user, r.torrent>>
<1>1. /\ child[c].pc = "idle" /\ child'[c].pc = "getUserId" /\ child'[c].req = r
      /\ child'[c].open = seen /\ child'[c].recorded = child[c].recorded
      /\ \A d \in Child \ {c} : child'[d] = child[d]
  BY ForkEffect DEF TypeOK, Children
<1>2. Phases' = [Phases EXCEPT ![c] = "arrived"] /\ Phases[c] = "idle"
  <2>1. PhaseOf(child[c]) = "idle" /\ PhaseOf(child'[c]) = "arrived"
    BY <1>1, FirstPhases
  <2> QED  BY <1>1, <2>1 DEF Phases
<1>3. Keys' = [Keys EXCEPT ![c] = k] /\ k \in User \X Torrent
  BY <1>1, RequestAssumption DEF Keys, RequestType
<1>4. Opens' = [Opens EXCEPT ![c] = seen] /\ seen \in SUBSET Gate
  BY <1>1 DEF Opens, OpenGates
<1>5. Records' = Records /\ CreditedBytes' = CreditedBytes
  <2>1. UNCHANGED <<clientTorrents, totals>>  BY DEF Fork, rows
  <2>2. child[c].recorded = {}  BY <1>1 DEF RecordInv, RecordOf
  <2> QED  BY <1>1, <2>1, <2>2 DEF Records, HasRecord, CreditedBytes
<1> HIDE DEF seen, k
<1>6. S!Arrive(c)
  BY <1>2, <1>3, <1>4, <1>5
     DEF S!Arrive, S!Move, S!Key, Phases, Keys, Opens, Records, CreditedBytes
<1> QED  BY <1>6 DEF S!Next

LEMMA SamePhase ==
  ASSUME NEW x, NEW y, x.pc = y.pc, x.reply = y.reply
  PROVE  PhaseOf(x) = PhaseOf(y)
  BY DEF PhaseOf

\* The clock is invisible, and the site opens gates.
LEMMA EnvironmentRefines ==
  ASSUME TypeOK, EnvironmentStep
  PROVE  S!Next
<1>1. \A d \in Child :
        /\ child'[d].pc = child[d].pc /\ child'[d].req = child[d].req
        /\ child'[d].reply = child[d].reply /\ child'[d].recorded = child[d].recorded
        /\ child[d].open \subseteq child'[d].open /\ child'[d].open \subseteq Gate
  BY EnvironmentEffect
<1>2. UNCHANGED <<Phases, Keys, Records, CreditedBytes>>
  <2>1. \A d \in Child : PhaseOf(child'[d]) = PhaseOf(child[d])
    BY <1>1, SamePhase
  <2> QED  BY <1>1, <2>1, EnvironmentEffect DEF Phases, Keys, Records, HasRecord, CreditedBytes
<1>3. Opens' \in [Child -> SUBSET Gate] /\ \A d \in Child : Opens[d] \subseteq Opens'[d]
  BY <1>1 DEF Opens
<1>4. S!OpenGates
  BY <1>2, <1>3 DEF S!OpenGates, Phases, Keys, Opens, Records, CreditedBytes
<1> QED  BY <1>4 DEF S!Next

\* Announce implements Service for every number of announces, users and torrents,
\* whatever statement fails, whichever child dies and whatever the site changes
\* (Database::updateClientTorrents and getTorrent as a whole).
THEOREM AnnounceImplementsService == Spec => ServiceSpec
<1>1. Init => S!Init
  BY InitRefines
<1>2. TypeOK /\ GateInv /\ RecordInv /\ TotalsFound /\ [Next]_vars => [S!Next]_S!vars
  BY StepKinds, ChildStepRefines, ForkRefines, EnvironmentRefines
<1> QED
  BY <1>1, <1>2, TypeCorrect, GateCorrect, RecordHolds, FoundCorrect, PTL
     DEF Spec, ServiceSpec, S!Spec

=============================================================================
