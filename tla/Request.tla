------------------------------ MODULE Request -------------------------------
(***************************************************************************)
(* How a child reads its request: Server::parseAndInsertMessage walks over *)
(* the buffer and collects pairs, Database::insertClientInfo picks the     *)
(* fields of an AnnounceInfo out of them.  One step is one turn of one of  *)
(* the two loops.                                                          *)
(*                                                                         *)
(* Text is a sequence of tokens: the five characters the loop looks at,    *)
(* and pieces of the words between them, as long as the properties need to *)
(* tell apart.  One read() is all a child gets of its request, so it may   *)
(* end at any token.                                                       *)
(***************************************************************************)
EXTENDS Integers, Sequences, FiniteSets, FiniteSetsExt, SequencesExt

CONSTANTS
  Token,      \* pieces of text
  Nul,        \* the character 0, with which the buffer is filled
  Request,    \* what clients may ask for, see RequestType
  Address,    \* inet_ntoa(cli_addr.sin_addr)
  Blank,      \* isspace(): what stoi and stoll skip before a number
  Digit,      \* the value of each token that is a decimal digit
  Lower,      \* tolower() of the tokens that have capitals
  Ascii,      \* the code, in hexadecimal, of the tokens an unescaped hash has
  BufferSize, \* buffersize
  IntMax, W,  \* an int is at most IntMax; W stands for 2^64
  Garbage     \* what a variable that was never assigned may hold

Text == Seq(Token)
Pair == [name : Text, value : Text]   \* stringArray

\* A client's announce: the URL's path is /<pass>/announce.  A parameter may
\* lack its "=" and value; hash says which hash its info_hash stands for.
Parameter   == Pair \cup [name : Text]
RequestType == [pass : Text, params : Seq(Parameter), headers : Text, hash : Text]

Word == 0 .. W - 1

Separator == {" ", "?", "=", "&", "/"}

ASSUME TextAssumption ==
  /\ Separator \cup {"%", "GET", "announce", "HTTP", "url", "urlKey", "ip", Nul} \subseteq Token
  /\ Nul \notin Separator
  /\ Address \in Text /\ Request \subseteq RequestType
ASSUME CharacterAssumption ==
  /\ Ascii \in [Token -> Text] /\ Blank \cup DOMAIN Digit \subseteq Token
  /\ \A t \in DOMAIN Lower : Lower[t] \in Token
ASSUME NumberAssumption ==
  /\ BufferSize \in Nat /\ IntMax \in Nat /\ W \in Nat \ {0}
  /\ Garbage \subseteq Word

VARIABLES
  request, \* what the client asks for
  pc,      \* "read", "parse", "insert", then "done" or "threw"
  buffer,
  parser,  \* the variables of parseAndInsertMessage
  pairs,   \* vectorOfArrays
  x,       \* the index of insertClientInfo's loop
  info     \* its variables, in the end the AnnounceInfo

vars == <<request, pc, buffer, parser, pairs, x, info>>

ParserState ==
  [i : 1 .. BufferSize + 1, key : BOOLEAN, value : BOOLEAN, urlFound : Nat,
   keyString : Text, valueString : Text, url : Text]

AnnounceInfo ==
  [ipa : Text, infoHash : Text, peerId : Text, torrentPass : Text,
   event : 0 .. 3, port : -IntMax - 1 .. IntMax \cup Word,
   downloaded : Word, left : Word, uploaded : Word]

----------------------------------------------------------------------------
\* What a client sends.
Assignment(p) == IF "value" \in DOMAIN p THEN p.name \o <<"=">> \o p.value ELSE p.name
Query(params) ==
  FlattenSeq([n \in DOMAIN params |->
    IF n = 1 THEN Assignment(params[n]) ELSE <<"&">> \o Assignment(params[n])])

RequestText(r) ==
  <<"GET", " ", "/">> \o r.pass \o <<"/", "announce", "?">> \o Query(r.params)
    \o <<" ">> \o r.headers

----------------------------------------------------------------------------
\* getKeyFromURL: what is between the first and the second slash.
getKeyFromURL(url) ==
  LET slashes == {n \in DOMAIN url : url[n] = "/"}
      later   == slashes \ {Min(slashes)}
  IN  IF slashes = {} THEN << >>
      ELSE SubSeq(url, Min(slashes) + 1, IF later = {} THEN Len(url) ELSE Min(later) - 1)

ToLower(c) == IF c \in DOMAIN Lower THEN Lower[c] ELSE c

\* parseEventString
parseEventString(v) ==
  LET event == [n \in DOMAIN v |-> ToLower(v[n])]
  IN  CASE event = <<"stopped">>   -> 3
        [] event = <<"started">>   -> 2
        [] event = <<"completed">> -> 1
        [] OTHER                   -> 0

\* Mutant of decode: the digits of an escape keep their case.
decodeCased(str, beyond) ==
  LET at(n) == IF n <= Len(str) THEN str[n] ELSE IF n = Len(str) + 1 THEN Nul ELSE beyond
      f[n \in 1 .. Len(str) + 3] ==
        IF n > Len(str) THEN << >>
        ELSE IF str[n] # "%" THEN Ascii[str[n]] \o f[n + 1]
        ELSE <<at(n + 1), at(n + 2)>> \o f[n + 3]
  IN  f[1]

\* decode: the hash in lower case hexadecimal.  An escape at the very end reads
\* the terminating 0 and one character beyond the string, which can be any.
decode(str, beyond) ==
  LET at(n) == IF n <= Len(str) THEN str[n] ELSE IF n = Len(str) + 1 THEN Nul ELSE beyond
      f[n \in 1 .. Len(str) + 3] ==
        IF n > Len(str) THEN << >>
        ELSE IF str[n] # "%" THEN Ascii[str[n]] \o f[n + 1]
        ELSE <<ToLower(at(n + 1)), ToLower(at(n + 2))>> \o f[n + 3]
  IN  f[1]

\* How a URL spells a hash: each byte as its character, or escaped, in capitals or not.
Unit == {<<t>> : t \in Token \ {"%"}} \cup {<<"%", t, u>> : t, u \in Token}
Byte(unit) == IF Len(unit) = 1 THEN Ascii[unit[1]] ELSE <<ToLower(unit[2]), ToLower(unit[3])>>
Spells(v, hash) ==
  \E units \in [1 .. Len(hash) \div 2 -> Unit] :
    v = FlattenSeq(units) /\ hash = FlattenSeq([n \in DOMAIN units |-> Byte(units[n])])

ASSUME HashAssumption ==
  \A r \in Request : r.hash # << >> =>
    LET asked == {n \in DOMAIN r.params : r.params[n].name = <<"info_hash">>}
    IN  asked # {} /\ Spells(r.params[Max(asked)].value, r.hash)

\* How many tokens of v, from its beginning, are in S.
Leading(v, S) == Max({n \in 0 .. Len(v) : \A m \in 1 .. n : v[m] \in S})

\* stoi and stoll: white space is skipped, then come a sign and the digits;
\* whatever follows is ignored.  The set is empty when they throw: no digit, or
\* more than fits.
Numerals(v) ==
  LET text   == SubSeq(v, Leading(v, Blank) + 1, Len(v))
      signed == text # << >> /\ text[1] \in {"-", "+"}
      digits == IF signed THEN Tail(text) ELSE text
      length == Leading(digits, DOMAIN Digit)
      number == FoldLeft(LAMBDA n, d : 10 * n + Digit[d], 0, SubSeq(digits, 1, length))
  IN  IF length = 0 THEN {} ELSE {IF text[1] = "-" THEN -number ELSE number}
stoi(v)  == Numerals(v) \cap (-IntMax - 1 .. IntMax)
stoll(v) == Numerals(v) \cap (-(W \div 2) .. (W \div 2) - 1)

\* Mutant of uint64: the sign is kept.
int64(n) == n
\* The int64_t becomes a uint64_t of the AnnounceInfo.
uint64(n) == n % W

----------------------------------------------------------------------------
Init ==
  /\ request \in Request
  /\ pc = "read" /\ buffer = << >> /\ pairs = << >> /\ x = 1
  /\ parser = [i |-> 1, key |-> FALSE, value |-> FALSE, urlFound |-> 0,
               keyString |-> << >>, valueString |-> << >>, url |-> << >>]
  /\ \E port, downloaded, left, uploaded \in Garbage :
       info = [ipa |-> << >>, infoHash |-> << >>, peerId |-> << >>, torrentPass |-> << >>,
               event |-> 0, port |-> port, downloaded |-> downloaded,
               left |-> left, uploaded |-> uploaded]

\* bzero(buffer); read(newsockfd, buffer, 4096): the first n tokens.
Read(n) ==
  /\ pc = "read"
  /\ pc' = "parse"
  /\ buffer' = [m \in 1 .. BufferSize |-> IF m <= n THEN RequestText(request)[m] ELSE Nul]
  /\ UNCHANGED <<request, parser, pairs, x, info>>

Whole == IsPrefix(RequestText(request), buffer)

----------------------------------------------------------------------------
\* The loop over the buffer.  The tests come in this order.
c == buffer[parser.i]

Reading == pc = "parse" /\ parser.i <= BufferSize
Turn(p) ==
  /\ parser' = [p EXCEPT !.i = @ + 1]
  /\ UNCHANGED <<request, pc, buffer, x, info>>

IsSpace    == ~parser.value /\ c = " "
IsQuestion == ~IsSpace /\ c = "?"
TakesUrl   == [parser EXCEPT !.url = IF parser.urlFound = 1 THEN Append(@, c) ELSE @]
IsEquals   == c = "="
IsEnd      == parser.value /\ c \in {"&", " "}

Space == Reading /\ IsSpace /\ Turn([parser EXCEPT !.urlFound = @ + 1]) /\ UNCHANGED pairs

Question ==
  /\ Reading /\ IsQuestion
  /\ Turn([parser EXCEPT !.urlFound = @ + 1, !.key = TRUE])
  /\ UNCHANGED pairs

Equals ==
  /\ Reading /\ IsEquals
  /\ Turn([TakesUrl EXCEPT !.key = FALSE, !.value = TRUE])
  /\ UNCHANGED pairs

TheirPair == [name |-> parser.keyString, value |-> parser.valueString]

\* Mutants of PushPair: keyString, or valueString, is not emptied.
PushPairKeepKey ==
  /\ Reading /\ IsEnd
  /\ Turn([TakesUrl EXCEPT !.key = TRUE, !.value = FALSE, !.valueString = << >>])
  /\ pairs' = Append(pairs, TheirPair)

PushPairKeepValue ==
  /\ Reading /\ IsEnd
  /\ Turn([TakesUrl EXCEPT !.key = TRUE, !.value = FALSE, !.keyString = << >>])
  /\ pairs' = Append(pairs, TheirPair)

\* "&" or " " ends a value: vectorOfArrays.push_back({keyString, valueString})
PushPair ==
  /\ Reading /\ IsEnd
  /\ Turn([TakesUrl EXCEPT !.key = TRUE, !.value = FALSE,
                           !.keyString = << >>, !.valueString = << >>])
  /\ pairs' = Append(pairs, TheirPair)

\* Anything else belongs to the name, to the value, to both after a "?" inside a
\* value, or to neither before the first "?".
Character ==
  /\ Reading /\ ~IsSpace /\ ~IsQuestion /\ ~IsEquals /\ ~IsEnd
  /\ Turn([TakesUrl EXCEPT !.keyString = IF parser.key THEN Append(@, c) ELSE @,
                           !.valueString = IF parser.value THEN Append(@, c) ELSE @])
  /\ UNCHANGED pairs

\* The pairs of the URL and of the socket.
OwnPairs ==
  << [name |-> <<"url">>,    value |-> parser.url],
     [name |-> <<"urlKey">>, value |-> getKeyFromURL(parser.url)],
     [name |-> <<"ip">>,     value |-> Address] >>

\* Mutants of EndParse: the last value is taken although nothing ended it, and
\* the client's own parameters come last.
EndParseFlush ==
  /\ pc = "parse" /\ parser.i > BufferSize
  /\ pc' = "insert"
  /\ pairs' = (IF parser.value THEN Append(pairs, TheirPair) ELSE pairs) \o OwnPairs
  /\ UNCHANGED <<request, buffer, parser, x, info>>

EndParseFront ==
  /\ pc = "parse" /\ parser.i > BufferSize
  /\ pc' = "insert"
  /\ pairs' = OwnPairs \o pairs
  /\ UNCHANGED <<request, buffer, parser, x, info>>

\* The end of the loop; what has no end is dropped.  Then insertClientInfo.
EndParse ==
  /\ pc = "parse" /\ parser.i > BufferSize
  /\ pc' = "insert"
  /\ pairs' = pairs \o OwnPairs
  /\ UNCHANGED <<request, buffer, parser, x, info>>

----------------------------------------------------------------------------
\* The loop over the pairs: a field takes the last pair of its name.
NumberField == {"downloaded", "left", "uploaded"}

Take(fields) == info' = fields /\ UNCHANGED pc

InsertPair ==
  LET name  == pairs[x].name
      value == pairs[x].value
      \* The number n in field f, or the exception, which nothing catches.
      Number(f, numbers) ==
        \/ \E n \in numbers : Take([info EXCEPT ![f] = n])
        \/ numbers = {} /\ pc' = "threw" /\ UNCHANGED info
  IN
  /\ pc = "insert" /\ x <= Len(pairs)
  /\ x' = x + 1
  /\ CASE name = <<"ip">>        -> Take([info EXCEPT !.ipa = value])
       [] name = <<"port">>      -> Number("port", stoi(value))
       [] name = <<"event">>     -> Take([info EXCEPT !.event = parseEventString(value)])
       [] name = <<"info_hash">> ->
            \E beyond \in Token : Take([info EXCEPT !.infoHash = decode(value, beyond)])
       [] name = <<"peer_id">>   -> Take([info EXCEPT !.peerId = value])
       [] \E f \in NumberField : name = <<f>> ->
            Number(name[1], {uint64(n) : n \in stoll(value)})
       [] name = <<"urlKey">>    -> Take([info EXCEPT !.torrentPass = value])
       [] OTHER                  -> Take(info)
  /\ UNCHANGED <<request, buffer, parser, pairs>>

\* annInfo = new AnnounceInfo(ipa, infoHash, ...); what follows is Announce's.
NewAnnounceInfo ==
  /\ pc = "insert" /\ x > Len(pairs)
  /\ pc' = "done"
  /\ UNCHANGED <<request, buffer, parser, pairs, x, info>>

Parsed == pc \in {"done", "threw"} /\ UNCHANGED vars

Next ==
  \/ \E n \in 0 .. Len(RequestText(request)) : Read(n)
  \/ Space \/ Question \/ Equals \/ PushPair \/ Character \/ EndParse
  \/ InsertPair \/ NewAnnounceInfo \/ Parsed

Spec == Init /\ [][Next]_vars

----------------------------------------------------------------------------
\* Every variable has its type; what the client has in its hash is any text.
TypeOK ==
  /\ request \in Request
  /\ pc \in {"read", "parse", "insert", "done", "threw"}
  /\ buffer \in Text
  /\ parser \in ParserState
  /\ pairs \in Seq(Pair)
  /\ x \in 1 .. Len(pairs) + 1
  /\ info \in AnnounceInfo

\* The address and the pass of an announce are those of the socket and of the
\* URL's path: no parameter called ip or urlKey replaces them.
AddressFromSocket ==
  pc = "done" => info.ipa = Address /\ info.torrentPass = getKeyFromURL(parser.url)

\* A request whose pass and parameters have no separator in them, whose parameters
\* all have values, and whose headers, which begin with the version, have at most
\* one "=": of a second one the loop makes a pair, and its name can be a field's.
WellFormed ==
  /\ ToSet(request.pass) \cap Separator = {}
  /\ \A n \in DOMAIN request.params :
       LET p == request.params[n]
       IN  "value" \in DOMAIN p /\ {"?", "&", " ", "="} \cap ToSet(p.name \o p.value) = {}
  /\ request.headers # << >> => request.headers[1] = "HTTP"
  /\ Cardinality({n \in DOMAIN request.headers : request.headers[n] = "="}) <= 1

\* The parameters as the client sent them, in their order.
TheirPairs == IF pc \in {"read", "parse"} THEN pairs ELSE SubSeq(pairs, 1, Len(pairs) - 3)

\* Wherever read() cuts a request off, the parameters before are taken as sent
\* and the cut one not at all: no number loses its last digits.  What headers
\* with a "=" in them add comes after all parameters.
ParametersWhole ==
  WellFormed =>
    /\ IsPrefix(TheirPairs, request.params) \/ IsPrefix(request.params, TheirPairs)
    /\ pc \notin {"read", "parse"} /\ Whole => IsPrefix(request.params, TheirPairs)

\* A request that came whole ends as the AnnounceInfo its last parameters of each
\* name ask for, in whatever order they came, whatever they are preceded by, and
\* whatever the headers hold.
Asked(name) == {n \in DOMAIN request.params : request.params[n].name = <<name>>}
LastAsked(name) == request.params[Max(Asked(name))].value

AnnounceAsSent ==
  pc = "done" /\ WellFormed /\ Whole =>
    /\ info.torrentPass = request.pass
    /\ Asked("peer_id") # {} => info.peerId = LastAsked("peer_id")
    /\ Asked("event") # {} => info.event = parseEventString(LastAsked("event"))
    /\ Asked("port") # {} => {info.port} = stoi(LastAsked("port"))
    /\ \A f \in NumberField : Asked(f) # {} => info[f] \in {n % W : n \in stoll(LastAsked(f))}

\* However its bytes are escaped, in capitals or not or not at all, one hash is
\* one string, the one by which torrents are looked up.
HashCanonical ==
  pc = "done" /\ WellFormed /\ Whole /\ request.hash # << >> => info.infoHash = request.hash

\* Where a request is cut off does not end a child with an exception: stoi and
\* stoll only ever see what the client sent as a whole number.
NumbersWhole ==
  pc = "threw" /\ WellFormed =>
    \E n \in DOMAIN request.params :
      \/ request.params[n].name = <<"port">> /\ stoi(request.params[n].value) = {}
      \/ /\ \E f \in NumberField : request.params[n].name = <<f>>
         /\ stoll(request.params[n].value) = {}

=============================================================================
