------------------------------- MODULE Reply -------------------------------
(***************************************************************************)
(* How a child answers: Database::getTorrent fetches the counts and the    *)
(* peers of a torrent, Server::buildDictionary or buildErrorDict makes a   *)
(* bencoded dictionary of them (bencode.hpp, Torrent, Peer), and           *)
(* Server::handle_client writes it behind an HTTP header.  The client at   *)
(* the other end may receive only the beginning of it; that it reads what  *)
(* the tracker meant is stated with bencode.hpp's own decode.              *)
(*                                                                         *)
(* Text is a sequence of tokens.  The characters that bencode gives a      *)
(* meaning are tokens of their own, because peer ids may hold any of them; *)
(* a key of a dictionary is one token, whatever its length.                *)
(***************************************************************************)
EXTENDS Integers, Sequences, FiniteSets, FiniteSetsExt, SequencesExt

CONSTANTS
  Token,     \* pieces of text
  Nul,       \* the character 0, at which strlen stops
  Row,       \* what getPeers may find: [peerId : Text, ipa : Text, port : Int]
  Message,   \* what getErrorMessage may return
  Count,     \* numbers of seeders and leechers
  MaxRows    \* bound: peers of one torrent

Digits == <<"0", "1", "2", "3", "4", "5", "6", "7", "8", "9">>
Digit  == ToSet(Digits)
Text   == Seq(Token)

\* The keys, in the order of std::map.
Keys == <<"complete", "failure reason", "incomplete", "interval", "ip", "peer_id",
          "peers", "port", "tracker_id">>

\* What the program itself writes.
Written == Digit \cup ToSet(Keys)
             \cup {"i", "l", "d", "e", ":", "-", "HTTP/1.1 200 OK", "Content-length: ", "\r\n\r\n"}

ASSUME TokenAssumption == Written \cup {Nul} \subseteq Token /\ Nul \notin Written /\ Message \subseteq Text
ASSUME RowAssumption   == /\ Row \subseteq [peerId : Text, ipa : Text, port : Int]
                          /\ Count \subseteq Nat /\ MaxRows \in Nat

VARIABLES
  pc,
  infoHash, \* whether insertClientInfo has returned a hash: the announce succeeded
  message,  \* errorMessage
  result,   \* the rows the query of getPeers finds, in the order it finds them
  torrent,  \* Torrent: the counts and the peers fetched so far
  answer,   \* the text that is written
  received  \* what the client gets of it

vars == <<pc, infoHash, message, result, torrent, answer, received>>

----------------------------------------------------------------------------
\* bencode.hpp.  A value is an integer, a string, a list or a dictionary.
IntegerData(n)  == [integer |-> n]
StringData(s)   == [string |-> s]
ListData(l)     == [list |-> l]
DictData(d)     == [dict |-> d]     \* by key
Is(type, value) == type \in DOMAIN value

\* os << n
Decimal(n) ==
  LET size == IF n < 0 THEN -n ELSE n
      f[m \in 0 .. size] == IF m < 10 THEN <<Digits[m + 1]>>
                            ELSE Append(f[m \div 10], Digits[(m % 10) + 1])
  IN  IF n < 0 THEN <<"-">> \o f[size] ELSE f[size]

\* Mutant of encodeString: the same length for every string.
encodeStringFixed(s) == Decimal(1) \o <<":">> \o s

encodeString(s) == Decimal(Len(s)) \o <<":">> \o s

encodeScalar(value) ==
  IF Is("integer", value) THEN <<"i">> \o Decimal(value.integer) \o <<"e">>
  ELSE encodeString(value.string)

\* list_encoder and dict_encoder, of what add() has encoded: elements in their order,
\* entries in the order of their keys.
encodeList(elements) == <<"l">> \o FlattenSeq(elements) \o <<"e">>
encodeDict(entries) ==
  <<"d">> \o FlattenSeq([n \in DOMAIN Keys |->
               LET key == <<Keys[n]>>
               IN  IF key \notin DOMAIN entries THEN << >> ELSE encodeString(key) \o entries[key]])
    \o <<"e">>

\* encode_visitor.  An answer is a dictionary of scalars and of one list of peers, which
\* are dictionaries of scalars.
encodePeer(value)  == encodeDict([k \in DOMAIN value.dict |-> encodeScalar(value.dict[k])])
encodeValue(value) ==
  IF Is("list", value) THEN encodeList([n \in DOMAIN value.list |-> encodePeer(value.list[n])])
  ELSE encodeScalar(value)
encode(value)      == encodeDict([k \in DOMAIN value.dict |-> encodeValue(value.dict[k])])

\* What decode makes of a text from position begin: a value and the position
\* after it, or the exception invalid_argument.
Decoded(value, begin) == [value |-> value, begin |-> begin]
Invalid == [begin |-> 0]
Threw(result_) == result_.begin = 0

\* *begin; at the end of the text that is the terminating 0 of a std::string.
CharAt(s, begin) == IF begin <= Len(s) THEN s[begin] ELSE Nul

\* The loops over isdigit(*begin): the position after the digits, and their value.
AfterDigits(s, begin) == Min({n \in begin .. Len(s) + 1 : n <= Len(s) => s[n] \notin Digit})
DigitValue(c) == CHOOSE d \in 0 .. 9 : Digits[d + 1] = c
Value(s, begin) ==
  LET last == AfterDigits(s, begin) - 1
      f[n \in begin - 1 .. last] == IF n < begin THEN 0 ELSE 10 * f[n - 1] + DigitValue(s[n])
  IN  f[last]

decode_int(s, begin) ==
  LET positive == CharAt(s, begin + 1) # "-"
      first    == IF positive THEN begin + 1 ELSE begin + 2
      after    == AfterDigits(s, first)
  IN  IF first <= Len(s) /\ CharAt(s, after) = "e"
      THEN Decoded(IntegerData(IF positive THEN Value(s, first) ELSE -Value(s, first)), after + 1)
      ELSE Invalid

decode_str(s, begin) ==
  LET after == AfterDigits(s, begin)
      len   == Value(s, begin)
  IN  IF CharAt(s, after) = ":" /\ Len(s) - after >= len
      THEN Decoded(StringData(SubSeq(s, after + 1, after + len)), after + len + 1)
      ELSE Invalid

\* In what follows, read[p] is what the two loops make of position p: Items, in a
\* list, and Entries, in a dictionary.
decode_list(s, read, begin) ==
  LET items == read[begin + 1]["items"]
  IN  IF Threw(items) THEN Invalid ELSE Decoded(ListData(items.value), items.begin)

decode_dict(s, read, begin) ==
  LET entries == read[begin + 1]["entries"]
  IN  IF Threw(entries) THEN Invalid ELSE Decoded(DictData(entries.value), entries.begin)

decode_data(s, read, begin) ==
  CASE CharAt(s, begin) = "i"      -> decode_int(s, begin)
    [] CharAt(s, begin) = "l"      -> decode_list(s, read, begin)
    [] CharAt(s, begin) = "d"      -> decode_dict(s, read, begin)
    [] CharAt(s, begin) \in Digit  -> decode_str(s, begin)
    [] OTHER                       -> Invalid

Items(s, read, begin) ==
  IF begin > Len(s) THEN Invalid
  ELSE IF s[begin] = "e" THEN Decoded(<< >>, begin + 1)
  ELSE LET item == decode_data(s, read, begin)
           rest == IF Threw(item) THEN Invalid ELSE read[item.begin]["items"]
       IN  IF Threw(rest) THEN Invalid
           ELSE Decoded(<<item.value>> \o rest.value, rest.begin)

NoEntries == [k \in {} |-> 0]
WithEntry(d, key, value) ==
  [k \in DOMAIN d \cup {key} |-> IF k = key THEN value ELSE d[k]]

\* Mutant of Entries: the end of the text ends the dictionary.
EntriesLax(s, read, begin) ==
  IF begin > Len(s) \/ CharAt(s, begin) = "e" THEN Decoded(NoEntries, begin + 1)
  ELSE IF s[begin] \notin Digit THEN Invalid
  ELSE LET key   == decode_str(s, begin)
           value == IF Threw(key) THEN Invalid ELSE decode_data(s, read, key.begin)
           rest  == IF Threw(value) THEN Invalid ELSE read[value.begin]["entries"]
       IN  IF Threw(rest) \/ key.value.string \in DOMAIN rest.value THEN Invalid
           ELSE Decoded(WithEntry(rest.value, key.value.string, value.value), rest.begin)

Entries(s, read, begin) ==
  IF begin > Len(s) THEN Invalid
  ELSE IF s[begin] = "e" THEN Decoded(NoEntries, begin + 1)
  ELSE IF s[begin] \notin Digit THEN Invalid
  ELSE LET key   == decode_str(s, begin)
           value == IF Threw(key) THEN Invalid ELSE decode_data(s, read, key.begin)
           rest  == IF Threw(value) THEN Invalid ELSE read[value.begin]["entries"]
       IN  IF Threw(rest) \/ key.value.string \in DOMAIN rest.value THEN Invalid
           ELSE Decoded(WithEntry(rest.value, key.value.string, value.value), rest.begin)

Loops(s) ==
  LET read[begin \in 1 .. Len(s) + 1] ==
        [loop \in {"items", "entries"} |->
           IF loop = "items" THEN Items(s, read, begin) ELSE Entries(s, read, begin)]
  IN  read

decode(s) == decode_data(s, Loops(s), 1)

----------------------------------------------------------------------------
\* The dictionaries of the answers.
PeerData(row) ==
  DictData([k \in {<<"peer_id">>, <<"ip">>, <<"port">>} |->
    CASE k = <<"peer_id">> -> StringData(row.peerId)
      [] k = <<"ip">>      -> StringData(row.ipa)
      [] k = <<"port">>    -> IntegerData(row.port)])

TorrentData(t) ==
  DictData([k \in {<<"tracker_id">>, <<"interval">>, <<"complete">>, <<"incomplete">>, <<"peers">>} |->
    CASE k = <<"tracker_id">> -> IntegerData(t.trackerId)
      [] k = <<"interval">>   -> IntegerData(t.interval)
      [] k = <<"complete">>   -> IntegerData(t.seeders)
      [] k = <<"incomplete">> -> IntegerData(t.leechers)
      [] k = <<"peers">>      -> ListData([n \in DOMAIN t.peers |-> PeerData(t.peers[n])])])

ErrorData(m) == DictData([k \in {<<"failure reason">>} |-> StringData(m)])

\* Where c is first in s, 0 if nowhere.
First(s, c) == LET places == {n \in DOMAIN s : s[n] = c} IN IF places = {} THEN 0 ELSE Min(places)

\* strlen and c_str: a text up to its first 0.
CString(s) == IF First(s, Nul) = 0 THEN s ELSE SubSeq(s, 1, First(s, Nul) - 1)

\* Mutant of HttpAnswer: streamString.size() instead of strlen.
HttpAnswerSize(body) ==
  <<"HTTP/1.1 200 OK", "Content-length: ">> \o Decimal(Len(body)) \o <<"\r\n\r\n">> \o body

\* The header, whose other lines are left out, and the body.
HttpAnswer(body) ==
  <<"HTTP/1.1 200 OK", "Content-length: ">> \o Decimal(Len(CString(body))) \o <<"\r\n\r\n">> \o body

----------------------------------------------------------------------------
\* handle_client chooses the answer by what parseAndInsertMessage has returned.
Init ==
  /\ infoHash \in BOOLEAN
  /\ pc = IF infoHash THEN "getTorrentData" ELSE "buildErrorDict"
  /\ message \in Message
  /\ result \in BoundedSeq(Row, MaxRows)
  /\ torrent = [trackerId |-> 1, interval |-> 3, seeders |-> 0, leechers |-> 0, peers |-> << >>]
  /\ answer = << >> /\ received = << >>

GetTorrentData ==
  /\ pc = "getTorrentData"
  /\ pc' = "getPeers"
  /\ \E seeders, leechers \in Count :
       torrent' = [torrent EXCEPT !.seeders = seeders, !.leechers = leechers]
  /\ UNCHANGED <<infoHash, message, result, answer, received>>

\* One turn of getPeers' loop over res->next().
FetchPeer ==
  /\ pc = "getPeers" /\ Len(torrent.peers) < Len(result)
  /\ torrent' = [torrent EXCEPT !.peers = Append(@, result[Len(@) + 1])]
  /\ UNCHANGED <<pc, infoHash, message, result, answer, received>>

\* The rows are at an end, or fetching one raises an exception: the catch block
\* returns the peers so far.
ReturnPeers ==
  /\ pc = "getPeers"
  /\ pc' = "buildDictionary"
  /\ UNCHANGED <<infoHash, message, result, torrent, answer, received>>

BuildDictionary ==
  /\ pc = "buildDictionary"
  /\ pc' = "write"
  /\ answer' = HttpAnswer(encode(TorrentData(torrent)))
  /\ UNCHANGED <<infoHash, message, result, torrent, received>>

BuildErrorDict ==
  /\ pc = "buildErrorDict"
  /\ pc' = "write"
  /\ answer' = HttpAnswer(encode(ErrorData(message)))
  /\ UNCHANGED <<infoHash, message, result, torrent, received>>

\* write(newsockfd, answer.c_str(), strlen(answer.c_str())); then the child exits.
\* A part of it is lost when the write is short or the connection breaks.
Write(n) ==
  /\ pc = "write"
  /\ pc' = "closed"
  /\ received' = SubSeq(CString(answer), 1, n)
  /\ UNCHANGED <<infoHash, message, result, torrent, answer>>

Closed == pc = "closed" /\ UNCHANGED vars

Next ==
  \/ GetTorrentData \/ FetchPeer \/ ReturnPeers \/ BuildDictionary \/ BuildErrorDict
  \/ \E n \in 0 .. Len(CString(answer)) : Write(n)
  \/ Closed

Spec == Init /\ [][Next]_vars

----------------------------------------------------------------------------
\* What the client has: the header's number, and what follows the header.
HeaderEnd     == First(received, "\r\n\r\n")
HeaderCame    == pc = "closed" /\ HeaderEnd > 0
ContentLength == Value(received, 3)
Body          == SubSeq(received, HeaderEnd + 1, Len(received))

\* What the tracker means to say: the message, or the first rows of the result.
Meant ==
  IF ~infoHash THEN ErrorData(message)
  ELSE TorrentData([torrent EXCEPT !.peers = SubSeq(result, 1, Len(torrent.peers))])

\* Whatever the peer ids hold, wherever the answer is cut off and whichever row
\* raised an exception, a client decodes what the tracker meant or nothing: no
\* shorter list of peers, no other number, no refusal that was an answer.
NeverMisread ==
  HeaderCame =>
    LET read == decode(Body) IN Threw(read) \/ (read.value = Meant /\ read.begin = Len(Body) + 1)

\* A client that gets all that is written reads it, unless there is a character 0 in
\* what the answer tells, which cuts it.
Texts ==
  IF ~infoHash THEN {message}
  ELSE {result[n].peerId : n \in DOMAIN result} \cup {result[n].ipa : n \in DOMAIN result}
WholeAnswerRead ==
  HeaderCame /\ received = CString(answer) /\ (\A s \in Texts : Nul \notin ToSet(s)) =>
    LET read == decode(Body) IN ~Threw(read) /\ read.value = Meant

\* The header's Content-length tells a client whether it has all that was written,
\* also when a character 0 has cut the body.
LengthTells ==
  HeaderCame => (Len(Body) = ContentLength <=> received = CString(answer))

=============================================================================
