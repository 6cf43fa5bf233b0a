----------------------------- MODULE MCRequest -----------------------------
(***************************************************************************)
(* Announces of two parameters each out of a set that holds what clients   *)
(* send and what goes wrong: every escape of one hash, numbers of two      *)
(* digits that a cut can halve, numbers that follow a tab, do not fit or   *)
(* are none, duplicates, a parameter without a value, a "?" in a value,    *)
(* parameters and headers that pretend to be the address or the pass, and  *)
(* headers with one "=" and with two.                                      *)
(***************************************************************************)
EXTENDS Request

Value(name, value) == [name |-> <<name>>, value |-> value]

Hashes == {Value("info_hash", <<"%", "4", "A">>), Value("info_hash", <<"%", "4", "a">>),
           Value("info_hash", <<"J">>)}

Params == Hashes \cup
  { Value("port", <<"1", "2">>), Value("port", <<"x">>),
    Value("downloaded", <<"tab", "-", "1">>), Value("uploaded", <<"2", "1">>),
    Value("uploaded", <<"1">>),
    Value("event", <<"Stopped">>), Value("peer_id", <<"qt">>),
    Value("ip", <<"1">>), Value("urlKey", <<"1">>),
    Value("info_hash", <<"%", "4">>), Value("peer_id", <<"q", "?", "t">>),
    [name |-> <<"compact">>] }

HashOf(params) ==
  LET asked == {n \in DOMAIN params : params[n].name = <<"info_hash">>}
  IN  IF asked # {} /\ params[Max(asked)] \in Hashes THEN <<"4", "a">> ELSE << >>

Ask(params, headers) ==
  [pass |-> <<"p", "q">>, params |-> params, headers |-> headers, hash |-> HashOf(params)]

RequestValue ==
  {Ask(<<p, q>>, <<"HTTP">>) : p, q \in Params} \cup
  {Ask(<<p>>, <<"HTTP", "=", "1", " ", "port">>) : p \in Params} \cup
  {Ask(<<p>>, <<"HTTP", "=", "1", " ", "ip", "=", "1", " ">>) : p \in Params}

TokenValue ==
  {" ", "?", "=", "&", "/", "GET", "announce", "url", "urlKey", "ip", "port", "event",
   "info_hash", "peer_id", "downloaded", "left", "uploaded", "compact", "HTTP",
   "p", "q", "t", "qt", "x", "-", "%", "1", "2", "4", "A", "a", "J", "j", "Stopped", "stopped", "tab", "nul"}

BlankValue == {" ", "tab"}
DigitValue == [d \in {"1", "2", "4"} |-> IF d = "1" THEN 1 ELSE IF d = "2" THEN 2 ELSE 4]
LowerValue == [d \in {"A", "J", "Stopped"} |->
                 IF d = "A" THEN "a" ELSE IF d = "J" THEN "j" ELSE "stopped"]
\* Of the unescaped characters only the J belongs to the hash.
AsciiValue == [d \in TokenValue |-> IF d = "J" THEN <<"4", "a">> ELSE <<"nul">>]
AddressValue == <<"2">>

=============================================================================
