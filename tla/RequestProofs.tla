--------------------------- MODULE RequestProofs ----------------------------
(***************************************************************************)
(* What the two loops make of whatever text a client sends, and of every   *)
(* well-formed announce, wherever read() cuts it off.  Induction over the  *)
(* text is on numbers, see NumberInduction: a set takes the place of the   *)
(* predicate.                                                              *)
(***************************************************************************)
EXTENDS Request, SequenceLemmas

----------------------------------------------------------------------------
\* The text of a request in its places: the path up to the "?", the parameters, each
\* but the first with an "&" before it, and the headers behind a space.
Path(r) == <<"GET", " ", "/">> \o r.pass \o <<"/", "announce", "?">>
Url(r)  == <<"/">> \o r.pass \o <<"/", "announce">>

LEMMA PathText ==
  ASSUME NEW r \in RequestType
  PROVE  /\ Path(r) \in Text /\ Len(Path(r)) = Len(r.pass) + 6 /\ Len(r.pass) \in Nat
         /\ Path(r)[1] = "GET" /\ Path(r)[2] = " " /\ Path(r)[3] = "/"
         /\ \A i \in 1 .. Len(r.pass) : Path(r)[3 + i] = r.pass[i]
         /\ Path(r)[Len(r.pass) + 4] = "/" /\ Path(r)[Len(r.pass) + 5] = "announce"
         /\ Path(r)[Len(r.pass) + 6] = "?"
<1> DEFINE a == <<"GET", " ", "/">>
           b == <<"/", "announce", "?">>
           p == r.pass
           all == Three(a, p, b)
<1>1. p \in Seq(Token)  BY DEF RequestType, Text
<1>2. "GET" \in Token /\ " " \in Token /\ "/" \in Token /\ "announce" \in Token /\ "?" \in Token
  BY TextAssumption DEF Separator
<1>3. a \in Seq(Token) /\ Len(a) = 3 /\ a[1] = "GET" /\ a[2] = " " /\ a[3] = "/"
  BY <1>2, Tuples
<1>4. b \in Seq(Token) /\ Len(b) = 3 /\ b[1] = "/" /\ b[2] = "announce" /\ b[3] = "?"
  BY <1>2, Tuples
<1>5. Path(r) = all  BY DEF Path, Three
<1> HIDE DEF a, b, p
<1>60. a \in Seq(Token) /\ b \in Seq(Token)  BY <1>3, <1>4
<1>6. /\ all \in Seq(Token) /\ Len(all) = Len(a) + Len(p) + Len(b) /\ Len(p) \in Nat
      /\ At(all, 0, a) /\ At(all, Len(a), p) /\ At(all, Len(a) + Len(p), b)
  BY <1>1, <1>60, Around
<1> HIDE DEF all
<1>61. Len(a) = 3 /\ Len(b) = 3  BY <1>3, <1>4
<1>63. At(all, 0, a)  BY <1>6
<1>62. Len(all) = Len(a) + Len(p) + Len(b) /\ Len(p) \in Nat  BY <1>6
<1>7. all[1] = "GET" /\ all[2] = " " /\ all[3] = "/"
  <2>1. \A i \in 1 .. Len(a) : all[i] = a[i]  BY <1>63, AtFirst
  <2>2. 1 \in 1 .. Len(a) /\ 2 \in 1 .. Len(a) /\ 3 \in 1 .. Len(a)  BY <1>61
  <2> QED  BY <1>3, <2>1, <2>2
<1>8. all[(3 + Len(p)) + 1] = "/" /\ all[(3 + Len(p)) + 2] = "announce" /\ all[(3 + Len(p)) + 3] = "?"
  <2>1. \A i \in 1 .. 3 : all[(3 + Len(p)) + i] = b[i]  BY <1>3, <1>4, <1>6 DEF At
  <2> QED  BY <1>4, <2>1
<1>9. /\ (3 + Len(p)) + 1 = Len(p) + 4 /\ (3 + Len(p)) + 2 = Len(p) + 5
      /\ (3 + Len(p)) + 3 = Len(p) + 6
  BY <1>6
<1>10. /\ all[1] = "GET" /\ all[2] = " " /\ all[3] = "/"
       /\ all[Len(p) + 4] = "/" /\ all[Len(p) + 5] = "announce" /\ all[Len(p) + 6] = "?"
       /\ Len(all) = Len(p) + 6 /\ Len(p) \in Nat /\ all \in Text
  <2>1. Len(all) = Len(p) + 6  BY <1>61, <1>62
  <2> QED  BY <1>6, <1>7, <1>8, <1>9, <2>1 DEF Text
<1>11. \A i \in 1 .. Len(p) : all[3 + i] = p[i]  BY <1>3, <1>6 DEF At
<1> QED  BY <1>5, <1>10, <1>11 DEF p

LEMMA UrlText ==
  ASSUME NEW r \in RequestType
  PROVE  /\ Url(r) \in Text /\ Len(Url(r)) = Len(r.pass) + 3 /\ Len(r.pass) \in Nat
         /\ Url(r)[1] = "/" /\ Url(r)[Len(r.pass) + 2] = "/"
         /\ Url(r)[Len(r.pass) + 3] = "announce"
         /\ \A i \in 1 .. Len(r.pass) : Url(r)[1 + i] = r.pass[i]
         /\ Url(r) = SubSeq(Path(r), 3, Len(Path(r)) - 1)
<1> DEFINE a == <<"/">>
           b == <<"/", "announce">>
           p == r.pass
           all == Three(a, p, b)
<1>1. p \in Seq(Token)  BY DEF RequestType, Text
<1>2. "/" \in Token /\ "announce" \in Token  BY TextAssumption DEF Separator
<1>3. a \in Seq(Token) /\ Len(a) = 1 /\ a[1] = "/"  BY <1>2, Tuples
<1>4. b \in Seq(Token) /\ Len(b) = 2 /\ b[1] = "/" /\ b[2] = "announce"  BY <1>2, Tuples
<1>5. Url(r) = all  BY DEF Url, Three
<1> HIDE DEF a, b, p
<1>60. a \in Seq(Token) /\ b \in Seq(Token)  BY <1>3, <1>4
<1>6. /\ all \in Seq(Token) /\ Len(all) = Len(a) + Len(p) + Len(b) /\ Len(p) \in Nat
      /\ At(all, 0, a) /\ At(all, Len(a), p) /\ At(all, Len(a) + Len(p), b)
  BY <1>1, <1>60, Around
<1> HIDE DEF all
<1>8. Len(all) = Len(p) + 3 /\ Len(p) \in Nat  BY <1>3, <1>4, <1>6
<1>9. all[1] = "/"
  <2>1. \A i \in 1 .. Len(a) : all[i] = a[i]  BY <1>6, AtFirst
  <2>2. 1 \in 1 .. Len(a)  BY <1>3
  <2> QED  BY <1>3, <2>1, <2>2
<1>10. \A i \in 1 .. Len(p) : all[1 + i] = p[i]  BY <1>3, <1>6 DEF At
<1>11. all[Len(p) + 2] = "/" /\ all[Len(p) + 3] = "announce"
  <2>0. \A i \in 1 .. 2 : all[(1 + Len(p)) + i] = b[i]  BY <1>3, <1>4, <1>6 DEF At
  <2>1. all[(1 + Len(p)) + 1] = "/" /\ all[(1 + Len(p)) + 2] = "announce"  BY <1>4, <2>0
  <2>2. (1 + Len(p)) + 1 = Len(p) + 2 /\ (1 + Len(p)) + 2 = Len(p) + 3  BY <1>6
  <2> QED  BY <2>1, <2>2
<1>12. all = SubSeq(Path(r), 3, Len(Path(r)) - 1)
  <2> DEFINE path == Path(r)
             part == SubSeq(path, 3, Len(path) - 1)
  <2>1. /\ path \in Text /\ Len(path) = Len(p) + 6
        /\ path[3] = "/" /\ \A i \in 1 .. Len(p) : path[3 + i] = p[i]
        /\ path[Len(p) + 4] = "/" /\ path[Len(p) + 5] = "announce"
    BY PathText DEF p
  <2> HIDE DEF path
  <2>2. \A i \in 3 .. Len(path) - 1 : path[i] \in Token  BY <2>1, <1>8 DEF Text
  <2>3. /\ part \in Text /\ Len(part) = Len(p) + 3
        /\ \A i \in 1 .. Len(p) + 3 : part[i] = path[3 + i - 1]
    BY <2>1, <2>2, <1>8, SubSeqProperties DEF Text
  <2> HIDE DEF part
  <2>4. \A i \in 1 .. Len(p) + 3 : part[i] = all[i]
    <3> SUFFICES ASSUME NEW i \in 1 .. Len(p) + 3 PROVE path[3 + i - 1] = all[i]
      BY <2>3
    <3>1. CASE i = 1  BY <2>1, <3>1, <1>9
    <3>2. CASE i \in 2 .. Len(p) + 1
      <4> DEFINE j == i - 1
      <4>1. j \in 1 .. Len(p) /\ 3 + i - 1 = 3 + j /\ i = 1 + j  BY <3>2, <1>8
      <4> HIDE DEF j
      <4> QED  BY <2>1, <1>10, <4>1
    <3>3. CASE i = Len(p) + 2
      <4>1. 3 + i - 1 = Len(p) + 4  BY <3>3, <1>8
      <4> QED  BY <2>1, <3>3, <1>11, <4>1
    <3>4. CASE i = Len(p) + 3
      <4>1. 3 + i - 1 = Len(p) + 5  BY <3>4, <1>8
      <4> QED  BY <2>1, <3>4, <1>11, <4>1
    <3> QED  BY <3>1, <3>2, <3>3, <3>4, <1>8
  <2>5. all = part  BY <2>3, <2>4, <1>6, <1>8, SeqEqual DEF Text
  <2> QED  BY <2>5 DEF part, path
<1> QED  BY <1>5, <1>6, <1>8, <1>9, <1>10, <1>11, <1>12 DEF p, Text

\* The parameters as they are joined, each but the first with an "&" before it.
Pieces(r) ==
  [n \in DOMAIN r.params |->
    IF n = 1 THEN Assignment(r.params[n]) ELSE <<"&">> \o Assignment(r.params[n])]

\* How much text comes before parameter k, before its "=", before what ends it, and
\* before the headers.
Start(r, k)  == Len(Path(r)) + Len(Joined(Pieces(r), k - 1)) + (IF k = 1 THEN 0 ELSE 1)
Middle(r, k) == Start(r, k) + Len(r.params[k].name)
End(r, k)    == Middle(r, k) + 1 + Len(r.params[k].value)
HeadersAt(r) == Len(Path(r)) + Len(Joined(Pieces(r), Len(r.params))) + 1

Values(r) == \A n \in DOMAIN r.params : "value" \in DOMAIN r.params[n]

LEMMA AssignmentText ==
  ASSUME NEW p \in Parameter
  PROVE  Assignment(p) \in Text /\ ("value" \in DOMAIN p => p \in Pair)
<1>1. "=" \in Token  BY TextAssumption DEF Separator
<1>2. <<"=">> \in Text  BY <1>1 DEF Text
<1>3. CASE p \in Pair
  <2>1. p.name \in Text /\ p.value \in Text  BY <1>3 DEF Pair
  <2>2. p.name \o <<"=">> \o p.value \in Text  BY <1>2, <2>1 DEF Text
  <2> QED  BY <1>3, <2>1, <2>2 DEF Assignment
<1>4. CASE p \notin Pair
  <2>1. p \in [name : Text]  BY <1>4 DEF Parameter
  <2>2. DOMAIN p = {"name"} /\ p.name \in Text  BY <2>1
  <2>3. "value" \notin DOMAIN p  BY <2>2
  <2> QED  BY <2>2, <2>3 DEF Assignment
<1> QED  BY <1>3, <1>4

LEMMA PiecesText ==
  ASSUME NEW r \in RequestType
  PROVE  /\ Pieces(r) \in Seq(Seq(Token)) /\ Len(Pieces(r)) = Len(r.params)
         /\ Len(r.params) \in Nat /\ DOMAIN r.params = 1 .. Len(r.params)
         /\ \A n \in 1 .. Len(r.params) :
              /\ r.params[n] \in Parameter /\ Assignment(r.params[n]) \in Seq(Token)
              /\ Pieces(r)[n] = IF n = 1 THEN Assignment(r.params[n])
                                ELSE <<"&">> \o Assignment(r.params[n])
<1> DEFINE ps == r.params
           K  == Len(ps)
<1>1. ps \in Seq(Parameter)  BY DEF RequestType
<1> HIDE DEF ps
<1>2. K \in Nat /\ DOMAIN ps = 1 .. K /\ \A n \in 1 .. K : ps[n] \in Parameter
  BY <1>1, LenProperties, ElementOfSeq
<1> HIDE DEF K
<1>3. \A n \in 1 .. K : Assignment(ps[n]) \in Seq(Token)
  BY <1>2, AssignmentText DEF Text
<1>4. "&" \in Token  BY TextAssumption DEF Separator
<1>5. <<"&">> \in Seq(Token)  BY <1>4
<1>6. \A n \in 1 .. K : <<"&">> \o Assignment(ps[n]) \in Seq(Token)
  BY <1>3, <1>5, ConcatProperties
<1>7. Pieces(r) = [n \in 1 .. K |-> IF n = 1 THEN Assignment(ps[n]) ELSE <<"&">> \o Assignment(ps[n])]
  BY <1>2 DEF Pieces, ps
<1>8. Pieces(r) \in [1 .. K -> Seq(Token)]  BY <1>3, <1>6, <1>7
<1>9. Pieces(r) \in Seq(Seq(Token)) /\ Len(Pieces(r)) = K
  <2>1. Pieces(r) \in Seq(Seq(Token))  BY <1>2, <1>8, SeqDef
  <2>2. DOMAIN Pieces(r) = 1 .. K  BY <1>8
  <2> HIDE DEF Pieces
  <2>3. Len(Pieces(r)) \in Nat /\ DOMAIN Pieces(r) = 1 .. Len(Pieces(r))
    BY <2>1, LenProperties
  <2> QED  BY <1>2, <2>1, <2>2, <2>3
<1>10. \A n \in 1 .. K : Pieces(r)[n] = IF n = 1 THEN Assignment(ps[n])
                                        ELSE <<"&">> \o Assignment(ps[n])
  BY <1>7
<1> QED  BY <1>2, <1>3, <1>9, <1>10 DEF ps, K

LEMMA QueryJoined ==
  ASSUME NEW r \in RequestType
  PROVE  /\ Query(r.params) = Joined(Pieces(r), Len(r.params))
         /\ Joined(Pieces(r), Len(r.params)) \in Seq(Token)
<1> DEFINE s == Pieces(r)
<1>1. s \in Seq(Seq(Token)) /\ Len(s) = Len(r.params)  BY PiecesText
<1>2. Query(r.params) = FlattenSeq(s)  BY DEF Query, Pieces
<1> HIDE DEF s
<1>3. FlattenSeq(s) = Joined(s, Len(s))  BY <1>1, FlattenJoined
<1>4. Joined(s, Len(s)) \in Seq(Token)  BY <1>1, JoinedStep
<1> QED  BY <1>1, <1>2, <1>3, <1>4 DEF s

LEMMA RequestTextParts ==
  ASSUME NEW r \in RequestType
  PROVE  LET T == RequestText(r)
             q == Joined(Pieces(r), Len(r.params))
         IN  /\ T \in Text /\ Len(q) \in Nat /\ Len(r.headers) \in Nat /\ r.headers \in Text
             /\ HeadersAt(r) = Len(Path(r)) + Len(q) + 1
             /\ Len(T) = HeadersAt(r) + Len(r.headers)
             /\ At(T, 0, Path(r)) /\ At(T, Len(Path(r)), q)
             /\ T[HeadersAt(r)] = " " /\ At(T, HeadersAt(r), r.headers)
<1> DEFINE p == Path(r)
           q == Joined(Pieces(r), Len(r.params))
           h == r.headers
           sp == <<" ">>
           pq == p \o q
           T == Three(pq, sp, h)
<1>1. p \in Seq(Token) /\ Len(p) \in Nat
  <2>1. p \in Text  BY PathText
  <2> HIDE DEF p
  <2> QED  BY <2>1 DEF Text
<1>2. q \in Seq(Token)  BY QueryJoined
<1>3. h \in Seq(Token)  BY DEF RequestType, Text
<1>4. " " \in Token  BY TextAssumption DEF Separator
<1>5. sp \in Seq(Token) /\ Len(sp) = 1 /\ sp[1] = " "  BY <1>4, Tuples
<1>6. RequestText(r) = T
  BY QueryJoined DEF RequestText, Path, Three
<1>7. HeadersAt(r) = Len(p) + Len(q) + 1  BY DEF HeadersAt
<1> HIDE DEF p, q, h, sp
<1>8. /\ pq \in Seq(Token) /\ Len(pq) = Len(p) + Len(q) /\ Len(q) \in Nat
      /\ At(pq, 0, p) /\ At(pq, Len(p), q)
  BY <1>1, <1>2, CatAt
<1> HIDE DEF pq
<1>9. sp \in Seq(Token) BY <1>5
<1>10. pq \in Seq(Token) BY <1>8
<1>11. /\ T \in Seq(Token) /\ Len(T) = Len(pq) + Len(sp) + Len(h) /\ Len(h) \in Nat
       /\ At(T, 0, pq) /\ At(T, Len(pq), sp) /\ At(T, Len(pq) + Len(sp), h)
  BY <1>3, <1>9, <1>10, Around
<1> HIDE DEF T
<1>12. Len(sp) = 1  BY <1>5
<1>13. Len(T) = Len(p) + Len(q) + 1 + Len(h) /\ Len(T) \in Nat
  <2>1. Len(T) = Len(pq) + Len(sp) + Len(h) /\ Len(h) \in Nat  BY <1>11
  <2>2. Len(pq) = Len(p) + Len(q) /\ Len(q) \in Nat /\ Len(p) \in Nat  BY <1>1, <1>8
  <2> QED  BY <1>12, <2>1, <2>2
<1>14. At(T, 0 + 0, p) /\ At(T, 0 + Len(p), q)
  BY <1>8, <1>11, <1>13, AtIn
<1>15. 0 + 0 = 0 /\ 0 + Len(p) = Len(p)  BY <1>1
<1>16. At(T, 0, p) /\ At(T, Len(p), q)  BY <1>14, <1>15
<1>17. T[Len(p) + Len(q) + 1] = " "
  <2>1. At(T, Len(pq), sp)  BY <1>11
  <2>2. \A i \in 1 .. Len(sp) : T[Len(pq) + i] = sp[i]  BY <2>1 DEF At
  <2>3. 1 \in 1 .. Len(sp)  BY <1>12
  <2>4. T[Len(pq) + 1] = sp[1]  BY <2>2, <2>3
  <2>5. Len(pq) = Len(p) + Len(q) /\ sp[1] = " "  BY <1>5, <1>8
  <2> QED  BY <2>4, <2>5
<1>18. At(T, Len(p) + Len(q) + 1, h)
  <2>1. Len(pq) + Len(sp) = Len(p) + Len(q) + 1  BY <1>8, <1>12
  <2>2. At(T, Len(pq) + Len(sp), h)  BY <1>11
  <2> QED  BY <2>1, <2>2
<1>19. T \in Text /\ Len(q) \in Nat /\ Len(h) \in Nat /\ h \in Text
  BY <1>3, <1>8, <1>11 DEF Text
<1>20. Len(T) = (Len(p) + Len(q) + 1) + Len(h)  BY <1>13
<1> QED  BY <1>6, <1>7, <1>16, <1>17, <1>18, <1>19, <1>20 DEF p, q, h

\* Where parameter k is.
LEMMA ParameterText ==
  ASSUME NEW r \in RequestType, Values(r), NEW k \in 1 .. Len(r.params)
  PROVE  LET T == RequestText(r)
             p == r.params[k]
         IN  /\ p \in Pair /\ Len(p.name) \in Nat /\ Len(p.value) \in Nat
             /\ Start(r, k) \in Nat /\ Start(r, k) >= Len(Path(r))
             /\ End(r, k) = Len(Path(r)) + Len(Joined(Pieces(r), k))
             /\ End(r, k) < HeadersAt(r)
             /\ At(T, Start(r, k), p.name) /\ T[Middle(r, k) + 1] = "="
             /\ At(T, Middle(r, k) + 1, p.value)
             /\ k # 1 => T[Start(r, k)] = "&"
<1> DEFINE T == RequestText(r)
           P == Pieces(r)
           p == r.params[k]
           a == Assignment(p)
           j == Joined(P, k - 1)
           q == Joined(P, Len(r.params))
           eq == <<"=">>
           and == <<"&">>
           L == Len(Path(r))
<1>1. /\ P \in Seq(Seq(Token)) /\ Len(P) = Len(r.params) /\ p \in Parameter
      /\ a \in Seq(Token) /\ P[k] = IF k = 1 THEN a ELSE and \o a
  BY PiecesText
<1>2. "value" \in DOMAIN p /\ p \in Pair
  <2>1. k \in DOMAIN r.params  BY PiecesText
  <2>2. "value" \in DOMAIN p  BY <2>1 DEF Values
  <2> QED  BY <1>1, <2>2, AssignmentText
<1>3. p.name \in Seq(Token) /\ p.value \in Seq(Token)  BY <1>2 DEF Pair, Text
<1>4. "=" \in Token /\ "&" \in Token  BY TextAssumption DEF Separator
<1>5. eq \in Seq(Token) /\ Len(eq) = 1 /\ eq[1] = "="  BY <1>4, Tuples
<1>6. and \in Seq(Token) /\ Len(and) = 1 /\ and[1] = "&"  BY <1>4, Tuples
<1>7. a = Three(p.name, eq, p.value)  BY <1>2 DEF Assignment, Three
<1>8. L \in Nat /\ At(T, L, q) /\ HeadersAt(r) = L + Len(q) + 1 /\ Len(q) \in Nat /\ Len(T) \in Nat
  <2>1. Path(r) \in Text /\ T \in Text  BY PathText, RequestTextParts
  <2>2. Path(r) \in Seq(Token) /\ T \in Seq(Token)  BY <2>1 DEF Text
  <2>3. L \in Nat /\ Len(T) \in Nat
    <3> HIDE DEF T
    <3> QED  BY <2>2, LenProperties
  <2> QED  BY <2>3, RequestTextParts
<1>9. /\ Len(j) \in Nat /\ Len(Joined(P, k)) = Len(j) + Len(P[k])
      /\ Len(Joined(P, k)) <= Len(q)
      /\ \A i \in 1 .. Len(P[k]) : q[Len(j) + i] = P[k][i]
  <2> HIDE DEF P
  <2>1. k \in 1 .. Len(P) /\ P \in Seq(Seq(Token))  BY <1>1
  <2>2. Joined(P, Len(P)) = q  BY <1>1
  <2>3. /\ Len(j) \in Nat /\ Len(Joined(P, k)) = Len(j) + Len(P[k])
        /\ Len(Joined(P, k)) <= Len(Joined(P, Len(P)))
        /\ \A i \in 1 .. Len(P[k]) : Joined(P, Len(P))[Len(j) + i] = P[k][i]
    BY <2>1, JoinedAt
  <2> HIDE DEF q
  <2> QED  BY <2>2, <2>3
<1>10. P[k] \in Seq(Token)
  <2> HIDE DEF P
  <2>1. P \in Seq(Seq(Token)) /\ k \in 1 .. Len(P)  BY <1>1
  <2> QED  BY <2>1, ElementOfSeq
<1>11. Start(r, k) = L + Len(j) + (IF k = 1 THEN 0 ELSE 1)  BY DEF Start
<1>12. Middle(r, k) = Start(r, k) + Len(p.name) /\ End(r, k) = Middle(r, k) + 1 + Len(p.value)
  BY DEF Middle, End
<1> DEFINE n == p.name
           v == p.value
           pk == P[k]
           S == Start(r, k)
           M == Middle(r, k)
           E == End(r, k)
           J == Joined(P, k)
<1> HIDE DEF n, v, a, j, q, eq, and, L, T, pk, S, M, E, J
<1>13. /\ a \in Seq(Token) /\ Len(a) = Len(n) + Len(eq) + Len(v)
       /\ Len(n) \in Nat /\ Len(v) \in Nat
       /\ At(a, 0, n) /\ At(a, Len(n), eq) /\ At(a, Len(n) + Len(eq), v)
  <2>1. n \in Seq(Token) /\ v \in Seq(Token) /\ eq \in Seq(Token) /\ a = Three(n, eq, v)
    BY <1>3, <1>5, <1>7 DEF n, v
  <2> QED  BY <2>1, Around
<1>14. Len(eq) = 1 /\ Len(and) = 1  BY <1>5, <1>6
<1>15. At(q, Len(j), pk) /\ Len(pk) \in Nat
  <2>1. Len(pk) \in Nat /\ Len(j) \in Nat /\ Len(j) + Len(pk) <= Len(q)  BY <1>9, <1>10 DEF pk, J
  <2>2. \A i \in 1 .. Len(pk) : q[Len(j) + i] = pk[i]  BY <1>9 DEF pk
  <2> QED  BY <2>1, <2>2 DEF At
<1>16. At(T, L + Len(j), pk)  BY <1>8, <1>15, AtIn
<1>17. S \in Nat /\ S >= L /\ At(T, S, a) /\ S + Len(a) = L + Len(J) /\ Len(a) \in Nat
       /\ (k # 1 => T[S] = "&")
  <2>1. CASE k = 1
    <3>1. pk = a  BY <1>1, <2>1 DEF pk, a
    <3>2. S = L + Len(j)  BY <1>8, <1>9, <1>11, <2>1 DEF S
    <3>3. Len(J) = Len(j) + Len(a)  BY <1>9, <3>1 DEF pk, J
    <3>4. Len(j) \in Nat /\ L \in Nat /\ Len(a) \in Nat  BY <1>8, <1>9, <1>15, <3>1
    <3> QED  BY <1>16, <2>1, <3>1, <3>2, <3>3, <3>4
  <2>2. CASE k # 1
    <3>1. pk = and \o a  BY <1>1, <2>2 DEF pk, a, and
    <3>2. S = (L + Len(j)) + 1  BY <1>8, <1>9, <1>11, <2>2 DEF S
    <3>3. a \in Seq(Token) /\ and \in Seq(Token)  BY <1>6, <1>13
    <3>4. /\ Len(pk) = Len(and) + Len(a) /\ Len(a) \in Nat
          /\ At(pk, 0, and) /\ At(pk, Len(and), a)
      BY <3>1, <3>3, CatAt
    <3>5. Len(J) = Len(j) + Len(pk)  BY <1>9 DEF pk, J
    <3>6. Len(j) \in Nat /\ L \in Nat  BY <1>8, <1>9
    <3>7. At(T, (L + Len(j)) + 0, and) /\ At(T, (L + Len(j)) + Len(and), a)
      BY <1>8, <1>16, <3>4, AtIn
    <3>8. At(T, S, a)  BY <1>14, <3>2, <3>7
    <3>9. \A i \in 1 .. 1 : T[((L + Len(j)) + 0) + i] = and[i]  BY <1>14, <3>7 DEF At
    <3>10. T[((L + Len(j)) + 0) + 1] = and[1]  BY <3>9
    <3>11. ((L + Len(j)) + 0) + 1 = S  BY <3>2, <3>6
    <3>12. T[S] = "&"  BY <1>6, <3>10, <3>11
    <3>13. S + Len(a) = L + Len(J)  BY <1>14, <3>2, <3>4, <3>5, <3>6
    <3>14. S \in Nat /\ S >= L  BY <3>2, <3>6
    <3> QED  BY <3>4, <3>8, <3>12, <3>13, <3>14
  <2> QED  BY <2>1, <2>2
<1>18. M = S + Len(n) /\ E = M + 1 + Len(v)  BY <1>12 DEF M, S, E, n, v
<1>19. E = L + Len(J)  BY <1>13, <1>14, <1>17, <1>18
<1>20. At(T, S + 0, n) /\ At(T, S + Len(n), eq) /\ At(T, S + (Len(n) + Len(eq)), v)
  BY <1>8, <1>13, <1>17, AtIn
<1>21. S + 0 = S /\ S + Len(n) = M /\ S + (Len(n) + Len(eq)) = M + 1 /\ M \in Nat
  <2>1. S \in Nat /\ Len(n) \in Nat  BY <1>13, <1>17
  <2> QED  BY <1>14, <1>18, <2>1
<1>22. At(T, S, n) /\ At(T, M, eq) /\ At(T, M + 1, v)  BY <1>20, <1>21
<1>23. T[M + 1] = "="
  <2>1. \A i \in 1 .. Len(eq) : T[M + i] = eq[i]  BY <1>22 DEF At
  <2>2. 1 \in 1 .. Len(eq)  BY <1>14
  <2>3. T[M + 1] = eq[1]  BY <2>1, <2>2
  <2> QED  BY <1>5, <2>3
<1>24. E < HeadersAt(r)
  <2>1. Len(J) <= Len(q) /\ Len(J) \in Nat  BY <1>9, <1>15 DEF J, pk
  <2> QED  BY <1>8, <1>19, <2>1
<1> QED
  BY <1>2, <1>13, <1>17, <1>19, <1>22, <1>23, <1>24 DEF T, S, M, E, n, v, L, J, P

\* What is between two parameters, before the first and after the last.
LEMMA Between ==
  ASSUME NEW r \in RequestType, Values(r)
  PROVE  LET K == Len(r.params)
         IN  /\ K \in Nat /\ Len(Path(r)) \in Nat /\ HeadersAt(r) \in Nat
             /\ Len(Path(r)) < HeadersAt(r)
             /\ K = 0 => HeadersAt(r) = Len(Path(r)) + 1
             /\ K # 0 => Start(r, 1) = Len(Path(r)) /\ HeadersAt(r) = End(r, K) + 1
             /\ \A k \in 1 .. K : k # K =>
                  /\ k + 1 \in 1 .. K /\ Start(r, k + 1) = End(r, k) + 1
                  /\ RequestText(r)[End(r, k) + 1] = "&"
<1> DEFINE K == Len(r.params)
           P == Pieces(r)
           L == Len(Path(r))
<1>1. K \in Nat /\ Len(P) = K  BY PiecesText
<1>2. /\ HeadersAt(r) = L + Len(Joined(P, K)) + 1 /\ Len(Joined(P, K)) \in Nat
      /\ Joined(P, 0) = << >>
  BY RequestTextParts DEF Joined
<1>3. L \in Nat
  <2>1. Path(r) \in Text  BY PathText
  <2>2. Path(r) \in Seq(Token)  BY <2>1 DEF Text
  <2> QED  BY <2>2, LenProperties
<1>4. \A k \in 1 .. K : End(r, k) = L + Len(Joined(P, k)) /\ (k # 1 => RequestText(r)[Start(r, k)] = "&")
  BY ParameterText
<1>5. \A k \in 1 .. K : Start(r, k) = L + Len(Joined(P, k - 1)) + (IF k = 1 THEN 0 ELSE 1)
  BY DEF Start
<1> HIDE DEF K, P, L
<1>6. CASE K = 0
  <2>1. Len(Joined(P, 0)) = 0  BY <1>2, EmptySeq
  <2>2. HeadersAt(r) = L + 1  BY <1>2, <1>3, <1>6, <2>1
  <2> QED  BY <1>1, <1>3, <1>6, <2>2 DEF K, L
<1>7. CASE K # 0
  <2>1. 1 \in 1 .. K /\ K \in 1 .. K  BY <1>1, <1>7
  <2>2. Start(r, 1) = L
    <3>1. 1 - 1 = 0  OBVIOUS
    <3>2. Start(r, 1) = L + Len(Joined(P, 1 - 1)) + 0  BY <1>5, <2>1
    <3>3. Len(Joined(P, 1 - 1)) = 0  BY <1>2, <3>1, EmptySeq
    <3> QED  BY <1>3, <3>2, <3>3
  <2>3. HeadersAt(r) = End(r, K) + 1  BY <1>2, <1>3, <1>4, <2>1
  <2>4. ASSUME NEW k \in 1 .. K, k # K
        PROVE  /\ k + 1 \in 1 .. K /\ Start(r, k + 1) = End(r, k) + 1
               /\ RequestText(r)[End(r, k) + 1] = "&"
    <3> DEFINE m == k + 1
    <3>1. m \in 1 .. K /\ m # 1 /\ m - 1 = k  BY <1>1, <2>4
    <3> HIDE DEF m
    <3>2. Start(r, m) = L + Len(Joined(P, m - 1)) + 1 /\ RequestText(r)[Start(r, m)] = "&"
      BY <1>4, <1>5, <3>1
    <3>3. Start(r, m) = End(r, k) + 1  BY <1>4, <3>1, <3>2
    <3> QED  BY <3>1, <3>2, <3>3 DEF m
  <2>5. HeadersAt(r) \in Nat /\ L < HeadersAt(r)  BY <1>2, <1>3
  <2> QED  BY <1>1, <1>3, <1>7, <2>2, <2>3, <2>4, <2>5 DEF K, L
<1> QED  BY <1>6, <1>7

----------------------------------------------------------------------------
\* Every variable keeps its type.

\* The function that decode is defined by.  It looks ahead, one or three characters, and
\* ends three behind the string.
CharacterAt(str, beyond, n) ==
  IF n <= Len(str) THEN str[n] ELSE IF n = Len(str) + 1 THEN Nul ELSE beyond
DecodeAt(g, str, beyond, n) ==
  IF n > Len(str) THEN << >>
  ELSE IF str[n] # "%" THEN Ascii[str[n]] \o g[n + 1]
  ELSE <<ToLower(CharacterAt(str, beyond, n + 1)), ToLower(CharacterAt(str, beyond, n + 2))>>
         \o g[n + 3]
Decoding(g, str, beyond) ==
  g = [n \in 1 .. Len(str) + 3 |-> DecodeAt(g, str, beyond, n)]
Decoded(str, beyond) == CHOOSE g : Decoding(g, str, beyond)

LEMMA DecodeIs ==
  ASSUME NEW str, NEW beyond
  PROVE  decode(str, beyond) = Decoded(str, beyond)[1]
BY DEF decode, Decoded, Decoding, DecodeAt, CharacterAt

LEMMA ToLowerType == \A t \in Token : ToLower(t) \in Token
BY CharacterAssumption DEF ToLower

LEMMA DecodeAtType ==
  ASSUME NEW str \in Text, NEW beyond \in Token, NEW g, NEW n \in 1 .. Len(str) + 3,
         n <= Len(str) => g[n + 1] \in Text /\ g[n + 3] \in Text
  PROVE  DecodeAt(g, str, beyond, n) \in Text
<1>1. Len(str) \in Nat /\ str \in Seq(Token)  BY DEF Text
<1>2. CASE n > Len(str)
  <2>1. << >> \in Text  BY EmptySeq DEF Text
  <2> QED  BY <1>2, <2>1 DEF DecodeAt
<1>3. CASE ~ (n > Len(str))
  <2>1. n \in 1 .. Len(str) /\ n + 1 \in Nat /\ n + 2 \in Nat  BY <1>1, <1>3
  <2>2. str[n] \in Token  BY <1>1, <2>1, ElementOfSeq
  <2>3. g[n + 1] \in Seq(Token) /\ g[n + 3] \in Seq(Token)
    <3>1. n <= Len(str)  BY <2>1
    <3> QED  BY <3>1 DEF Text
  <2>4. CASE str[n] # "%"
    <3>1. Ascii[str[n]] \in Seq(Token)  BY <2>2, CharacterAssumption DEF Text
    <3>2. Ascii[str[n]] \o g[n + 1] \in Seq(Token)  BY <2>3, <3>1, ConcatProperties
    <3> QED  BY <1>3, <2>4, <3>2 DEF DecodeAt, Text
  <2>5. CASE str[n] = "%"
    <3>1. Nul \in Token  BY TextAssumption
    <3>2. \A m \in 1 .. Len(str) : str[m] \in Token  BY <1>1, ElementOfSeq
    <3>3. CharacterAt(str, beyond, n + 1) \in Token /\ CharacterAt(str, beyond, n + 2) \in Token
      BY <1>1, <2>1, <3>1, <3>2 DEF CharacterAt
    <3> DEFINE d == ToLower(CharacterAt(str, beyond, n + 1))
               e == ToLower(CharacterAt(str, beyond, n + 2))
    <3>4. d \in Token /\ e \in Token  BY <3>3, ToLowerType
    <3>5. DecodeAt(g, str, beyond, n) = <<d, e>> \o g[n + 3]
      BY <1>3, <2>5 DEF DecodeAt
    <3> HIDE DEF d, e
    <3>6. <<d, e>> \in Seq(Token)  BY <3>4, Tuples
    <3>7. <<d, e>> \o g[n + 3] \in Seq(Token)  BY <2>3, <3>6, ConcatProperties
    <3> QED  BY <3>5, <3>7 DEF Text
  <2> QED  BY <2>4, <2>5
<1> QED  BY <1>2, <1>3

LEMMA DecodedExists ==
  ASSUME NEW str \in Text, NEW beyond \in Token
  PROVE  /\ Decoding(Decoded(str, beyond), str, beyond)
         /\ Decoded(str, beyond) \in [1 .. Len(str) + 3 -> Text]
<1> DEFINE L == Len(str)
           N == L + 3
           Right(g, d) == \A n \in 1 .. N : n > L - d => g[n] = DecodeAt(g, str, beyond, n)
           Good == {d \in Nat : d <= L => \E g \in [1 .. N -> Text] : Right(g, d)}
<1>0. L \in Nat  BY DEF Text
<1>1. 0 \in Good
  <2> DEFINE g == [n \in 1 .. N |-> << >>]
  <2>1. << >> \in Text  BY EmptySeq DEF Text
  <2>2. g \in [1 .. N -> Text]  BY <2>1
  <2>3. \A n \in 1 .. N : n > L - 0 => g[n] = DecodeAt(g, str, beyond, n)
    BY <1>0 DEF DecodeAt
  <2> QED  BY <2>2, <2>3
<1>2. ASSUME NEW d \in Nat, d \in Good PROVE d + 1 \in Good
  <2> SUFFICES ASSUME d + 1 <= L PROVE \E h \in [1 .. N -> Text] : Right(h, d + 1)
    OBVIOUS
  <2>1. d <= L  BY <1>0
  <2>2. PICK g \in [1 .. N -> Text] : Right(g, d)  BY <1>2, <2>1
  <2> DEFINE k == L - d
             e == DecodeAt(g, str, beyond, k)
             h == [g EXCEPT ![k] = e]
  <2>3. k \in 1 .. L /\ k \in 1 .. N /\ L - (d + 1) = k - 1  BY <1>0
  <2>0. k = L - d  OBVIOUS
  <2>4. e \in Text
    <3> HIDE DEF k
    <3>1. k <= L => g[k + 1] \in Text /\ g[k + 3] \in Text  BY <1>0, <2>3
    <3> QED  BY <2>3, <3>1, DecodeAtType
  <2> HIDE DEF k
  <2>5. h \in [1 .. N -> Text] /\ h[k] = e /\ \A n \in 1 .. N : n # k => h[n] = g[n]
    <3> HIDE DEF e
    <3> QED  BY <2>3, <2>4
  <2> HIDE DEF h
  <2>6. \A n \in 1 .. N : n >= k => DecodeAt(h, str, beyond, n) = DecodeAt(g, str, beyond, n)
    <3> SUFFICES ASSUME NEW n \in 1 .. N, n >= k
                 PROVE  DecodeAt(h, str, beyond, n) = DecodeAt(g, str, beyond, n)
      OBVIOUS
    <3>1. CASE n > L  BY <3>1 DEF DecodeAt
    <3>2. CASE ~ (n > L)
      <4>1. n + 1 \in 1 .. N /\ n + 1 # k /\ n + 3 \in 1 .. N /\ n + 3 # k
        BY <1>0, <2>3, <3>2
      <4>2. h[n + 1] = g[n + 1] /\ h[n + 3] = g[n + 3]  BY <2>5, <4>1
      <4> QED  BY <4>2, Zenon DEF DecodeAt
    <3> QED  BY <3>1, <3>2
  <2>7. ASSUME NEW n \in 1 .. N, n > k - 1 PROVE h[n] = DecodeAt(h, str, beyond, n)
    <3>1. n >= k  BY <1>0, <2>3, <2>7
    <3>2. DecodeAt(h, str, beyond, n) = DecodeAt(g, str, beyond, n)  BY <2>6, <3>1
    <3>3. CASE n = k
      <4>1. h[k] = DecodeAt(g, str, beyond, k)  BY <2>5
      <4> QED  BY <3>2, <3>3, <4>1
    <3>4. CASE n # k
      <4>1. n > k  BY <2>3, <3>1, <3>4
      <4>2. n > L - d  BY <2>0, <4>1
      <4> QED  BY <2>2, <2>5, <3>2, <3>4, <4>2
    <3> QED  BY <3>3, <3>4
  <2>8. Right(h, d + 1)  BY <2>3, <2>7
  <2> QED  BY <2>5, <2>8
<1>3. L \in Good
  <2> HIDE DEF Good
  <2> QED  BY <1>0, <1>1, <1>2, NumberInduction
<1>4. PICK g \in [1 .. N -> Text] : Right(g, L)  BY <1>0, <1>3
<1>5. \A n \in 1 .. N : n > L - L  BY <1>0
<1>6. \A n \in 1 .. N : g[n] = DecodeAt(g, str, beyond, n)  BY <1>4, <1>5
<1>7. Decoding(g, str, beyond)  BY <1>6 DEF Decoding
<1>8. Decoding(Decoded(str, beyond), str, beyond)  BY <1>7 DEF Decoded
<1> DEFINE D == Decoded(str, beyond)
<1>9. D = [n \in 1 .. N |-> DecodeAt(D, str, beyond, n)]  BY <1>8 DEF Decoding
<1> HIDE DEF D
<1>10. \A n \in 1 .. N : D[n] = DecodeAt(D, str, beyond, n)  BY <1>9, Zenon
<1> DEFINE Typed(d) == \A n \in 1 .. N : n > L - d => D[n] \in Text
           Fine == {d \in Nat : d <= L => Typed(d)}
<1>11. 0 \in Fine
  <2>1. << >> \in Text  BY EmptySeq DEF Text
  <2>2. ASSUME NEW n \in 1 .. N, n > L - 0 PROVE D[n] \in Text
    <3>1. n > Len(str)  BY <1>0, <2>2
    <3>2. D[n] = << >>  BY <1>10, <3>1 DEF DecodeAt
    <3> QED  BY <2>1, <3>2
  <2> QED  BY <2>2
<1>12. ASSUME NEW d \in Nat, d \in Fine PROVE d + 1 \in Fine
  <2> SUFFICES ASSUME d + 1 <= L, NEW n \in 1 .. N, n > L - (d + 1) PROVE D[n] \in Text
    OBVIOUS
  <2>1. Typed(d)  BY <1>0, <1>12
  <2>2. n <= Len(str) => D[n + 1] \in Text /\ D[n + 3] \in Text
    <3>1. n <= L => /\ n + 1 \in 1 .. N /\ n + 1 > L - d
                    /\ n + 3 \in 1 .. N /\ n + 3 > L - d
      BY <1>0
    <3> QED  BY <2>1, <3>1
  <2>3. DecodeAt(D, str, beyond, n) \in Text  BY <2>2, DecodeAtType
  <2> QED  BY <1>10, <2>3
<1>13. L \in Fine
  <2> HIDE DEF Fine
  <2> QED  BY <1>0, <1>11, <1>12, NumberInduction
<1>14. \A n \in 1 .. N : D[n] \in Text  BY <1>0, <1>5, <1>13
<1>15. D \in [1 .. N -> Text]
  <2> DEFINE e(n) == DecodeAt(D, str, beyond, n)
  <2>1. \A n \in 1 .. N : e(n) \in Text  BY <1>10, <1>14
  <2>2. D = [n \in 1 .. N |-> e(n)]  BY <1>9
  <2> HIDE DEF e
  <2> QED  BY <2>1, <2>2
<1> QED  BY <1>8, <1>15 DEF D

LEMMA DecodeText ==
  ASSUME NEW str \in Text, NEW beyond \in Token
  PROVE  decode(str, beyond) \in Text
<1>1. 1 \in 1 .. Len(str) + 3  BY DEF Text
<1>2. Decoded(str, beyond) \in [1 .. Len(str) + 3 -> Text]  BY DecodedExists
<1> QED  BY <1>1, <1>2, DecodeIs

\* One byte, in whatever way it is spelled.
LEMMA UnitDecoded ==
  ASSUME NEW v \in Text, NEW beyond \in Token, NEW unit \in Unit, NEW o, At(v, o, unit)
  PROVE  /\ unit \in Seq(Token) /\ Byte(unit) \in Seq(Token) /\ Len(unit) \in Nat
         /\ LET g == Decoded(v, beyond) IN
              g[o + 1] = Byte(unit) \o g[o + Len(unit) + 1] /\ g[o + Len(unit) + 1] \in Seq(Token)
<1> DEFINE g == Decoded(v, beyond)
           L == Len(v)
<1>1. L \in Nat /\ o \in Nat  BY DEF Text, At
<1>2. /\ \A n \in 1 .. L + 3 : g[n] = DecodeAt(g, v, beyond, n)
      /\ \A n \in 1 .. L + 3 : g[n] \in Seq(Token)
  <2>1. g = [n \in 1 .. L + 3 |-> DecodeAt(g, v, beyond, n)] /\ g \in [1 .. L + 3 -> Text]
    BY DecodedExists DEF Decoding
  <2> HIDE DEF g, L
  <2>2. \A n \in 1 .. L + 3 : g[n] = DecodeAt(g, v, beyond, n)  BY <2>1, Zenon
  <2>3. \A n \in 1 .. L + 3 : g[n] \in Seq(Token)  BY <2>1 DEF Text
  <2> QED  BY <2>2, <2>3
<1>3. o + Len(unit) <= L /\ \A i \in 1 .. Len(unit) : v[o + i] = unit[i]
  BY DEF At
<1>4. CASE \E t \in Token \ {"%"} : unit = <<t>>
  <2>1. PICK t \in Token \ {"%"} : unit = <<t>>  BY <1>4
  <2>2. unit \in Seq(Token) /\ Len(unit) = 1 /\ unit[1] = t  BY <2>1, Tuples
  <2>3. v[o + 1] = t /\ o + 1 <= L /\ o + 1 \in 1 .. L + 3
    <3>1. Len(unit) = 1  BY <2>2
    <3>2. o + 1 <= L /\ v[o + 1] = unit[1]  BY <1>1, <1>3, <3>1
    <3> QED  BY <1>1, <2>2, <3>2
  <2>4. Byte(unit) = Ascii[t]  BY <2>2 DEF Byte
  <2>5. Ascii[t] \in Seq(Token)  BY CharacterAssumption DEF Text
  <2>6. DecodeAt(g, v, beyond, o + 1) = Ascii[t] \o g[(o + 1) + 1]
    <3>1. ~ (o + 1 > Len(v))  BY <1>1, <2>3
    <3>2. v[o + 1] # "%"  BY <2>1, <2>3
    <3> QED  BY <2>3, <3>1, <3>2 DEF DecodeAt
  <2>7. o + Len(unit) + 1 = (o + 1) + 1 /\ (o + 1) + 1 \in 1 .. L + 3
    <3>1. Len(unit) = 1  BY <2>2
    <3> QED  BY <1>1, <2>3, <3>1
  <2>8. g[o + 1] = Ascii[t] \o g[(o + 1) + 1]  BY <1>2, <2>3, <2>6
  <2>9. g[(o + 1) + 1] \in Seq(Token)  BY <1>2, <2>7
  <2>10. Len(unit) \in Nat  BY <2>2
  <2> HIDE DEF g
  <2> QED  BY <2>2, <2>4, <2>5, <2>7, <2>8, <2>9, <2>10 DEF g
<1>5. CASE \E t, u \in Token : unit = <<"%", t, u>>
  <2>1. PICK t \in Token, u \in Token : unit = <<"%", t, u>>  BY <1>5
  <2>2. unit \in Seq({"%"} \cup Token) /\ Len(unit) = 3 /\ unit[1] = "%" /\ unit[2] = t /\ unit[3] = u
    <3>1. "%" \in {"%"} \cup Token /\ t \in {"%"} \cup Token /\ u \in {"%"} \cup Token  OBVIOUS
    <3> QED  BY <2>1, <3>1, Tuples
  <2>3. Len(unit) = 3  BY <2>2
  <2>4. /\ o + 1 \in 1 .. L /\ o + 2 \in 1 .. L /\ o + 3 \in 1 .. L /\ o + 1 \in 1 .. L + 3
        /\ (o + 1) + 1 = o + 2 /\ (o + 1) + 2 = o + 3 /\ (o + 1) + 3 = o + 4
        /\ o + Len(unit) + 1 = o + 4 /\ o + 4 \in 1 .. L + 3
    BY <1>1, <1>3, <2>3
  <2>5. v[o + 1] = unit[1] /\ v[o + 2] = unit[2] /\ v[o + 3] = unit[3]
    <3>1. \A i \in 1 .. 3 : v[o + i] = unit[i]  BY <1>3, <2>3
    <3> QED  BY <3>1
  <2>6. v[o + 1] = "%" /\ v[o + 2] = t /\ v[o + 3] = u  BY <2>2, <2>5
  <2>7. \A n \in 1 .. L : v[n] \in Token
    <3>1. v \in Seq(Token)  BY DEF Text
    <3> QED  BY <3>1, ElementOfSeq
  <2>8. "%" \in Token  BY <2>4, <2>6, <2>7
  <2>9. unit \in Seq(Token)  BY <2>1, <2>8, Tuples
  <2> DEFINE d == ToLower(t)
             e == ToLower(u)
  <2>10. d \in Token /\ e \in Token  BY ToLowerType
  <2>11. Byte(unit) = <<d, e>>
    <3>1. Len(unit) # 1  BY <2>3
    <3> QED  BY <2>2, <3>1 DEF Byte
  <2>12. CharacterAt(v, beyond, o + 2) = t /\ CharacterAt(v, beyond, o + 3) = u
    <3>1. o + 2 <= Len(v) /\ o + 3 <= Len(v)  BY <1>1, <2>4
    <3> QED  BY <2>6, <3>1 DEF CharacterAt
  <2>13. DecodeAt(g, v, beyond, o + 1) = <<d, e>> \o g[o + 4]
    <3>1. ~ (o + 1 > Len(v))  BY <1>1, <2>4
    <3>2. DecodeAt(g, v, beyond, o + 1) =
            <<ToLower(CharacterAt(v, beyond, (o + 1) + 1)),
              ToLower(CharacterAt(v, beyond, (o + 1) + 2))>> \o g[(o + 1) + 3]
      BY <2>6, <3>1 DEF DecodeAt
    <3> QED  BY <2>4, <2>12, <3>2
  <2>14. g[o + 1] = <<d, e>> \o g[o + 4] /\ g[o + 4] \in Seq(Token)  BY <1>2, <2>4, <2>13
  <2>15. <<d, e>> \in Seq(Token)
    <3> HIDE DEF d, e
    <3> QED  BY <2>10, Tuples
  <2>16. Len(unit) \in Nat /\ o + Len(unit) + 1 = o + 4  BY <2>3, <2>4
  <2> HIDE DEF g, d, e
  <2> QED  BY <2>9, <2>11, <2>14, <2>15, <2>16 DEF g
<1> QED  BY <1>4, <1>5 DEF Unit

LEMMA UnitType ==
  ASSUME NEW unit \in Unit
  PROVE  unit \in Seq(Token) /\ Byte(unit) \in Seq(Token)
<1>1. CASE \E t \in Token \ {"%"} : unit = <<t>>
  <2>1. PICK t \in Token \ {"%"} : unit = <<t>>  BY <1>1
  <2>2. unit \in Seq(Token) /\ Len(unit) = 1 /\ unit[1] = t  BY <2>1, Tuples
  <2>3. Byte(unit) = Ascii[t]  BY <2>2 DEF Byte
  <2>4. Ascii[t] \in Seq(Token)  BY CharacterAssumption DEF Text
  <2> QED  BY <2>2, <2>3, <2>4
<1>2. CASE \E t, u \in Token : unit = <<"%", t, u>>
  <2>1. PICK t \in Token, u \in Token : unit = <<"%", t, u>>  BY <1>2
  <2>2. "%" \in Token  BY TextAssumption
  <2>3. unit \in Seq(Token) /\ Len(unit) = 3 /\ unit[2] = t /\ unit[3] = u
    BY <2>1, <2>2, Tuples
  <2> DEFINE d == ToLower(t)
             e == ToLower(u)
  <2>4. d \in Token /\ e \in Token  BY ToLowerType
  <2>5. Byte(unit) = <<d, e>>
    <3>1. Len(unit) # 1  BY <2>3
    <3> QED  BY <2>3, <3>1 DEF Byte
  <2> HIDE DEF d, e
  <2>6. <<d, e>> \in Seq(Token)  BY <2>4, Tuples
  <2> QED  BY <2>3, <2>5, <2>6
<1> QED  BY <1>1, <1>2 DEF Unit

\* However its bytes are spelled, a hash is decoded to itself.
THEOREM DecodeSpelling ==
  ASSUME NEW v \in Text, NEW hash \in Text, Spells(v, hash), NEW beyond \in Token
  PROVE  decode(v, beyond) = hash
<1> DEFINE M == Len(hash) \div 2
<1>1. PICK U \in [1 .. M -> Unit] :
        v = FlattenSeq(U) /\ hash = FlattenSeq([n \in DOMAIN U |-> Byte(U[n])])
  BY DEF Spells
<1> DEFINE B == [n \in 1 .. M |-> Byte(U[n])]
           g == Decoded(v, beyond)
           L == Len(v)
<1>2. M \in Nat /\ L \in Nat  BY DEF Text
<1> HIDE DEF M
<1>3. \A n \in 1 .. M : U[n] \in Seq(Token) /\ Byte(U[n]) \in Seq(Token)  BY UnitType
<1>4. /\ U \in Seq(Seq(Token)) /\ Len(U) = M /\ B \in Seq(Seq(Token)) /\ Len(B) = M
      /\ \A n \in 1 .. M : B[n] = Byte(U[n])
  <2>1. U \in [1 .. M -> Seq(Token)]  BY <1>3
  <2>2. B \in [1 .. M -> Seq(Token)]  BY <1>3
  <2>3. \A n \in 1 .. M : B[n] = Byte(U[n])  OBVIOUS
  <2> HIDE DEF B
  <2>4. U \in Seq(Seq(Token)) /\ B \in Seq(Seq(Token))  BY <1>2, <2>1, <2>2, SeqDef
  <2>5. DOMAIN U = 1 .. M /\ DOMAIN B = 1 .. M  BY <2>1, <2>2
  <2>6. Len(U) \in Nat /\ DOMAIN U = 1 .. Len(U) /\ Len(B) \in Nat /\ DOMAIN B = 1 .. Len(B)
    BY <2>4, LenProperties
  <2>7. Len(U) = M /\ Len(B) = M  BY <1>2, <2>5, <2>6
  <2> QED  BY <2>3, <2>4, <2>7
<1>5. v = Joined(U, M) /\ hash = Joined(B, M)
  <2>1. hash = FlattenSeq(B)  BY <1>1
  <2> HIDE DEF B
  <2>2. v = Joined(U, Len(U)) /\ hash = Joined(B, Len(B))
    BY <1>1, <1>4, <2>1, FlattenJoined
  <2> QED  BY <1>4, <2>2
<1> HIDE DEF B
<1>6. \A n \in 1 .. M : /\ Len(Joined(U, n - 1)) \in Nat
                        /\ Len(Joined(U, n)) = Len(Joined(U, n - 1)) + Len(U[n])
                        /\ At(v, Len(Joined(U, n - 1)), U[n])
                        /\ Joined(B, n - 1) \in Seq(Token)
                        /\ Joined(B, n) = Joined(B, n - 1) \o B[n]
  <2> SUFFICES ASSUME NEW n \in 1 .. M
               PROVE  /\ Len(Joined(U, n - 1)) \in Nat
                      /\ Len(Joined(U, n)) = Len(Joined(U, n - 1)) + Len(U[n])
                      /\ At(v, Len(Joined(U, n - 1)), U[n])
                      /\ Joined(B, n - 1) \in Seq(Token)
                      /\ Joined(B, n) = Joined(B, n - 1) \o B[n]
    OBVIOUS
  <2>1. n \in 1 .. Len(U) /\ n \in 1 .. Len(B)  BY <1>4
  <2>2. Joined(B, n - 1) \in Seq(Token) /\ Joined(B, n) = Joined(B, n - 1) \o B[n]
    BY <1>4, <2>1, JoinedStep
  <2>3. U \in Seq(Seq(Token))  BY <1>4
  <2>4. /\ Len(Joined(U, n - 1)) \in Nat
        /\ Len(Joined(U, n)) = Len(Joined(U, n - 1)) + Len(U[n])
        /\ Len(Joined(U, n)) <= Len(Joined(U, Len(U)))
        /\ \A j \in 1 .. Len(U[n]) : Joined(U, Len(U))[Len(Joined(U, n - 1)) + j] = U[n][j]
    BY <2>1, <2>3, JoinedAt
  <2>5. Joined(U, Len(U)) = v  BY <1>4, <1>5
  <2>6. U[n] \in Seq(Token) BY <1>3
  <2>7. Len(U[n]) \in Nat  BY <2>6
  <2>8. At(v, Len(Joined(U, n - 1)), U[n])
    <3> DEFINE o == Len(Joined(U, n - 1))
               unit == U[n]
    <3>1. /\ o \in Nat /\ Len(unit) \in Nat /\ o + Len(unit) <= Len(v)
          /\ \A j \in 1 .. Len(unit) : v[o + j] = unit[j]
      BY <2>4, <2>5, <2>7
    <3> HIDE DEF o, unit
    <3>2. At(v, o, unit)  BY <3>1 DEF At
    <3> QED  BY <3>2 DEF o, unit
  <2> QED  BY <2>2, <2>4, <2>8
<1> DEFINE Rest(n) == g[Len(Joined(U, n)) + 1]
           Good == {n \in Nat : n <= M => g[1] = Joined(B, n) \o Rest(n)}
<1>7. Joined(U, 0) = << >> /\ Joined(B, 0) = << >> /\ Len(Joined(U, 0)) = 0
  BY EmptySeq DEF Joined
<1>8. \A n \in 1 .. L + 3 : g[n] = DecodeAt(g, v, beyond, n) /\ g[n] \in Seq(Token)
  <2>1. g = [n \in 1 .. L + 3 |-> DecodeAt(g, v, beyond, n)] /\ g \in [1 .. L + 3 -> Text]
    BY DecodedExists DEF Decoding
  <2> HIDE DEF g, L
  <2>2. \A n \in 1 .. L + 3 : g[n] = DecodeAt(g, v, beyond, n)  BY <2>1, Zenon
  <2>3. \A n \in 1 .. L + 3 : g[n] \in Seq(Token)  BY <2>1 DEF Text
  <2> QED  BY <2>2, <2>3
<1>9. 0 \in Good
  <2>1. 1 \in 1 .. L + 3 /\ Len(Joined(U, 0)) + 1 = 1  BY <1>2, <1>7
  <2>2. g[1] \in Seq(Token)  BY <1>8, <2>1
  <2>3. g[1] = << >> \o g[1]  BY <2>2, ConcatEmptySeq
  <2>4. g[1] = Joined(B, 0) \o Rest(0)  BY <1>7, <2>1, <2>3
  <2> QED  BY <2>4
<1>10. ASSUME NEW n \in Nat, n \in Good PROVE n + 1 \in Good
  <2> DEFINE m == n + 1
  <2> SUFFICES ASSUME m <= M PROVE g[1] = Joined(B, m) \o Rest(m)
    <3> HIDE DEF Rest, g
    <3>1. m \in Nat /\ (m <= M => g[1] = Joined(B, m) \o Rest(m)) => m \in Good  OBVIOUS
    <3> QED  BY <3>1
  <2>1. n <= M /\ m \in 1 .. M /\ m - 1 = n  BY <1>2
  <2>2. g[1] = Joined(B, n) \o Rest(n)  BY <1>10, <2>1
  <2> HIDE DEF m
  <2> DEFINE unit == U[m]
             o == Len(Joined(U, n))
  <2>3. unit \in Unit /\ At(v, o, unit) /\ o \in Nat /\ Len(Joined(U, m)) = o + Len(unit)
    BY <1>6, <2>1
  <2>4. B[m] = Byte(unit)  BY <1>4, <2>1
  <2> HIDE DEF unit, o
  <2>5. /\ Byte(unit) \in Seq(Token)
        /\ g[o + 1] = Byte(unit) \o g[o + Len(unit) + 1] /\ g[o + Len(unit) + 1] \in Seq(Token)
    BY <2>3, UnitDecoded
  <2> DEFINE rest == g[o + Len(unit) + 1]
             byte == Byte(unit)
             sofar == Joined(B, n)
  <2>6. Rest(n) = byte \o rest /\ Rest(m) = rest  BY <2>3, <2>5 DEF o
  <2>7. sofar \in Seq(Token) /\ Joined(B, m) = sofar \o byte  BY <1>6, <2>1, <2>4
  <2>8. byte \in Seq(Token) /\ rest \in Seq(Token)  BY <2>5
  <2> HIDE DEF byte, rest, sofar
  <2>9. (sofar \o byte) \o rest = sofar \o (byte \o rest)
    BY <2>7, <2>8, ConcatAssociative
  <2>10. g[1] = sofar \o (byte \o rest)  BY <2>2, <2>6 DEF sofar
  <2> HIDE DEF Rest
  <2> QED  BY <2>6, <2>7, <2>9, <2>10
<1>11. g[1] = Joined(B, M) \o Rest(M)
  <2>1. M \in Good
    <3> HIDE DEF Good
    <3> QED  BY <1>2, <1>9, <1>10, NumberInduction
  <2> QED  BY <1>2, <2>1
<1>12. Rest(M) = << >>
  <2>1. Rest(M) = g[L + 1]  BY <1>5
  <2>2. L + 1 \in 1 .. L + 3 /\ L + 1 > Len(v)  BY <1>2
  <2>3. g[L + 1] = DecodeAt(g, v, beyond, L + 1)  BY <1>8, <2>2
  <2> QED  BY <2>1, <2>2, <2>3 DEF DecodeAt
<1>13. hash \o << >> = hash
  <2>1. hash \in Seq(Token)  BY DEF Text
  <2> QED  BY <2>1, ConcatEmptySeq
<1>14. g[1] = hash  BY <1>5, <1>11, <1>12, <1>13
<1> QED  BY <1>14, DecodeIs

LEMMA KeyText ==
  ASSUME NEW url \in Text
  PROVE  getKeyFromURL(url) \in Text
<1> DEFINE slashes == {n \in DOMAIN url : url[n] = "/"}
           first   == Min(slashes)
           later   == slashes \ {first}
           last    == IF later = {} THEN Len(url) ELSE Min(later) - 1
<1>1. url \in Seq(Token) /\ Len(url) \in Nat /\ DOMAIN url = 1 .. Len(url)
  BY LenProperties DEF Text
<1>2. slashes \in SUBSET (1 .. Len(url)) /\ slashes \in SUBSET Nat /\ later \in SUBSET slashes
  BY <1>1
<1>3. getKeyFromURL(url) = IF slashes = {} THEN << >> ELSE SubSeq(url, first + 1, last)
  BY DEF getKeyFromURL
<1>4. CASE slashes = {}
  <2>1. << >> \in Text  BY EmptySeq DEF Text
  <2> QED  BY <1>3, <1>4, <2>1
<1>5. CASE slashes # {}
  <2> HIDE DEF slashes
  <2>1. first \in slashes  BY <1>2, <1>5, MinIn
  <2>2. last \in Int /\ last <= Len(url)
    <3>1. CASE later = {}  BY <1>1, <3>1
    <3>2. CASE later # {}
      <4>1. Min(later) \in later
        <5> HIDE DEF later
        <5> QED  BY <1>2, <3>2, MinIn
      <4> HIDE DEF later
      <4>2. Min(later) \in 1 .. Len(url)  BY <1>2, <4>1
      <4> QED  BY <1>1, <3>2, <4>2
    <3> QED  BY <3>1, <3>2
  <2> HIDE DEF first, last
  <2>3. first + 1 \in Int /\ \A i \in first + 1 .. last : i \in 1 .. Len(url)
    BY <1>1, <1>2, <2>1, <2>2
  <2>4. \A i \in first + 1 .. last : url[i] \in Token  BY <1>1, <2>3, ElementOfSeq
  <2>5. SubSeq(url, first + 1, last) \in Seq(Token)
    <3> DEFINE m == first + 1
    <3>1. m \in Int /\ last \in Int /\ \A i \in m .. last : url[i] \in Token
      BY <2>2, <2>3, <2>4
    <3> HIDE DEF m
    <3>2. SubSeq(url, m, last) \in Seq(Token)  BY <3>1, SubSeqProperties
    <3> QED  BY <3>2 DEF m
  <2> QED  BY <1>3, <1>5, <2>5 DEF Text
<1> QED  BY <1>4, <1>5

TypeInv == TypeOK /\ (pc # "read" => Len(buffer) = BufferSize)

LEMMA TypeInit ==
  ASSUME Init
  PROVE  TypeInv
<1>1. << >> \in Text /\ << >> \in Seq(Pair) /\ Len(<< >>) = 0  BY EmptySeq DEF Text
<1>2. parser \in ParserState
  <2>1. 1 \in 1 .. BufferSize + 1  BY NumberAssumption
  <2> QED  BY <1>1, <2>1 DEF Init, ParserState
<1>3. info \in AnnounceInfo
  <2>1. PICK port \in Garbage, downloaded \in Garbage, left \in Garbage, uploaded \in Garbage :
          info = [ipa |-> << >>, infoHash |-> << >>, peerId |-> << >>, torrentPass |-> << >>,
                  event |-> 0, port |-> port, downloaded |-> downloaded,
                  left |-> left, uploaded |-> uploaded]
    BY DEF Init
  <2>2. Garbage \subseteq Word  BY NumberAssumption
  <2> QED  BY <1>1, <2>1, <2>2 DEF AnnounceInfo
<1> QED  BY <1>1, <1>2, <1>3 DEF Init, TypeInv, TypeOK

LEMMA RequestTyped == \A r \in Request : r \in RequestType /\ RequestText(r) \in Text
<1>1. \A r \in Request : r \in RequestType  BY TextAssumption
<1> QED  BY <1>1, RequestTextParts

LEMMA ReadType ==
  ASSUME TypeInv, NEW n \in 0 .. Len(RequestText(request)), Read(n)
  PROVE  TypeInv'
<1> DEFINE T == RequestText(request)
           cut == [m \in 1 .. BufferSize |-> IF m <= n THEN T[m] ELSE Nul]
<1>1. T \in Seq(Token)  BY RequestTyped DEF TypeInv, TypeOK, Text
<1>2. Nul \in Token /\ BufferSize \in Nat  BY TextAssumption, NumberAssumption
<1>3. buffer' = cut /\ pc' = "parse"  BY DEF Read
<1> HIDE DEF T
<1>4. \A m \in 1 .. Len(T) : T[m] \in Token /\ Len(T) \in Nat  BY <1>1, ElementOfSeq
<1>5. \A m \in 1 .. BufferSize : m <= n => T[m] \in Token
  BY <1>4, <1>2 DEF T
<1>6. cut \in [1 .. BufferSize -> Token]  BY <1>2, <1>5
<1>7. cut \in Seq(Token) /\ Len(cut) = BufferSize
  <2>1. DOMAIN cut = 1 .. BufferSize  OBVIOUS
  <2> HIDE DEF cut
  <2>2. cut \in Seq(Token)  BY <1>2, <1>6, SeqDef
  <2>3. Len(cut) \in Nat /\ DOMAIN cut = 1 .. Len(cut)  BY <2>2, LenProperties
  <2> QED  BY <1>2, <2>1, <2>2, <2>3
<1> HIDE DEF cut
<1>8. buffer' \in Text /\ Len(buffer') = BufferSize  BY <1>3, <1>7 DEF Text
<1> QED  BY <1>3, <1>8 DEF Read, TypeInv, TypeOK

\* One turn of the loop over the buffer, kind by kind.
ParserAs(key, value, urlFound, keyString, valueString, url) ==
  [i |-> parser.i + 1, key |-> key, value |-> value, urlFound |-> urlFound,
   keyString |-> keyString, valueString |-> valueString, url |-> url]
UrlNow == IF parser.urlFound = 1 THEN Append(parser.url, c) ELSE parser.url

SpaceTurn ==
  /\ c = " " /\ ~parser.value /\ pairs' = pairs
  /\ parser' = ParserAs(parser.key, parser.value, parser.urlFound + 1,
                        parser.keyString, parser.valueString, parser.url)
QuestionTurn ==
  /\ c = "?" /\ pairs' = pairs
  /\ parser' = ParserAs(TRUE, parser.value, parser.urlFound + 1,
                        parser.keyString, parser.valueString, parser.url)
EqualsTurn ==
  /\ c = "=" /\ pairs' = pairs
  /\ parser' = ParserAs(FALSE, TRUE, parser.urlFound,
                        parser.keyString, parser.valueString, UrlNow)
PushTurn ==
  /\ c \in {"&", " "} /\ parser.value /\ pairs' = Append(pairs, TheirPair)
  /\ parser' = ParserAs(TRUE, FALSE, parser.urlFound, << >>, << >>, UrlNow)
CharacterTurn ==
  /\ c \notin {" ", "?", "="} /\ (c = "&" => ~parser.value) /\ pairs' = pairs
  /\ parser' = ParserAs(parser.key, parser.value, parser.urlFound,
                        IF parser.key THEN Append(parser.keyString, c) ELSE parser.keyString,
                        IF parser.value THEN Append(parser.valueString, c) ELSE parser.valueString,
                        UrlNow)

ParserTurn == Space \/ Question \/ Equals \/ PushPair \/ Character

LEMMA Turned ==
  ASSUME parser \in ParserState, ParserTurn
  PROVE  /\ pc = "parse" /\ parser.i <= BufferSize
         /\ request' = request /\ pc' = pc /\ buffer' = buffer /\ x' = x /\ info' = info
         /\ SpaceTurn \/ QuestionTurn \/ EqualsTurn \/ PushTurn \/ CharacterTurn
<1> DEFINE Same == /\ pc = "parse" /\ parser.i <= BufferSize
                   /\ request' = request /\ pc' = pc /\ buffer' = buffer /\ x' = x /\ info' = info
<1>0. DOMAIN parser = {"i", "key", "value", "urlFound", "keyString", "valueString", "url"}
  BY DEF ParserState
<1>1. parser = [i |-> parser.i, key |-> parser.key, value |-> parser.value,
                urlFound |-> parser.urlFound, keyString |-> parser.keyString,
                valueString |-> parser.valueString, url |-> parser.url]
  BY DEF ParserState
<1>2. CASE Space
  <2>1. Same /\ c = " " /\ ~parser.value /\ pairs' = pairs  BY <1>2 DEF Space, Reading, IsSpace, Turn
  <2>2. parser' = [[parser EXCEPT !.urlFound = @ + 1] EXCEPT !.i = @ + 1]
    BY <1>2 DEF Space, Turn
  <2>3. parser' = ParserAs(parser.key, parser.value, parser.urlFound + 1,
                        parser.keyString, parser.valueString, parser.url)
    BY <1>1, <2>2 DEF ParserAs
  <2> QED  BY <2>1, <2>3 DEF SpaceTurn
<1>3. CASE Question
  <2>1. Same /\ c = "?" /\ pairs' = pairs  BY <1>3 DEF Question, Reading, IsQuestion, Turn
  <2>2. parser' = [[parser EXCEPT !.urlFound = @ + 1, !.key = TRUE] EXCEPT !.i = @ + 1]
    BY <1>3 DEF Question, Turn
  <2>3. parser' = ParserAs(TRUE, parser.value, parser.urlFound + 1,
                        parser.keyString, parser.valueString, parser.url)
    BY <1>1, <2>2 DEF ParserAs
  <2> QED  BY <2>1, <2>3 DEF QuestionTurn
<1>4. [parser EXCEPT !.url = IF parser.urlFound = 1 THEN Append(@, c) ELSE @] =
        [i |-> parser.i, key |-> parser.key, value |-> parser.value,
         urlFound |-> parser.urlFound, keyString |-> parser.keyString,
         valueString |-> parser.valueString, url |-> UrlNow]
  BY <1>1 DEF UrlNow
<1>5. CASE Equals
  <2>1. Same /\ c = "=" /\ pairs' = pairs  BY <1>5 DEF Equals, Reading, IsEquals, Turn
  <2>2. parser' = [[TakesUrl EXCEPT !.key = FALSE, !.value = TRUE] EXCEPT !.i = @ + 1]
    BY <1>5 DEF Equals, Turn
  <2>3. parser' = ParserAs(FALSE, TRUE, parser.urlFound,
                        parser.keyString, parser.valueString, UrlNow)
    BY <1>4, <2>2 DEF ParserAs, TakesUrl
  <2> QED  BY <2>1, <2>3 DEF EqualsTurn
<1>6. CASE PushPair
  <2>1. Same /\ c \in {"&", " "} /\ parser.value /\ pairs' = Append(pairs, TheirPair)
    BY <1>6 DEF PushPair, Reading, IsEnd, Turn
  <2>2. parser' = [[TakesUrl EXCEPT !.key = TRUE, !.value = FALSE,
                           !.keyString = << >>, !.valueString = << >>] EXCEPT !.i = @ + 1]
    BY <1>6 DEF PushPair, Turn
  <2>3. parser' = ParserAs(TRUE, FALSE, parser.urlFound, << >>, << >>, UrlNow)
    BY <1>4, <2>2 DEF ParserAs, TakesUrl
  <2> QED  BY <2>1, <2>3 DEF PushTurn
<1>7. CASE Character
  <2>1. /\ Same /\ pairs' = pairs /\ ~IsSpace /\ ~IsQuestion /\ ~IsEquals /\ ~IsEnd
    BY <1>7 DEF Character, Reading, Turn
  <2>2. c \notin {" ", "?", "="} /\ (c = "&" => ~parser.value)
    BY <2>1 DEF IsSpace, IsQuestion, IsEquals, IsEnd
  <2>3. parser' = [[TakesUrl EXCEPT !.keyString = IF parser.key THEN Append(@, c) ELSE @,
                       !.valueString = IF parser.value THEN Append(@, c) ELSE @] EXCEPT !.i = @ + 1]
    BY <1>7 DEF Character, Turn
  <2>4. parser' = ParserAs(parser.key, parser.value, parser.urlFound,
                        IF parser.key THEN Append(parser.keyString, c) ELSE parser.keyString,
                        IF parser.value THEN Append(parser.valueString, c) ELSE parser.valueString,
                        UrlNow)
    BY <1>4, <2>3 DEF ParserAs, TakesUrl
  <2> QED  BY <2>1, <2>2, <2>4 DEF CharacterTurn
<1> QED  BY <1>2, <1>3, <1>5, <1>6, <1>7 DEF ParserTurn

LEMMA TurnType ==
  ASSUME TypeInv, ParserTurn
  PROVE  TypeInv'
<1>1. /\ parser \in ParserState /\ pairs \in Seq(Pair) /\ x \in 1 .. Len(pairs) + 1
      /\ buffer \in Text /\ request \in Request /\ info \in AnnounceInfo
  BY DEF TypeInv, TypeOK
<1>2. /\ pc = "parse" /\ parser.i <= BufferSize
      /\ request' = request /\ pc' = pc /\ buffer' = buffer /\ x' = x /\ info' = info
      /\ SpaceTurn \/ QuestionTurn \/ EqualsTurn \/ PushTurn \/ CharacterTurn
  BY <1>1, Turned
<1>3. c \in Token
  <2>1. Len(buffer) = BufferSize /\ buffer \in Seq(Token)  BY <1>1, <1>2 DEF TypeInv, Text
  <2>2. parser.i \in 1 .. Len(buffer)  BY <1>1, <1>2, <2>1 DEF ParserState
  <2> QED  BY <2>1, <2>2, ElementOfSeq DEF c
<1>4. /\ parser.i + 1 \in 1 .. BufferSize + 1 /\ parser.urlFound \in Nat
      /\ parser.urlFound + 1 \in Nat /\ parser.key \in BOOLEAN /\ parser.value \in BOOLEAN
      /\ parser.keyString \in Text /\ parser.valueString \in Text /\ parser.url \in Text
  BY <1>1, <1>2, NumberAssumption DEF ParserState
<1>5. \A s \in Text : Append(s, c) \in Text  BY <1>3 DEF Text
<1>6. UrlNow \in Text  BY <1>4, <1>5 DEF UrlNow
<1>7. << >> \in Text  BY EmptySeq DEF Text
<1>8. \A key \in BOOLEAN, value \in BOOLEAN, urlFound \in Nat, ks \in Text, vs \in Text, url \in Text :
        ParserAs(key, value, urlFound, ks, vs, url) \in ParserState
  BY <1>4 DEF ParserAs, ParserState
<1>9. TheirPair \in Pair  BY <1>4 DEF TheirPair, Pair
<1>10. Append(pairs, TheirPair) \in Seq(Pair) /\ Len(Append(pairs, TheirPair)) = Len(pairs) + 1
       /\ Len(pairs) \in Nat
  <2> HIDE DEF TheirPair
  <2> QED  BY <1>1, <1>9, AppendProperties
<1>11. parser' \in ParserState /\ pairs' \in Seq(Pair) /\ x \in 1 .. Len(pairs') + 1
  <2>1. CASE SpaceTurn  BY <1>1, <1>4, <1>8, <2>1 DEF SpaceTurn
  <2>2. CASE QuestionTurn  BY <1>1, <1>4, <1>8, <2>2 DEF QuestionTurn
  <2>3. CASE EqualsTurn  BY <1>1, <1>4, <1>6, <1>8, <2>3 DEF EqualsTurn
  <2>4. CASE PushTurn
    <3>1. parser' \in ParserState  BY <1>4, <1>6, <1>7, <1>8, <2>4 DEF PushTurn
    <3>2. pairs' = Append(pairs, TheirPair)  BY <2>4 DEF PushTurn
    <3>3. Len(pairs') = Len(pairs) + 1 /\ Len(pairs) \in Nat /\ x \in 1 .. Len(pairs) + 1
      BY <1>1, <1>10, <3>2
    <3>4. x \in 1 .. Len(pairs') + 1  BY <3>3
    <3> QED  BY <1>10, <3>1, <3>2, <3>4
  <2>5. CASE CharacterTurn
    <3> DEFINE ks == IF parser.key THEN Append(parser.keyString, c) ELSE parser.keyString
               vs == IF parser.value THEN Append(parser.valueString, c) ELSE parser.valueString
    <3>1. ks \in Text /\ vs \in Text  BY <1>4, <1>5
    <3>2. parser' = ParserAs(parser.key, parser.value, parser.urlFound, ks, vs, UrlNow)
          /\ pairs' = pairs
      BY <2>5 DEF CharacterTurn
    <3> HIDE DEF ks, vs
    <3> QED  BY <1>1, <1>4, <1>6, <1>8, <3>1, <3>2
  <2> QED  BY <1>2, <2>1, <2>2, <2>3, <2>4, <2>5
<1> QED  BY <1>1, <1>2, <1>11 DEF TypeInv, TypeOK

LEMMA OwnPairsType ==
  ASSUME TypeInv
  PROVE  OwnPairs \in Seq(Pair) /\ Len(OwnPairs) = 3
<1>1. parser.url \in Text  BY DEF TypeInv, TypeOK, ParserState
<1>2. getKeyFromURL(parser.url) \in Text /\ Address \in Text  BY <1>1, KeyText, TextAssumption
<1>3. <<"url">> \in Text /\ <<"urlKey">> \in Text /\ <<"ip">> \in Text
  <2>1. "url" \in Token /\ "urlKey" \in Token /\ "ip" \in Token  BY TextAssumption
  <2> QED  BY <2>1 DEF Text
<1> DEFINE d == [name |-> <<"url">>, value |-> parser.url]
           e == [name |-> <<"urlKey">>, value |-> getKeyFromURL(parser.url)]
           f == [name |-> <<"ip">>, value |-> Address]
<1>4. d \in Pair /\ e \in Pair /\ f \in Pair  BY <1>1, <1>2, <1>3 DEF Pair
<1>5. OwnPairs = <<d, e, f>>  BY DEF OwnPairs
<1> HIDE DEF d, e, f
<1> QED  BY <1>4, <1>5, Tuples

LEMMA EndParseType ==
  ASSUME TypeInv, EndParse
  PROVE  TypeInv'
<1>1. pairs \in Seq(Pair) /\ x \in 1 .. Len(pairs) + 1  BY DEF TypeInv, TypeOK
<1>2. /\ pairs' = pairs \o OwnPairs /\ pc = "parse" /\ pc' = "insert"
      /\ UNCHANGED <<request, buffer, parser, x, info>>
  BY DEF EndParse
<1>3. pairs \o OwnPairs \in Seq(Pair) /\ Len(pairs \o OwnPairs) = Len(pairs) + Len(OwnPairs)
  BY <1>1, OwnPairsType, ConcatProperties
<1>4. x \in 1 .. Len(pairs') + 1
  <2>1. Len(OwnPairs) = 3  BY OwnPairsType
  <2>2. Len(pairs') = Len(pairs) + 3 /\ Len(pairs) \in Nat  BY <1>1, <1>2, <1>3, <2>1
  <2> QED  BY <1>1, <2>2
<1> QED  BY <1>2, <1>3, <1>4 DEF TypeInv, TypeOK

LEMMA InsertPairType ==
  ASSUME TypeInv, InsertPair
  PROVE  TypeInv'
<1> DEFINE name == pairs[x].name
           value == pairs[x].value
<1>1. /\ pc = "insert" /\ x <= Len(pairs) /\ x' = x + 1 /\ Len(pairs) \in Nat
      /\ request' = request /\ buffer' = buffer /\ parser' = parser /\ pairs' = pairs
      /\ info \in AnnounceInfo /\ pairs \in Seq(Pair) /\ x \in 1 .. Len(pairs) + 1
  BY DEF InsertPair, TypeInv, TypeOK
<1>2. value \in Text
  <2>1. pairs[x] \in Pair  BY <1>1, ElementOfSeq
  <2> QED  BY <2>1 DEF Pair
<1>3. x' \in 1 .. Len(pairs') + 1  BY <1>1
<1>4. info' \in AnnounceInfo /\ pc' \in {"insert", "threw"}
  <2>1. CASE name = <<"ip">>
    <3>1. info' = [info EXCEPT !.ipa = value] /\ pc' = pc  BY <2>1 DEF InsertPair, Take, NumberField
    <3> QED  BY <1>1, <1>2, <3>1 DEF AnnounceInfo
  <2>2. CASE name = <<"port">>
    <3>1. \/ \E n \in stoi(value) : info' = [info EXCEPT !["port"] = n] /\ pc' = pc
          \/ pc' = "threw" /\ info' = info
      BY <2>2 DEF InsertPair, Take, NumberField
    <3>2. \A n \in stoi(value) : n \in -IntMax - 1 .. IntMax  BY DEF stoi
    <3> QED  BY <1>1, <3>1, <3>2 DEF AnnounceInfo
  <2>3. CASE name = <<"event">>
    <3>1. info' = [info EXCEPT !.event = parseEventString(value)] /\ pc' = pc
      BY <2>3 DEF InsertPair, Take, NumberField
    <3>2. parseEventString(value) \in 0 .. 3  BY DEF parseEventString
    <3> QED  BY <1>1, <3>1, <3>2 DEF AnnounceInfo
  <2>4. CASE name = <<"info_hash">>
    <3>1. \E beyond \in Token : info' = [info EXCEPT !.infoHash = decode(value, beyond)] /\ pc' = pc
      BY <2>4 DEF InsertPair, Take, NumberField
    <3>2. \A beyond \in Token : decode(value, beyond) \in Text  BY <1>2, DecodeText
    <3> QED  BY <1>1, <3>1, <3>2 DEF AnnounceInfo
  <2>5. CASE name = <<"peer_id">>
    <3>1. info' = [info EXCEPT !.peerId = value] /\ pc' = pc  BY <2>5 DEF InsertPair, Take, NumberField
    <3> QED  BY <1>1, <1>2, <3>1 DEF AnnounceInfo
  <2>6. CASE \E f \in NumberField : name = <<f>>
    <3>1. PICK f \in NumberField : name = <<f>>  BY <2>6
    <3>2. name[1] = f /\ f \in {"downloaded", "left", "uploaded"}  BY <3>1 DEF NumberField
    <3>3. \/ \E n \in {uint64(m) : m \in stoll(value)} : info' = [info EXCEPT ![f] = n] /\ pc' = pc
          \/ pc' = "threw" /\ info' = info
      BY <3>1, <3>2 DEF InsertPair, Take, NumberField
    <3>4. \A n \in {uint64(m) : m \in stoll(value)} : n \in Word
      <4>1. \A m \in stoll(value) : m \in Int  BY DEF stoll
      <4>2. \A m \in Int : m % W \in Word  BY NumberAssumption DEF Word
      <4> QED  BY <4>1, <4>2 DEF uint64
    <3>5. CASE f = "downloaded"  BY <1>1, <3>3, <3>4, <3>5 DEF AnnounceInfo
    <3>6. CASE f = "left"  BY <1>1, <3>3, <3>4, <3>6 DEF AnnounceInfo
    <3>7. CASE f = "uploaded"  BY <1>1, <3>3, <3>4, <3>7 DEF AnnounceInfo
    <3> QED  BY <3>2, <3>5, <3>6, <3>7
  <2>7. CASE name = <<"urlKey">>
    <3>1. info' = [info EXCEPT !.torrentPass = value] /\ pc' = pc
      BY <2>7 DEF InsertPair, Take, NumberField
    <3> QED  BY <1>1, <1>2, <3>1 DEF AnnounceInfo
  <2>8. CASE /\ name \notin {<<"ip">>, <<"port">>, <<"event">>, <<"info_hash">>, <<"peer_id">>, <<"urlKey">>}
             /\ ~ \E f \in NumberField : name = <<f>>
    <3>1. info' = info /\ pc' = pc  BY <2>8 DEF InsertPair, Take, NumberField
    <3> QED  BY <1>1, <3>1
  <2> QED  BY <1>1, <2>1, <2>2, <2>3, <2>4, <2>5, <2>6, <2>7, <2>8
<1> QED  BY <1>1, <1>3, <1>4 DEF TypeInv, TypeOK

LEMMA TypeStep ==
  ASSUME TypeInv, [Next]_vars
  PROVE  TypeInv'
<1>1. ASSUME NEW n \in 0 .. Len(RequestText(request)), Read(n) PROVE TypeInv'
  BY <1>1, ReadType
<1>2. CASE NewAnnounceInfo
  BY <1>2 DEF NewAnnounceInfo, TypeInv, TypeOK
<1>3. CASE Parsed \/ UNCHANGED vars
  BY <1>3 DEF Parsed, vars, TypeInv, TypeOK
<1> QED
  BY <1>1, <1>2, <1>3, TurnType, EndParseType, InsertPairType DEF Next, ParserTurn

\* Whatever a client sends, every variable keeps its type: decode and getKeyFromURL end,
\* and what they return, like every string of the parser, is a text.
THEOREM TypeCorrect == Spec => []TypeOK
<1>1. TypeInv /\ [Next]_vars => TypeInv'
  BY TypeStep
<1>2. TypeInv => TypeOK
  BY DEF TypeInv
<1> QED
  BY <1>1, <1>2, TypeInit, PTL DEF Spec

----------------------------------------------------------------------------
\* The pairs of the URL and the socket come last and are read last.
Fields == {"ipa", "infoHash", "peerId", "torrentPass", "event", "port",
           "downloaded", "left", "uploaded"}

\* A sequence of whatever the client made of it.
IsSequence(s) == \E S : s \in Seq(S)

\* The last of the three pairs that parseAndInsertMessage added are urlKey and ip,
\* and what insertClientInfo has read of them is in place: nothing comes after them.
OwnInv ==
  /\ IsSequence(pairs) /\ x \in Nat \ {0}
  /\ DOMAIN info = Fields
  /\ pc \in {"read", "parse"} => x = 1
  /\ pc \in {"insert", "done"} =>
       /\ Len(pairs) >= 3
       /\ pairs[Len(pairs) - 1] = [name |-> <<"urlKey">>, value |-> getKeyFromURL(parser.url)]
       /\ pairs[Len(pairs)] = [name |-> <<"ip">>, value |-> Address]
       /\ x > Len(pairs) - 1 => info.torrentPass = getKeyFromURL(parser.url)
       /\ x > Len(pairs) => info.ipa = Address
  /\ pc = "done" => x > Len(pairs)

LEMMA AppendSequence ==
  ASSUME NEW s, NEW e, IsSequence(s)
  PROVE IsSequence(Append(s, e))
<1>1. PICK S : s \in Seq(S)
  BY DEF IsSequence
<1>2. s \in Seq(S \cup {e}) /\ e \in S \cup {e}
  BY <1>1
<1>3. Append(s, e) \in Seq(S \cup {e})
  BY <1>2
<1> QED
  BY <1>3 DEF IsSequence

\* Three elements at the end of a sequence.
LEMMA ThreeMore ==
  ASSUME NEW s, NEW a, NEW b, NEW d, IsSequence(s)
  PROVE /\ IsSequence(s \o <<a, b, d>>)
        /\ Len(s \o <<a, b, d>>) = Len(s) + 3 /\ Len(s) \in Nat
        /\ (s \o <<a, b, d>>)[Len(s) + 2] = b /\ (s \o <<a, b, d>>)[Len(s) + 3] = d
<1>1. PICK S : s \in Seq(S)
  BY DEF IsSequence
<1> DEFINE T == S \cup {a, b, d}
           u == <<a, b, d>>
<1>2. s \in Seq(T) /\ u \in Seq(T) /\ Len(u) = 3 /\ u[2] = b /\ u[3] = d /\ Len(s) \in Nat
  BY <1>1
<1> HIDE DEF T, u
<1>3. /\ s \o u \in Seq(T) /\ Len(s \o u) = Len(s) + Len(u)
      /\ \A n \in 1 .. Len(s) + Len(u) :
           (s \o u)[n] = IF n <= Len(s) THEN s[n] ELSE u[n - Len(s)]
  BY <1>2, ConcatProperties
<1>4. (s \o u)[Len(s) + 2] = u[2] /\ (s \o u)[Len(s) + 3] = u[3]
  BY <1>2, <1>3
<1>5. IsSequence(s \o u) /\ Len(s \o u) = Len(s) + 3
  BY <1>2, <1>3 DEF IsSequence
<1> QED
  BY <1>2, <1>4, <1>5, Zenon DEF u

LEMMA OwnInit ==
  ASSUME Init
  PROVE OwnInv
<1>1. pairs \in Seq({})
  BY DEF Init
<1>2. DOMAIN info = Fields /\ x = 1 /\ pc = "read"
  BY DEF Init, Fields
<1> QED
  BY <1>1, <1>2 DEF OwnInv, IsSequence

\* One turn of insertClientInfo's loop.
LEMMA InsertPairOwn ==
  ASSUME OwnInv, InsertPair
  PROVE OwnInv'
<1>1. /\ pc = "insert" /\ x <= Len(pairs) /\ x' = x + 1
      /\ pairs' = pairs /\ parser' = parser
  BY DEF InsertPair
<1>2. Len(pairs) \in Nat
  BY DEF OwnInv, IsSequence
<1>3. DOMAIN info' = Fields /\ pc' \in {"insert", "threw"}
  BY <1>1 DEF InsertPair, OwnInv, Take
<1>4. CASE x = Len(pairs)
  <2>1. pairs[x].name = <<"ip">> /\ pairs[x].value = Address
    BY <1>1, <1>4 DEF OwnInv
  <2>2. info' = [info EXCEPT !.ipa = Address] /\ pc' = pc
    BY <2>1 DEF InsertPair, Take, NumberField
  <2>3. info'.ipa = Address /\ info'.torrentPass = info.torrentPass
    BY <2>2 DEF OwnInv, Fields
  <2> QED
    BY <1>1, <1>2, <1>3, <1>4, <2>2, <2>3 DEF OwnInv
<1>5. CASE x = Len(pairs) - 1
  <2>1. pairs[x].name = <<"urlKey">> /\ pairs[x].value = getKeyFromURL(parser.url)
    BY <1>1, <1>5 DEF OwnInv
  <2>2. info' = [info EXCEPT !.torrentPass = getKeyFromURL(parser.url)] /\ pc' = pc
    BY <2>1 DEF InsertPair, Take, NumberField
  <2>3. info'.torrentPass = getKeyFromURL(parser.url)
    BY <2>2 DEF OwnInv, Fields
  <2> QED
    BY <1>1, <1>2, <1>3, <1>5, <2>2, <2>3 DEF OwnInv
<1>6. CASE x < Len(pairs) - 1
  BY <1>1, <1>2, <1>3, <1>6 DEF OwnInv
<1> QED
  BY <1>1, <1>2, <1>4, <1>5, <1>6 DEF OwnInv

LEMMA OwnStep ==
  ASSUME OwnInv, [Next]_vars
  PROVE OwnInv'
<1>1. ASSUME NEW n \in 0 .. Len(RequestText(request)), Read(n) PROVE OwnInv'
  BY <1>1 DEF Read, OwnInv
<1>2. CASE Space \/ Question \/ Equals \/ Character
  <2>1. pc = "parse" /\ pc' = pc /\ pairs' = pairs /\ x' = x /\ info' = info
    BY <1>2 DEF Space, Question, Equals, Character, Turn, Reading
  <2> QED
    BY <2>1 DEF OwnInv
<1>3. CASE PushPair
  <2>1. pc = "parse" /\ pc' = pc /\ pairs' = Append(pairs, TheirPair) /\ x' = x /\ info' = info
    BY <1>3 DEF PushPair, Turn, Reading
  <2>2. IsSequence(pairs')
    BY <2>1, AppendSequence DEF OwnInv
  <2> QED
    BY <2>1, <2>2 DEF OwnInv
<1>4. CASE EndParse
  <2>1. /\ pc = "parse" /\ pc' = "insert" /\ pairs' = pairs \o OwnPairs
        /\ x' = x /\ info' = info /\ parser' = parser /\ x = 1
    BY <1>4 DEF EndParse, OwnInv
  <2> DEFINE key == [name |-> <<"urlKey">>, value |-> getKeyFromURL(parser.url)]
             ip  == [name |-> <<"ip">>, value |-> Address]
             url == [name |-> <<"url">>, value |-> parser.url]
  <2>2. /\ IsSequence(pairs') /\ Len(pairs') = Len(pairs) + 3 /\ Len(pairs) \in Nat
        /\ pairs'[Len(pairs') - 1] = key /\ pairs'[Len(pairs')] = ip
    <3> HIDE DEF key, ip, url
    <3>1. pairs' = pairs \o <<url, key, ip>>
      BY <2>1 DEF OwnPairs, url, key, ip
    <3>2. IsSequence(pairs)
      BY DEF OwnInv
    <3>3. /\ IsSequence(pairs \o <<url, key, ip>>)
          /\ Len(pairs \o <<url, key, ip>>) = Len(pairs) + 3 /\ Len(pairs) \in Nat
          /\ (pairs \o <<url, key, ip>>)[Len(pairs) + 2] = key
          /\ (pairs \o <<url, key, ip>>)[Len(pairs) + 3] = ip
      BY <3>2, ThreeMore
    <3>4. Len(pairs') - 1 = Len(pairs) + 2
      BY <3>1, <3>3
    <3> QED
      BY <3>1, <3>3, <3>4, Zenon
  <2> QED
    BY <2>1, <2>2 DEF OwnInv
<1>5. CASE InsertPair
  BY <1>5, InsertPairOwn
<1>6. CASE NewAnnounceInfo
  BY <1>6 DEF NewAnnounceInfo, OwnInv
<1>7. CASE Parsed \/ UNCHANGED vars
  BY <1>7 DEF Parsed, vars, OwnInv
<1> QED
  BY <1>1, <1>2, <1>3, <1>4, <1>5, <1>6, <1>7 DEF Next

\* No parameter of a client replaces the address or the pass.
THEOREM AddressCorrect == Spec => []AddressFromSocket
<1>1. OwnInv /\ [Next]_vars => OwnInv'
  BY OwnStep
<1>2. OwnInv => AddressFromSocket
  BY DEF OwnInv, AddressFromSocket, IsSequence
<1> QED
  BY <1>1, <1>2, OwnInit, PTL DEF Spec

----------------------------------------------------------------------------
\* Where the parser is in a well-formed request, after the first Taken of its tokens.
Taken == parser.i - 1

Early ==
  /\ Taken <= Len(Path(request)) /\ pairs = << >> /\ ~parser.value
  /\ parser.keyString = << >> /\ parser.valueString = << >>
  /\ IF Taken = Len(Path(request))
     THEN request.params = << >> /\ parser.key /\ parser.urlFound = 2 /\ parser.url = Url(request)
     ELSE /\ ~parser.key
          /\ parser.urlFound = IF Taken < 2 THEN 0 ELSE 1
          /\ parser.url = SubSeq(Path(request), 3, Taken)

UrlRead == parser.urlFound >= 2 /\ parser.url = Url(request)

InName(k) ==
  /\ Start(request, k) <= Taken /\ Taken <= Middle(request, k)
  /\ pairs = SubSeq(request.params, 1, k - 1)
  /\ parser.key /\ ~parser.value /\ parser.valueString = << >>
  /\ parser.keyString = SubSeq(request.params[k].name, 1, Taken - Start(request, k))

InValue(k) ==
  /\ Middle(request, k) < Taken /\ Taken <= End(request, k)
  /\ pairs = SubSeq(request.params, 1, k - 1)
  /\ ~parser.key /\ parser.value /\ parser.keyString = request.params[k].name
  /\ parser.valueString = SubSeq(request.params[k].value, 1, Taken - Middle(request, k) - 1)

\* All parameters have come, and behind them at most what the headers make of their
\* one "=", a pair whose name begins with the version.
OfVersion(name) == name # << >> /\ name[1] = "HTTP"
Arrived(ps) ==
  /\ IsPrefix(request.params, ps)
  /\ \A n \in Len(request.params) + 1 .. Len(ps) : OfVersion(ps[n].name)

\* seen is how much of the headers has come: the "=" is yet to come or has just been
\* taken, or its pair is complete.
SeenEquals(h, seen) == \E e \in 1 .. seen : h[e] = "="
BeforePair(h, p, seen) ==
  /\ IF seen = 0 THEN p.key /\ ~p.value /\ p.keyString = << >> ELSE OfVersion(p.keyString)
  /\ p.value <=> SeenEquals(h, seen)
  /\ ~p.value => p.key
AfterPair(h, p, seen) == ~p.value /\ SeenEquals(h, seen)
InHeaders ==
  /\ Taken >= HeadersAt(request) /\ Arrived(pairs)
  /\ \/ BeforePair(request.headers, parser, Taken - HeadersAt(request))
     \/ AfterPair(request.headers, parser, Taken - HeadersAt(request))

Phase ==
  \/ Early
  \/ UrlRead /\ \E k \in 1 .. Len(request.params) : InName(k) \/ InValue(k)
  \/ UrlRead /\ InHeaders

LEMMA Kinds ==
  ASSUME TypeInv, ParserTurn
  PROVE  /\ pc = "parse" /\ parser.i <= BufferSize /\ parser \in ParserState
         /\ request' = request /\ pc' = pc /\ buffer' = buffer /\ x' = x /\ info' = info
         /\ Taken \in Nat /\ Taken' = Taken + 1
         /\ c = " " /\ ~parser.value => SpaceTurn
         /\ c = "?" => QuestionTurn
         /\ c = "=" => EqualsTurn
         /\ c \in {"&", " "} /\ parser.value => PushTurn
         /\ c \notin {" ", "?", "=", "&"} => CharacterTurn
<1>1. parser \in ParserState  BY DEF TypeInv, TypeOK
<1>2. /\ pc = "parse" /\ parser.i <= BufferSize
      /\ request' = request /\ pc' = pc /\ buffer' = buffer /\ x' = x /\ info' = info
      /\ SpaceTurn \/ QuestionTurn \/ EqualsTurn \/ PushTurn \/ CharacterTurn
  BY <1>1, Turned
<1>3. Taken \in Nat  BY <1>1, NumberAssumption DEF ParserState, Taken
<1>4. parser'.i = parser.i + 1
  <2>1. CASE SpaceTurn  BY <2>1 DEF SpaceTurn, ParserAs
  <2>2. CASE QuestionTurn  BY <2>2 DEF QuestionTurn, ParserAs
  <2>3. CASE EqualsTurn  BY <2>3 DEF EqualsTurn, ParserAs
  <2>4. CASE PushTurn  BY <2>4 DEF PushTurn, ParserAs
  <2>5. CASE CharacterTurn  BY <2>5 DEF CharacterTurn, ParserAs
  <2> QED  BY <1>2, <2>1, <2>2, <2>3, <2>4, <2>5
<1>5. Taken' = Taken + 1  BY <1>1, <1>4, NumberAssumption DEF Taken, ParserState
<1>6. c = " " /\ ~parser.value => SpaceTurn
  BY <1>2 DEF QuestionTurn, EqualsTurn, PushTurn, CharacterTurn
<1>7. c = "?" => QuestionTurn
  BY <1>2 DEF SpaceTurn, EqualsTurn, PushTurn, CharacterTurn
<1>8. c = "=" => EqualsTurn
  BY <1>2 DEF SpaceTurn, QuestionTurn, PushTurn, CharacterTurn
<1>9. c \in {"&", " "} /\ parser.value => PushTurn
  BY <1>2 DEF SpaceTurn, QuestionTurn, EqualsTurn, CharacterTurn
<1>10. c \notin {" ", "?", "=", "&"} => CharacterTurn
  BY <1>2 DEF SpaceTurn, QuestionTurn, EqualsTurn, PushTurn
<1> QED  BY <1>1, <1>2, <1>3, <1>5, <1>6, <1>7, <1>8, <1>9, <1>10

LEMMA PathPlain ==
  ASSUME NEW r \in RequestType, ToSet(r.pass) \cap Separator = {},
         NEW i \in 3 .. Len(Path(r)) - 1
  PROVE  Path(r)[i] \notin {" ", "?", "=", "&"}
<1> DEFINE p == r.pass
           path == Path(r)
<1>1. /\ Len(path) = Len(p) + 6 /\ Len(p) \in Nat
      /\ path[3] = "/" /\ \A n \in 1 .. Len(p) : path[3 + n] = p[n]
      /\ path[Len(p) + 4] = "/" /\ path[Len(p) + 5] = "announce"
  BY PathText
<1>2. p \in Seq(Token)  BY DEF RequestType, Text
<1>3. \A n \in 1 .. Len(p) : p[n] \notin {" ", "?", "=", "&"}
  <2>1. \A n \in DOMAIN p : p[n] \notin Separator  BY DEF ToSet
  <2>2. DOMAIN p = 1 .. Len(p)  BY <1>2, LenProperties
  <2> QED  BY <2>1, <2>2 DEF Separator
<1> HIDE DEF p, path
<1>4. CASE i = 3  BY <1>1, <1>4 DEF path
<1>5. CASE i \in 4 .. Len(p) + 3
  <2> DEFINE n == i - 3
  <2>1. n \in 1 .. Len(p) /\ 3 + n = i  BY <1>1, <1>5
  <2> HIDE DEF n
  <2>2. path[i] = p[n]  BY <1>1, <2>1
  <2> QED  BY <1>3, <2>1, <2>2 DEF path
<1>6. CASE i = Len(p) + 4  BY <1>1, <1>6 DEF path
<1>7. CASE i = Len(p) + 5  BY <1>1, <1>7 DEF path
<1>8. i = 3 \/ i \in 4 .. Len(p) + 3 \/ i = Len(p) + 4 \/ i = Len(p) + 5
  BY <1>1 DEF path
<1> QED  BY <1>4, <1>5, <1>6, <1>7, <1>8

LEMMA WellFormedText ==
  ASSUME TypeInv, WellFormed
  PROVE  /\ request \in RequestType /\ Values(request)
         /\ ToSet(request.pass) \cap Separator = {}
         /\ request.params \in Seq(Parameter) /\ request.headers \in Text
         /\ Len(request.params) \in Nat
         /\ \A k \in 1 .. Len(request.params) :
              LET p == request.params[k]
              IN  /\ p \in Pair /\ p.name \in Seq(Token) /\ p.value \in Seq(Token)
                  /\ \A i \in 1 .. Len(p.name) : p.name[i] \notin {" ", "?", "=", "&"}
                  /\ \A i \in 1 .. Len(p.value) : p.value[i] \notin {" ", "?", "=", "&"}
         /\ Len(request.headers) \in Nat
         /\ Len(request.headers) >= 1 => request.headers[1] = "HTTP"
<1>1. request \in RequestType  BY RequestTyped DEF TypeInv, TypeOK
<1>2. /\ request.params \in Seq(Parameter) /\ request.headers \in Text
      /\ request.headers \in Seq(Token) /\ Len(request.headers) \in Nat
  BY <1>1 DEF RequestType, Text
<1>3. Values(request) /\ ToSet(request.pass) \cap Separator = {}
  BY DEF WellFormed, Values
<1>4. /\ Len(request.params) \in Nat /\ DOMAIN request.params = 1 .. Len(request.params)
      /\ \A k \in 1 .. Len(request.params) : request.params[k] \in Parameter
  BY <1>1, PiecesText
<1>5. ASSUME NEW k \in 1 .. Len(request.params)
      PROVE  LET p == request.params[k]
             IN  /\ p \in Pair /\ p.name \in Seq(Token) /\ p.value \in Seq(Token)
                 /\ \A i \in 1 .. Len(p.name) : p.name[i] \notin {" ", "?", "=", "&"}
                 /\ \A i \in 1 .. Len(p.value) : p.value[i] \notin {" ", "?", "=", "&"}
  <2> DEFINE p == request.params[k]
             n == p.name
             v == p.value
             nv == n \o v
  <2>1. p \in Pair  BY <1>3, <1>4, AssignmentText DEF Values
  <2>2. n \in Seq(Token) /\ v \in Seq(Token)  BY <2>1 DEF Pair, Text
  <2>3. {"?", "&", " ", "="} \cap ToSet(nv) = {}  BY <1>4 DEF WellFormed
  <2> HIDE DEF n, v
  <2>4. /\ nv \in Seq(Token) /\ Len(nv) = Len(n) + Len(v) /\ Len(n) \in Nat /\ Len(v) \in Nat
        /\ At(nv, 0, n) /\ At(nv, Len(n), v)
    BY <2>2, CatAt
  <2> HIDE DEF nv
  <2>5. \A i \in 1 .. Len(nv) : nv[i] \notin {" ", "?", "=", "&"}
    <3>1. nv \in Seq(Token)  BY <2>4
    <3>2. DOMAIN nv = 1 .. Len(nv)  BY <3>1, LenProperties
    <3> QED  BY <2>3, <3>2 DEF ToSet
  <2>6. ASSUME NEW i \in 1 .. Len(n) PROVE n[i] \notin {" ", "?", "=", "&"}
    <3>1. At(nv, 0, n)  BY <2>4
    <3>2. nv[i] = n[i]  BY <3>1, AtFirst
    <3>3. i \in 1 .. Len(nv)  BY <2>4
    <3> QED  BY <2>5, <3>2, <3>3
  <2>7. ASSUME NEW i \in 1 .. Len(v) PROVE v[i] \notin {" ", "?", "=", "&"}
    <3>1. At(nv, Len(n), v)  BY <2>4
    <3>2. nv[Len(n) + i] = v[i]  BY <3>1 DEF At
    <3>3. Len(n) + i \in 1 .. Len(nv)  BY <2>4
    <3> QED  BY <2>5, <3>2, <3>3
  <2> QED  BY <2>1, <2>2, <2>6, <2>7 DEF n, v
<1>6. Len(request.headers) >= 1 => request.headers[1] = "HTTP"
  <2>1. Len(request.headers) >= 1 => request.headers # << >>  BY EmptySeq
  <2> QED  BY <2>1 DEF WellFormed
<1> QED  BY <1>1, <1>2, <1>3, <1>4, <1>5, <1>6

LEMMA EarlyTurn ==
  ASSUME TypeInv, WellFormed, ParserTurn, Early,
         c = RequestText(request)[Taken + 1]
  PROVE  Phase'
<1> DEFINE r == request
           T == RequestText(r)
           path == Path(r)
           L == Len(path)
           K == Len(r.params)
<1>1. /\ r \in RequestType /\ Values(r) /\ ToSet(r.pass) \cap Separator = {}
      /\ r.params \in Seq(Parameter)
  BY WellFormedText
<1>2. /\ request' = request /\ Taken \in Nat /\ Taken' = Taken + 1
  BY Kinds
<1>3. /\ K \in Nat /\ L \in Nat /\ L < HeadersAt(r) /\ HeadersAt(r) \in Nat
      /\ K = 0 => HeadersAt(r) = L + 1
      /\ K # 0 => Start(r, 1) = L
  BY <1>1, Between
<1>4. path \in Seq(Token) /\ L >= 6 /\ path[1] = "GET" /\ path[2] = " " /\ path[L] = "?"
  <2>1. /\ path \in Text /\ L = Len(r.pass) + 6 /\ Len(r.pass) \in Nat
        /\ path[1] = "GET" /\ path[2] = " " /\ path[Len(r.pass) + 6] = "?"
    BY <1>1, PathText
  <2>2. L = Len(r.pass) + 6 /\ Len(r.pass) \in Nat  BY <2>1
  <2> HIDE DEF path
  <2>3. L >= 6  BY <2>2
  <2>4. path[L] = "?"  BY <2>1
  <2> QED  BY <2>1, <2>3, <2>4 DEF Text
<1>40. path \in Seq(Token) /\ L >= 6  BY <1>4
<1>5. (\A i \in 1 .. L : T[i] = path[i]) /\ T[HeadersAt(r)] = " "
  <2>1. At(T, 0, path) /\ T[HeadersAt(r)] = " "  BY <1>1, RequestTextParts
  <2> HIDE DEF T, path
  <2> QED  BY <2>1, AtFirst
<1>6. Url(r) = SubSeq(path, 3, L - 1)  BY <1>1, UrlText
<1>7. /\ Taken <= L /\ pairs = << >> /\ ~parser.value
      /\ parser.keyString = << >> /\ parser.valueString = << >>
  BY DEF Early
<1>8. /\ Taken = L => /\ r.params = << >> /\ parser.key /\ parser.urlFound = 2
                      /\ parser.url = Url(r)
      /\ Taken # L => /\ ~parser.key
                      /\ parser.urlFound = IF Taken < 2 THEN 0 ELSE 1
                      /\ parser.url = SubSeq(path, 3, Taken)
  BY DEF Early
<1> HIDE DEF T, path, L, K
<1>9. CASE Taken = L
  <2>1. K = 0 /\ r.params = << >>  BY <1>8, <1>9, EmptySeq DEF K
  <2>2. c = " " /\ ~parser.value  BY <1>3, <1>5, <1>7, <1>9, <2>1 DEF T
  <2>3. SpaceTurn  BY <2>2, Kinds
  <2>4. /\ parser'.key /\ ~parser'.value /\ parser'.urlFound = 3 /\ parser'.url = Url(r)
        /\ parser'.keyString = << >> /\ pairs' = << >>
    <3>1. /\ parser'.key = parser.key /\ parser'.value = parser.value
          /\ parser'.urlFound = parser.urlFound + 1 /\ parser'.url = parser.url
          /\ parser'.keyString = parser.keyString /\ pairs' = pairs
      BY <2>3 DEF SpaceTurn, ParserAs
    <3> QED  BY <1>7, <1>8, <1>9, <3>1
  <2>5. Taken' = HeadersAt(r)  BY <1>2, <1>3, <1>9, <2>1
  <2>6. Arrived(<< >>)
    <3>1. IsPrefix(<< >>, << >>)  BY EmptySeq DEF IsPrefix
    <3>2. \A n \in 0 + 1 .. 0 : FALSE  OBVIOUS
    <3>3. Len(request.params) = 0 /\ Len(<< >>) = 0  BY <2>1, EmptySeq
    <3> QED  BY <2>1, <3>1, <3>2, <3>3 DEF Arrived
  <2>7. ~ SeenEquals(r.headers, 0)  BY DEF SeenEquals
  <2>9. UrlRead'  BY <1>2, <2>4 DEF UrlRead
  <2>10. Arrived(pairs)'
    <3>1. Arrived(<< >>)'  BY <1>2, <2>6 DEF Arrived
    <3> QED  BY <2>4, <3>1 DEF Arrived
  <2>11. Taken' >= HeadersAt(request') /\ Taken' - HeadersAt(request') = 0
    BY <1>2, <1>3, <2>5
  <2>12. BeforePair(r.headers, parser', 0)  BY <2>4, <2>7 DEF BeforePair
  <2>13. InHeaders'  BY <1>2, <2>10, <2>11, <2>12 DEF InHeaders
  <2> QED  BY <2>9, <2>13 DEF Phase
<1>10. CASE Taken = L - 1
  <2>1. c = "?"
    <3>1. Taken + 1 = L /\ L \in 1 .. L  BY <1>3, <1>40, <1>10
    <3> QED  BY <1>4, <1>5, <3>1 DEF T
  <2>2. QuestionTurn  BY <2>1, Kinds
  <2>3. /\ parser'.key = TRUE /\ parser'.value = parser.value
        /\ parser'.urlFound = parser.urlFound + 1 /\ parser'.url = parser.url
        /\ parser'.keyString = parser.keyString /\ parser'.valueString = parser.valueString
        /\ pairs' = pairs
    BY <2>2 DEF QuestionTurn, ParserAs
  <2>4. Taken' = L /\ Taken # L /\ ~ (Taken < 2)  BY <1>2, <1>3, <1>40, <1>10
  <2>5. /\ parser'.key /\ ~parser'.value /\ parser'.urlFound = 2 /\ parser'.url = Url(r)
        /\ parser'.keyString = << >> /\ parser'.valueString = << >> /\ pairs' = << >>
    BY <1>6, <1>7, <1>8, <1>10, <2>3, <2>4
  <2>6. CASE K = 0
    <3>1. r.params = << >>  BY <1>1, <2>6, EmptySeq DEF K
    <3> QED  BY <1>2, <1>3, <2>4, <2>5, <3>1 DEF Phase, Early, L, path
  <2>7. CASE K # 0
    <3>1. 1 \in 1 .. K /\ Start(r, 1) = L /\ L - Start(r, 1) = 0 /\ 1 - 1 = 0  BY <1>3, <2>7
    <3>2. L <= Middle(r, 1)
      <4>1. Len(r.params[1].name) \in Nat  BY <1>1, <3>1, ParameterText DEF K
      <4> QED  BY <1>3, <3>1, <4>1 DEF Middle
    <3>3. SubSeq(r.params, 1, 0) = << >> /\ SubSeq(r.params[1].name, 1, 0) = << >>
      BY SubSeqEmpty
    <3>4. InName(1)'  BY <1>2, <1>3, <2>4, <2>5, <3>1, <3>2, <3>3 DEF InName
    <3>5. UrlRead'  BY <1>2, <2>5 DEF UrlRead
    <3> QED  BY <1>2, <3>1, <3>4, <3>5 DEF Phase, K
  <2> QED  BY <2>6, <2>7
<1>11. CASE Taken < L - 1
  <2>1. Taken' # L /\ Taken # L /\ Taken' <= L /\ Taken + 1 \in 1 .. L  BY <1>2, <1>3, <1>40, <1>11
  <2>2. c = path[Taken + 1]  BY <1>5, <2>1 DEF T
  <2>3. CASE Taken = 1
    <3>1. c = " "
      <4>1. Taken + 1 = 2  BY <2>3
      <4> QED  BY <1>4, <2>2, <4>1
    <3>2. SpaceTurn  BY <1>7, <3>1, Kinds
    <3>3. /\ parser'.key = parser.key /\ parser'.value = parser.value
          /\ parser'.urlFound = parser.urlFound + 1 /\ parser'.url = parser.url
          /\ parser'.keyString = parser.keyString /\ parser'.valueString = parser.valueString
          /\ pairs' = pairs
      BY <3>2 DEF SpaceTurn, ParserAs
    <3>4. SubSeq(path, 3, 1) = << >> /\ SubSeq(path, 3, 2) = << >>  BY SubSeqEmpty
    <3>5. Taken' = 2  BY <1>2, <2>3
    <3>6. parser.url = << >> /\ parser.urlFound = 0
      <4>1. SubSeq(path, 3, Taken) = << >> /\ Taken < 2  BY <2>3, <3>4
      <4> QED  BY <1>8, <2>1, <4>1
    <3>7. /\ ~parser'.key /\ ~parser'.value /\ parser'.urlFound = 1 /\ parser'.url = << >>
          /\ parser'.keyString = << >> /\ parser'.valueString = << >> /\ pairs' = << >>
      BY <1>7, <1>8, <2>1, <3>3, <3>6
    <3> QED  BY <1>2, <2>1, <3>4, <3>5, <3>7 DEF Phase, Early, L, path
  <2>4. CASE Taken # 1
    <3>1. c \notin {" ", "?", "=", "&"}
      <4>1. CASE Taken = 0
        <5>1. Taken + 1 = 1  BY <4>1
        <5> QED  BY <1>4, <2>2, <5>1
      <4>2. CASE Taken # 0
        <5>1. Taken + 1 \in 3 .. L - 1  BY <1>2, <1>3, <1>11, <2>4, <4>2
        <5> QED  BY <1>1, <2>2, <5>1, PathPlain DEF path, L
      <4> QED  BY <4>1, <4>2
    <3>2. CharacterTurn  BY <3>1, Kinds
    <3>3. /\ parser'.key = parser.key /\ parser'.value = parser.value
          /\ parser'.urlFound = parser.urlFound
          /\ parser'.url = IF parser.urlFound = 1 THEN Append(parser.url, c) ELSE parser.url
          /\ pairs' = pairs
      BY <3>2 DEF CharacterTurn, ParserAs, UrlNow
    <3>4. /\ parser'.keyString = IF parser.key THEN Append(parser.keyString, c) ELSE parser.keyString
          /\ parser'.valueString = IF parser.value THEN Append(parser.valueString, c) ELSE parser.valueString
      BY <3>2 DEF CharacterTurn, ParserAs
    <3>5. parser'.keyString = << >> /\ parser'.valueString = << >>
      BY <1>7, <1>8, <2>1, <3>4
    <3>6. parser'.urlFound = IF Taken' < 2 THEN 0 ELSE 1
      <4>1. Taken' < 2 <=> Taken < 2  BY <1>2, <2>4
      <4>2. parser.urlFound = IF Taken < 2 THEN 0 ELSE 1  BY <1>8, <2>1
      <4> QED  BY <3>3, <4>1, <4>2
    <3>7. parser'.url = SubSeq(path, 3, Taken + 1)
      <4>1. CASE Taken = 0
        <5>1. SubSeq(path, 3, 0) = << >> /\ SubSeq(path, 3, 1) = << >>  BY SubSeqEmpty
        <5>2. parser.urlFound = 0 /\ parser.url = << >>
          <6>1. SubSeq(path, 3, Taken) = << >> /\ Taken < 2  BY <4>1, <5>1
          <6> QED  BY <1>8, <2>1, <6>1
        <5>3. Taken + 1 = 1  BY <4>1
        <5> QED  BY <3>3, <5>1, <5>2, <5>3
      <4>2. CASE Taken # 0
        <5>1. 3 - 1 <= Taken /\ Taken < Len(path) /\ ~ (Taken < 2)  BY <1>2, <1>3, <1>11, <2>4, <4>2 DEF L
        <5>2. Append(SubSeq(path, 3, Taken), path[Taken + 1]) = SubSeq(path, 3, Taken + 1)
          <6>1. path \in Seq(Token) /\ 3 \in Nat \ {0}  BY <1>40
          <6> QED  BY <1>2, <5>1, <6>1, SubSeqGrows
        <5>3. parser.urlFound = 1 /\ parser.url = SubSeq(path, 3, Taken)  BY <1>8, <2>1, <5>1
        <5> QED  BY <2>2, <3>3, <5>2, <5>3
      <4> QED  BY <4>1, <4>2
    <3>8. ~parser'.key /\ ~parser'.value /\ pairs' = << >>  BY <1>7, <1>8, <2>1, <3>3
    <3>9. parser'.url = SubSeq(path, 3, Taken')  BY <1>2, <3>7
    <3> QED  BY <1>2, <2>1, <3>5, <3>6, <3>8, <3>9 DEF Phase, Early, L, path
  <2> QED  BY <2>3, <2>4
<1> QED  BY <1>2, <1>3, <1>7, <1>9, <1>10, <1>11

\* The text from one parameter's name to its end.
LEMMA ParameterAt ==
  ASSUME TypeInv, WellFormed, NEW k \in 1 .. Len(request.params)
  PROVE  LET T == RequestText(request)
             p == request.params[k]
         IN  /\ p \in Pair /\ p.name \in Seq(Token) /\ p.value \in Seq(Token)
             /\ Len(p.name) \in Nat /\ Len(p.value) \in Nat /\ Start(request, k) \in Nat
             /\ Middle(request, k) = Start(request, k) + Len(p.name)
             /\ End(request, k) = Middle(request, k) + 1 + Len(p.value)
             /\ End(request, k) < HeadersAt(request)
             /\ \A i \in 1 .. Len(p.name) : /\ T[Start(request, k) + i] = p.name[i]
                                            /\ p.name[i] \notin {" ", "?", "=", "&"}
             /\ T[Middle(request, k) + 1] = "="
             /\ \A i \in 1 .. Len(p.value) : /\ T[Middle(request, k) + 1 + i] = p.value[i]
                                             /\ p.value[i] \notin {" ", "?", "=", "&"}
<1> DEFINE T == RequestText(request)
           p == request.params[k]
           S == Start(request, k)
           M == Middle(request, k)
<1>1. /\ p \in Pair /\ p.name \in Seq(Token) /\ p.value \in Seq(Token)
      /\ \A i \in 1 .. Len(p.name) : p.name[i] \notin {" ", "?", "=", "&"}
      /\ \A i \in 1 .. Len(p.value) : p.value[i] \notin {" ", "?", "=", "&"}
      /\ request \in RequestType /\ Values(request)
  BY WellFormedText
<1>2. /\ Len(p.name) \in Nat /\ Len(p.value) \in Nat /\ S \in Nat
      /\ End(request, k) < HeadersAt(request)
      /\ At(T, S, p.name) /\ T[M + 1] = "=" /\ At(T, M + 1, p.value)
  BY <1>1, ParameterText
<1>3. M = S + Len(p.name) /\ End(request, k) = M + 1 + Len(p.value)  BY DEF Middle, End
<1>4. \A i \in 1 .. Len(p.name) : T[S + i] = p.name[i]  BY <1>2 DEF At
<1>5. \A i \in 1 .. Len(p.value) : T[M + 1 + i] = p.value[i]  BY <1>2 DEF At
<1> HIDE DEF T, p, S, M
<1> QED  BY <1>1, <1>2, <1>3, <1>4, <1>5 DEF T, p, S, M

LEMMA NameTurn ==
  ASSUME TypeInv, WellFormed, ParserTurn, UrlRead,
         NEW k \in 1 .. Len(request.params), InName(k),
         c = RequestText(request)[Taken + 1]
  PROVE  Phase'
<1> DEFINE T == RequestText(request)
           n == request.params[k].name
           v == request.params[k].value
           S == Start(request, k)
           M == Middle(request, k)
           E == End(request, k)
<1>1. request' = request /\ Taken \in Nat /\ Taken' = Taken + 1  BY Kinds
<1>2. /\ n \in Seq(Token) /\ Len(n) \in Nat /\ Len(v) \in Nat /\ S \in Nat
      /\ M = S + Len(n) /\ E = M + 1 + Len(v)
  BY ParameterAt
<1>3. /\ \A i \in 1 .. Len(n) : T[S + i] = n[i] /\ n[i] \notin {" ", "?", "=", "&"}
      /\ T[M + 1] = "="
  BY ParameterAt
<1>4. /\ S <= Taken /\ Taken <= M /\ pairs = SubSeq(request.params, 1, k - 1)
      /\ parser.key /\ ~parser.value /\ parser.valueString = << >>
      /\ parser.keyString = SubSeq(n, 1, Taken - S)
      /\ parser.urlFound >= 2 /\ parser.url = Url(request)
  BY DEF InName, UrlRead
<1>5. parser.urlFound \in Nat  BY DEF TypeInv, TypeOK, ParserState
<1>6. SubSeq(v, 1, 0) = << >>  BY SubSeqEmpty
<1>9. /\ Taken \in Nat /\ Taken' = Taken + 1 /\ Len(n) \in Nat /\ Len(v) \in Nat /\ S \in Nat
      /\ M = S + Len(n) /\ E = M + 1 + Len(v) /\ S <= Taken /\ Taken <= M
  BY <1>1, <1>2, <1>4
<1>7. CASE Taken < M
  <2> DEFINE i == Taken - S
  <2>1. i \in Nat /\ i < Len(n) /\ i + 1 \in 1 .. Len(n) /\ S + (i + 1) = Taken + 1
        /\ Taken' - S = i + 1
    <3> HIDE DEF n, v, S, M, E
    <3> QED  BY <1>7, <1>9
  <2>2. c = n[i + 1]
    <3> HIDE DEF n, S, i, T
    <3>1. T[S + (i + 1)] = n[i + 1]  BY <1>3, <2>1
    <3> QED  BY <2>1, <3>1 DEF T
  <2>3. CharacterTurn
    <3> HIDE DEF n, S, i, T
    <3>1. n[i + 1] \notin {" ", "?", "=", "&"}  BY <1>3, <2>1
    <3> QED  BY <2>2, <3>1, Kinds
  <2>4. /\ parser'.key = parser.key /\ parser'.value = parser.value
        /\ parser'.urlFound = parser.urlFound
        /\ parser'.url = IF parser.urlFound = 1 THEN Append(parser.url, c) ELSE parser.url
        /\ pairs' = pairs
    BY <2>3 DEF CharacterTurn, ParserAs, UrlNow
  <2>5. /\ parser'.keyString = IF parser.key THEN Append(parser.keyString, c) ELSE parser.keyString
        /\ parser'.valueString = IF parser.value THEN Append(parser.valueString, c) ELSE parser.valueString
    BY <2>3 DEF CharacterTurn, ParserAs
  <2>6. parser'.keyString = SubSeq(n, 1, Taken' - S)
    <3> HIDE DEF n, i, S, M
    <3>1. Append(SubSeq(n, 1, i), n[i + 1]) = SubSeq(n, 1, i + 1)
      <4>1. 1 \in Nat \ {0} /\ 1 - 1 <= i  BY <2>1
      <4> QED  BY <1>2, <2>1, <4>1, SubSeqGrows
    <3>2. parser.keyString = SubSeq(n, 1, i)  BY <1>4 DEF i
    <3> QED  BY <1>4, <2>1, <2>2, <2>5, <3>1, <3>2
  <2>7. /\ parser'.key /\ ~parser'.value /\ parser'.valueString = << >>
        /\ parser'.urlFound >= 2 /\ parser'.url = Url(request)
        /\ pairs' = SubSeq(request.params, 1, k - 1)
    BY <1>4, <1>5, <2>4, <2>5
  <2>8. S <= Taken' /\ Taken' <= M
    <3> HIDE DEF n, v, S, M, E
    <3> QED  BY <1>7, <1>9
  <2>9. InName(k)'  BY <1>1, <2>6, <2>7, <2>8 DEF InName
  <2>10. UrlRead'  BY <1>1, <2>7 DEF UrlRead
  <2> QED  BY <1>1, <2>9, <2>10 DEF Phase
<1>8. CASE Taken = M
  <2>1. c = "="  BY <1>3, <1>8
  <2>2. EqualsTurn  BY <2>1, Kinds
  <2>3. /\ parser'.key = FALSE /\ parser'.value = TRUE
        /\ parser'.urlFound = parser.urlFound
        /\ parser'.url = IF parser.urlFound = 1 THEN Append(parser.url, c) ELSE parser.url
        /\ parser'.keyString = parser.keyString /\ parser'.valueString = parser.valueString
        /\ pairs' = pairs
    BY <2>2 DEF EqualsTurn, ParserAs, UrlNow
  <2>4. Taken - S = Len(n) /\ Taken' - M - 1 = 0 /\ M < Taken' /\ Taken' <= E
    <3> HIDE DEF n, v, S, M, E
    <3> QED  BY <1>8, <1>9
  <2>5. parser'.keyString = n
    <3> HIDE DEF n
    <3>1. SubSeq(n, 1, Len(n)) = n  BY <1>2, SubSeqFull
    <3> QED  BY <1>4, <2>3, <2>4, <3>1
  <2>6. /\ ~parser'.key /\ parser'.value /\ parser'.valueString = SubSeq(v, 1, Taken' - M - 1)
        /\ parser'.urlFound >= 2 /\ parser'.url = Url(request)
        /\ pairs' = SubSeq(request.params, 1, k - 1)
    BY <1>4, <1>5, <1>6, <2>3, <2>4
  <2>7. InValue(k)'  BY <1>1, <2>4, <2>5, <2>6 DEF InValue
  <2>8. UrlRead'  BY <1>1, <2>6 DEF UrlRead
  <2> QED  BY <1>1, <2>7, <2>8 DEF Phase
<1>10. Taken < M \/ Taken = M
  <2> HIDE DEF n, v, S, M, E
  <2> QED  BY <1>9
<1> QED  BY <1>7, <1>8, <1>10

LEMMA ValueTurn ==
  ASSUME TypeInv, WellFormed, ParserTurn, UrlRead,
         NEW k \in 1 .. Len(request.params), InValue(k),
         c = RequestText(request)[Taken + 1]
  PROVE  Phase'
<1> DEFINE T == RequestText(request)
           ps == request.params
           K == Len(ps)
           n == ps[k].name
           v == ps[k].value
           S == Start(request, k)
           M == Middle(request, k)
           E == End(request, k)
<1>1. request' = request /\ Taken \in Nat /\ Taken' = Taken + 1  BY Kinds
<1>2. /\ n \in Seq(Token) /\ v \in Seq(Token) /\ Len(n) \in Nat /\ Len(v) \in Nat /\ S \in Nat
      /\ M = S + Len(n) /\ E = M + 1 + Len(v)
  BY ParameterAt
<1>3. \A i \in 1 .. Len(v) : T[M + 1 + i] = v[i] /\ v[i] \notin {" ", "?", "=", "&"}
  BY ParameterAt
<1>4. /\ M < Taken /\ Taken <= E /\ pairs = SubSeq(ps, 1, k - 1)
      /\ ~parser.key /\ parser.value /\ parser.keyString = n
      /\ parser.valueString = SubSeq(v, 1, Taken - M - 1)
      /\ parser.urlFound >= 2 /\ parser.url = Url(request)
  BY DEF InValue, UrlRead
<1>5. parser.urlFound \in Nat  BY DEF TypeInv, TypeOK, ParserState
<1>9. /\ Taken \in Nat /\ Taken' = Taken + 1 /\ Len(n) \in Nat /\ Len(v) \in Nat /\ S \in Nat
      /\ M = S + Len(n) /\ E = M + 1 + Len(v) /\ M < Taken /\ Taken <= E
  BY <1>1, <1>2, <1>4
<1>7. CASE Taken < E
  <2> DEFINE i == Taken - M - 1
  <2>1. i \in Nat /\ i < Len(v) /\ i + 1 \in 1 .. Len(v) /\ M + 1 + (i + 1) = Taken + 1
        /\ Taken' - M - 1 = i + 1
    <3> HIDE DEF n, v, S, M, E
    <3> QED  BY <1>7, <1>9
  <2>2. c = v[i + 1]
    <3> HIDE DEF v, M, i, T
    <3>1. T[M + 1 + (i + 1)] = v[i + 1]  BY <1>3, <2>1
    <3> QED  BY <2>1, <3>1 DEF T
  <2>3. CharacterTurn
    <3> HIDE DEF v, M, i, T
    <3>1. v[i + 1] \notin {" ", "?", "=", "&"}  BY <1>3, <2>1
    <3> QED  BY <2>2, <3>1, Kinds
  <2>4. /\ parser'.key = parser.key /\ parser'.value = parser.value
        /\ parser'.urlFound = parser.urlFound
        /\ parser'.url = IF parser.urlFound = 1 THEN Append(parser.url, c) ELSE parser.url
        /\ pairs' = pairs
    BY <2>3 DEF CharacterTurn, ParserAs, UrlNow
  <2>5. /\ parser'.keyString = IF parser.key THEN Append(parser.keyString, c) ELSE parser.keyString
        /\ parser'.valueString = IF parser.value THEN Append(parser.valueString, c) ELSE parser.valueString
    BY <2>3 DEF CharacterTurn, ParserAs
  <2>6. parser'.valueString = SubSeq(v, 1, Taken' - M - 1)
    <3> HIDE DEF v, i, M
    <3>1. Append(SubSeq(v, 1, i), v[i + 1]) = SubSeq(v, 1, i + 1)
      <4>1. 1 \in Nat \ {0} /\ 1 - 1 <= i  BY <2>1
      <4> QED  BY <1>2, <2>1, <4>1, SubSeqGrows
    <3>2. parser.valueString = SubSeq(v, 1, i)  BY <1>4 DEF i
    <3> QED  BY <1>4, <2>1, <2>2, <2>5, <3>1, <3>2
  <2>7. /\ ~parser'.key /\ parser'.value /\ parser'.keyString = n
        /\ parser'.urlFound >= 2 /\ parser'.url = Url(request)
        /\ pairs' = SubSeq(ps, 1, k - 1)
    BY <1>4, <1>5, <2>4, <2>5
  <2>8. M < Taken' /\ Taken' <= E
    <3> HIDE DEF n, v, S, M, E
    <3> QED  BY <1>7, <1>9
  <2>9. InValue(k)'  BY <1>1, <2>6, <2>7, <2>8 DEF InValue
  <2>10. UrlRead'  BY <1>1, <2>7 DEF UrlRead
  <2> QED  BY <1>1, <2>9, <2>10 DEF Phase
<1>8. CASE Taken = E
  <2>0. request \in RequestType /\ Values(request) /\ ps \in Seq(Parameter) /\ K \in Nat
        /\ ps[k] \in Pair
    BY WellFormedText
  <2>1. /\ k # K => /\ k + 1 \in 1 .. K /\ Start(request, k + 1) = E + 1 /\ T[E + 1] = "&"
        /\ k = K => HeadersAt(request) = E + 1
    BY <2>0, Between
  <2>2. T[HeadersAt(request)] = " "  BY <2>0, RequestTextParts
  <2>3. c \in {"&", " "} /\ parser.value  BY <1>4, <1>8, <2>1, <2>2
  <2>4. PushTurn  BY <2>3, Kinds
  <2>5. /\ parser'.key = TRUE /\ parser'.value = FALSE
        /\ parser'.urlFound = parser.urlFound
        /\ parser'.url = IF parser.urlFound = 1 THEN Append(parser.url, c) ELSE parser.url
        /\ parser'.keyString = << >> /\ parser'.valueString = << >>
        /\ pairs' = Append(pairs, TheirPair)
    BY <2>4 DEF PushTurn, ParserAs, UrlNow
  <2>6. TheirPair = ps[k]
    <3>1. SubSeq(v, 1, Taken - M - 1) = v
      <4> HIDE DEF n, v, S, M, E
      <4>1. Taken - M - 1 = Len(v)  BY <1>8, <1>9
      <4>2. SubSeq(v, 1, Len(v)) = v  BY <1>2, SubSeqFull
      <4> QED  BY <4>1, <4>2
    <3>2. ps[k] = [name |-> n, value |-> v]  BY <2>0 DEF Pair
    <3>3. TheirPair = [name |-> n, value |-> v]
      <4> HIDE DEF n, v
      <4> QED  BY <1>4, <3>1 DEF TheirPair
    <3> QED  BY <3>2, <3>3
  <2>7. pairs' = SubSeq(ps, 1, k)
    <3> DEFINE j == k - 1
    <3>1. j \in Nat /\ j < Len(ps) /\ j + 1 = k /\ 1 \in Nat \ {0} /\ 1 - 1 <= j  BY <2>0
    <3> HIDE DEF j, ps
    <3>2. Append(SubSeq(ps, 1, j), ps[j + 1]) = SubSeq(ps, 1, j + 1)  BY <2>0, <3>1, SubSeqGrows
    <3>3. pairs = SubSeq(ps, 1, j)  BY <1>4 DEF j
    <3> QED  BY <2>5, <2>6, <3>1, <3>2, <3>3
  <2>8. parser'.key /\ ~parser'.value /\ parser'.urlFound >= 2 /\ parser'.url = Url(request)
    BY <1>4, <1>5, <2>5
  <2>9. UrlRead'  BY <1>1, <2>8 DEF UrlRead
  <2>10. Taken' = E + 1 /\ E \in Nat
    <3> HIDE DEF n, v, S, M, E
    <3> QED  BY <1>8, <1>9
  <2>11. CASE k # K
    <3> DEFINE m == k + 1
    <3>1. m \in 1 .. K /\ Start(request, m) = E + 1 /\ m - 1 = k  BY <2>0, <2>1, <2>11
    <3> HIDE DEF m
    <3>2. Len(ps[m].name) \in Nat /\ Middle(request, m) = Start(request, m) + Len(ps[m].name)
      BY <3>1, ParameterAt
    <3>3. /\ Start(request, m) <= Taken' /\ Taken' <= Middle(request, m)
          /\ Taken' - Start(request, m) = 0
      <4> DEFINE l  == Len(ps[m].name)
                 sm == Start(request, m)
                 mm == Middle(request, m)
      <4>1. sm = E + 1 /\ E \in Nat /\ Taken' = E + 1 /\ l \in Nat /\ mm = sm + l
        BY <2>10, <3>1, <3>2
      <4> HIDE DEF E, l, sm, mm
      <4>2. sm <= Taken' /\ Taken' <= mm /\ Taken' - sm = 0  BY <4>1
      <4> QED  BY <4>2 DEF sm, mm
    <3>4. parser'.keyString = SubSeq(ps[m].name, 1, 0)  BY <2>5, SubSeqEmpty
    <3>5. pairs' = SubSeq(ps, 1, m - 1)  BY <2>7, <3>1
    <3>6. parser'.keyString = SubSeq(ps[m].name, 1, Taken' - Start(request, m))  BY <3>3, <3>4
    <3>7. InName(m)'  BY <1>1, <2>5, <2>8, <3>3, <3>5, <3>6 DEF InName
    <3> QED  BY <1>1, <2>9, <3>1, <3>7 DEF Phase
  <2>12. CASE k = K
    <3>1. pairs' = ps  BY <2>0, <2>7, <2>12, SubSeqFull
    <3>2. Taken' = HeadersAt(request) /\ HeadersAt(request) \in Nat  BY <2>1, <2>10, <2>12
    <3>3. Arrived(ps)
      <4>1. IsPrefix(ps, ps)  BY <2>0, PrefixSelf
      <4>2. \A i \in K + 1 .. K : FALSE  BY <2>0
      <4> QED  BY <4>1, <4>2 DEF Arrived
    <3>4. Arrived(pairs)'  BY <1>1, <3>1, <3>3 DEF Arrived
    <3>5. Taken' >= HeadersAt(request') /\ Taken' - HeadersAt(request') = 0
      BY <1>1, <3>2
    <3>6. BeforePair(request.headers, parser', 0)  BY <2>5, <2>8 DEF BeforePair, SeenEquals
    <3>7. InHeaders'  BY <1>1, <3>4, <3>5, <3>6 DEF InHeaders
    <3> QED  BY <1>1, <2>9, <3>7 DEF Phase
  <2> QED  BY <2>11, <2>12
<1>10. Taken < E \/ Taken = E
  <2> HIDE DEF n, v, S, M, E
  <2> QED  BY <1>9
<1> QED  BY <1>7, <1>8, <1>10

LEMMA OneEquals ==
  ASSUME TypeInv, WellFormed,
         NEW d \in 1 .. Len(request.headers), request.headers[d] = "=",
         NEW e \in 1 .. Len(request.headers), request.headers[e] = "="
  PROVE  d = e
<1> DEFINE h == request.headers
           Equal == {n \in DOMAIN h : h[n] = "="}
<1> SUFFICES ASSUME d # e PROVE FALSE
  OBVIOUS
<1>1. h \in Seq(Token) /\ Len(h) \in Nat /\ DOMAIN h = 1 .. Len(h)
  <2>1. h \in Text  BY WellFormedText
  <2> HIDE DEF h
  <2> QED  BY <2>1, LenProperties DEF Text
<1>2. Cardinality(Equal) <= 1  BY DEF WellFormed
<1>3. {d, e} \in SUBSET Equal /\ Equal \in SUBSET (1 .. Len(h))  BY <1>1
<1> HIDE DEF Equal
<1>4. IsFiniteSet(1 .. Len(h))
  <2>1. 1 \in Int /\ Len(h) \in Int  BY <1>1
  <2> QED  BY <2>1, FS_Interval
<1>5. IsFiniteSet(Equal)  BY <1>3, <1>4, FS_Subset
<1>6. Cardinality({d, e}) <= Cardinality(Equal) /\ Cardinality(Equal) \in Nat
  BY <1>3, <1>5, FS_Subset, FS_CardinalityType
<1>7. Cardinality({d, e}) = 2
  <2>0. IsFiniteSet({d}) /\ Cardinality({d}) = 1  BY FS_Singleton
  <2>1. IsFiniteSet({d}) /\ e \notin {d}  BY <2>0
  <2>2. Cardinality({d} \cup {e}) = Cardinality({d}) + 1  BY <2>1, FS_AddElement
  <2>3. {d} \cup {e} = {d, e}  OBVIOUS
  <2>4. Cardinality({d, e}) = 1 + 1  BY <2>0, <2>2, <2>3
  <2> QED  BY <2>4
<1> QED  BY <1>2, <1>6, <1>7

LEMMA VersionAppend ==
  ASSUME NEW s \in Text, NEW t \in Token, OfVersion(s)
  PROVE  OfVersion(Append(s, t))
<1>1. s \in Seq(Token) /\ s # << >> /\ s[1] = "HTTP"  BY DEF OfVersion, Text
<1>2. 1 \in 1 .. Len(s)  BY <1>1, EmptySeq
<1>3. Append(s, t) # << >> /\ Append(s, t)[1] = s[1]  BY <1>1, <1>2, AppendProperties
<1> QED  BY <1>1, <1>3 DEF OfVersion

LEMMA ArrivedAppend ==
  ASSUME TypeInv, request \in RequestType, Arrived(pairs), NEW p \in Pair, OfVersion(p.name)
  PROVE  Arrived(Append(pairs, p))
<1> DEFINE ps == request.params
           u  == Append(pairs, p)
<1>1. ps \in Seq(Parameter) /\ pairs \in Seq(Parameter) /\ p \in Parameter
  <2>1. pairs \in Seq(Pair) /\ ps \in Seq(Parameter)  BY DEF TypeInv, TypeOK, RequestType
  <2>2. Pair \subseteq Parameter  BY DEF Parameter
  <2> QED  BY <2>1, <2>2, SeqMonotonic
<1>2. IsPrefix(ps, pairs) /\ \A n \in Len(ps) + 1 .. Len(pairs) : OfVersion(pairs[n].name)
  BY DEF Arrived
<1> HIDE DEF ps
<1>3. IsPrefix(ps, u)  BY <1>1, <1>2, PrefixAppend
<1>4. /\ Len(u) = Len(pairs) + 1 /\ Len(pairs) \in Nat /\ Len(ps) \in Nat
      /\ \A n \in 1 .. Len(pairs) : u[n] = pairs[n]
      /\ u[Len(pairs) + 1] = p
  BY <1>1, AppendProperties
<1> HIDE DEF u
<1>5. ASSUME NEW n \in Len(ps) + 1 .. Len(u) PROVE OfVersion(u[n].name)
  <2>1. CASE n = Len(pairs) + 1  BY <1>4, <2>1
  <2>2. CASE n # Len(pairs) + 1
    <3>1. n \in Len(ps) + 1 .. Len(pairs) /\ n \in 1 .. Len(pairs)  BY <1>4, <2>2
    <3> QED  BY <1>2, <1>4, <3>1
  <2> QED  BY <2>1, <2>2
<1> QED  BY <1>3, <1>5 DEF Arrived, ps, u

LEMMA HeadersTurn ==
  ASSUME TypeInv, WellFormed, ParserTurn, UrlRead, InHeaders,
         c = RequestText(request)[Taken + 1], Taken < Len(RequestText(request))
  PROVE  Phase'
<1> DEFINE r == request
           h == r.headers
           H == HeadersAt(r)
           seen == Taken - H
           seen1 == Taken' - H
<1>1. request' = r /\ Taken \in Nat /\ Taken' = Taken + 1  BY Kinds
<1>2. r \in RequestType /\ Values(r) /\ Len(h) \in Nat /\ h \in Text  BY WellFormedText
<1>3. H \in Nat  BY <1>2, Between
<1>4. Taken >= H /\ Arrived(pairs) /\ parser.urlFound >= 2 /\ parser.url = Url(r)
      /\ (BeforePair(h, parser, seen) \/ AfterPair(h, parser, seen))
  BY DEF InHeaders, UrlRead
<1>5. At(RequestText(r), H, h) /\ Len(RequestText(r)) = H + Len(h)  BY <1>2, RequestTextParts
<1>6. /\ seen \in Nat /\ seen1 = seen + 1 /\ seen + 1 \in 1 .. Len(h) /\ H + (seen + 1) = Taken + 1
      /\ seen1 # 0
  <2>1. Len(RequestText(r)) = H + Len(h)  BY <1>5
  <2> HIDE DEF H, h
  <2> QED  BY <1>1, <1>2, <1>3, <1>4, <2>1
<1>7. c = h[seen + 1]
  <2> HIDE DEF seen, H, h
  <2>1. RequestText(r)[H + (seen + 1)] = h[seen + 1]  BY <1>5, <1>6 DEF At
  <2> QED  BY <1>6, <2>1
<1>8. c \in Token
  <2>1. h \in Seq(Token)  BY <1>2 DEF Text
  <2> HIDE DEF h, seen
  <2> QED  BY <1>6, <1>7, <2>1, ElementOfSeq
<1>9. SeenEquals(h, seen1) <=> SeenEquals(h, seen) \/ c = "="
  <2>1. SeenEquals(h, seen) <=> \E e \in 1 .. seen : h[e] = "="  BY DEF SeenEquals
  <2>2. SeenEquals(h, seen1) <=> \E e \in 1 .. seen + 1 : h[e] = "="  BY <1>6 DEF SeenEquals
  <2> HIDE DEF seen, seen1, h
  <2>3. \A e : e \in 1 .. seen + 1 <=> e \in 1 .. seen \/ e = seen + 1  BY <1>6
  <2> QED  BY <1>7, <2>1, <2>2, <2>3
<1>10. c = "=" => ~ SeenEquals(h, seen)
  <2> SUFFICES ASSUME c = "=", SeenEquals(h, seen) PROVE FALSE
    OBVIOUS
  <2>1. PICK e \in 1 .. seen : h[e] = "="  BY DEF SeenEquals
  <2> HIDE DEF seen, h
  <2>2. e \in 1 .. Len(h) /\ e # seen + 1 /\ h[seen + 1] = "="  BY <1>2, <1>6, <1>7
  <2> QED  BY <1>6, <2>1, <2>2, OneEquals DEF h
<1>11. /\ parser \in ParserState /\ parser.keyString \in Text /\ parser.valueString \in Text
       /\ parser.urlFound \in Nat
  BY DEF TypeInv, TypeOK, ParserState
<1>12. \/ c = " " /\ ~parser.value
       \/ c = "?"
       \/ c = "="
       \/ c \in {"&", " "} /\ parser.value
       \/ CharacterTurn
  <2>1. SpaceTurn \/ QuestionTurn \/ EqualsTurn \/ PushTurn \/ CharacterTurn
    BY <1>11, Turned
  <2> QED  BY <2>1 DEF SpaceTurn, QuestionTurn, EqualsTurn, PushTurn
<1>13. ASSUME UrlRead', Arrived(pairs'), BeforePair(h, parser', seen1) \/ AfterPair(h, parser', seen1)
       PROVE  Phase'
  <2>1. Taken' >= H  BY <1>1, <1>3, <1>4
  <2>2. Arrived(pairs)'  BY <1>1, <1>13 DEF Arrived
  <2>3. InHeaders'  BY <1>1, <1>13, <2>1, <2>2 DEF InHeaders
  <2> QED  BY <1>13, <2>3 DEF Phase
<1>14. UrlRead /\ parser'.urlFound \in {parser.urlFound, parser.urlFound + 1}
         /\ parser'.url \in {parser.url, UrlNow} => UrlRead'
  <2>1. UrlNow = parser.url  BY <1>4, <1>11 DEF UrlNow
  <2> QED  BY <1>1, <1>4, <1>11, <2>1 DEF UrlRead
<1>16. seen = 0 => c = "HTTP"
  <2>1. Len(h) >= 1 => h[1] = "HTTP"  BY WellFormedText
  <2> HIDE DEF h, seen
  <2>2. seen = 0 => Len(h) >= 1 /\ seen + 1 = 1  BY <1>2, <1>6
  <2> QED  BY <1>7, <2>1, <2>2
<1>15. CASE c = " " /\ ~parser.value
  <2>1. SpaceTurn  BY <1>15, Kinds
  <2>2. /\ parser'.key = parser.key /\ parser'.value = parser.value
        /\ parser'.urlFound = parser.urlFound + 1 /\ parser'.url = parser.url
        /\ parser'.keyString = parser.keyString /\ pairs' = pairs
    BY <2>1 DEF SpaceTurn, ParserAs
  <2>3. UrlRead'  BY <1>14, <2>2
  <2>4. SeenEquals(h, seen1) <=> SeenEquals(h, seen)  BY <1>9, <1>15
  <2>5. CASE AfterPair(h, parser, seen)
    <3>1. AfterPair(h, parser', seen1)  BY <2>2, <2>4, <2>5 DEF AfterPair
    <3> QED  BY <1>4, <1>13, <2>2, <2>3, <3>1
  <2>6. CASE BeforePair(h, parser, seen) /\ seen # 0
    <3>1. BeforePair(h, parser', seen1)  BY <1>6, <2>2, <2>4, <2>6 DEF BeforePair
    <3> QED  BY <1>4, <1>13, <2>2, <2>3, <3>1
  <2>7. seen # 0  BY <1>15, <1>16
  <2> QED  BY <1>4, <2>5, <2>6, <2>7
<1>17. CASE c = "?"
  <2>1. QuestionTurn  BY <1>17, Kinds
  <2>2. /\ parser'.key = TRUE /\ parser'.value = parser.value
        /\ parser'.urlFound = parser.urlFound + 1 /\ parser'.url = parser.url
        /\ parser'.keyString = parser.keyString /\ pairs' = pairs
    BY <2>1 DEF QuestionTurn, ParserAs
  <2>3. UrlRead'  BY <1>14, <2>2
  <2>4. SeenEquals(h, seen1) <=> SeenEquals(h, seen)  BY <1>9, <1>17
  <2>5. CASE AfterPair(h, parser, seen)
    <3>1. AfterPair(h, parser', seen1)  BY <2>2, <2>4, <2>5 DEF AfterPair
    <3> QED  BY <1>4, <1>13, <2>2, <2>3, <3>1
  <2>6. CASE BeforePair(h, parser, seen) /\ seen # 0
    <3>1. BeforePair(h, parser', seen1)  BY <1>6, <2>2, <2>4, <2>6 DEF BeforePair
    <3> QED  BY <1>4, <1>13, <2>2, <2>3, <3>1
  <2>7. seen # 0  BY <1>16, <1>17
  <2> QED  BY <1>4, <2>5, <2>6, <2>7
<1>18. CASE c = "="
  <2>1. EqualsTurn  BY <1>18, Kinds
  <2>2. /\ parser'.value = TRUE /\ parser'.urlFound = parser.urlFound /\ parser'.url = UrlNow
        /\ parser'.keyString = parser.keyString /\ pairs' = pairs
    BY <2>1 DEF EqualsTurn, ParserAs
  <2>3. UrlRead'  BY <1>14, <2>2
  <2>4. SeenEquals(h, seen1) /\ ~ SeenEquals(h, seen)  BY <1>9, <1>10, <1>18
  <2>5. BeforePair(h, parser, seen)  BY <1>4, <2>4 DEF AfterPair
  <2>6. seen # 0  BY <1>16, <1>18
  <2>7. BeforePair(h, parser', seen1)  BY <1>6, <2>2, <2>4, <2>5, <2>6 DEF BeforePair
  <2> QED  BY <1>4, <1>13, <2>2, <2>3, <2>7
<1>19. CASE c \in {"&", " "} /\ parser.value
  <2>1. PushTurn  BY <1>19, Kinds
  <2>2. /\ parser'.value = FALSE /\ parser'.urlFound = parser.urlFound /\ parser'.url = UrlNow
        /\ pairs' = Append(pairs, TheirPair)
    BY <2>1 DEF PushTurn, ParserAs
  <2>3. UrlRead'  BY <1>14, <2>2
  <2>4. BeforePair(h, parser, seen)  BY <1>4, <1>19 DEF AfterPair
  <2>5. SeenEquals(h, seen) /\ OfVersion(parser.keyString)  BY <1>19, <2>4 DEF BeforePair
  <2>6. AfterPair(h, parser', seen1)  BY <1>9, <2>2, <2>5 DEF AfterPair
  <2>7. TheirPair \in Pair /\ TheirPair.name = parser.keyString  BY <1>11 DEF TheirPair, Pair
  <2>8. Arrived(Append(pairs, TheirPair))
    <3> HIDE DEF TheirPair
    <3> QED  BY <1>2, <1>4, <2>5, <2>7, ArrivedAppend
  <2>9. Arrived(pairs')  BY <2>2, <2>8
  <2> QED  BY <1>13, <2>3, <2>6, <2>9
<1>20. CASE CharacterTurn
  <2>1. /\ parser'.key = parser.key /\ parser'.value = parser.value
        /\ parser'.urlFound = parser.urlFound /\ parser'.url = UrlNow /\ pairs' = pairs
    BY <1>20 DEF CharacterTurn, ParserAs
  <2>2. parser'.keyString = IF parser.key THEN Append(parser.keyString, c) ELSE parser.keyString
    BY <1>20 DEF CharacterTurn, ParserAs
  <2>3. UrlRead'  BY <1>14, <2>1
  <2>4. SeenEquals(h, seen1) <=> SeenEquals(h, seen)  BY <1>9, <1>20 DEF CharacterTurn
  <2>5. CASE AfterPair(h, parser, seen)
    <3>1. AfterPair(h, parser', seen1)  BY <2>1, <2>4, <2>5 DEF AfterPair
    <3> QED  BY <1>4, <1>13, <2>1, <2>3, <3>1
  <2>6. CASE BeforePair(h, parser, seen)
    <3>1. OfVersion(parser'.keyString)
      <4>1. CASE seen = 0
        <5>1. parser.key /\ parser.keyString = << >>  BY <2>6, <4>1 DEF BeforePair
        <5>2. c = "HTTP"  BY <1>16, <4>1
        <5>3. parser'.keyString = Append(<< >>, c)  BY <2>2, <5>1
        <5>4. Append(<< >>, c) # << >> /\ Append(<< >>, c)[1] = c
          <6>1. << >> \in Seq(Token) /\ Len(<< >>) = 0  BY EmptySeq
          <6>2. Append(<< >>, c) # << >> /\ Append(<< >>, c)[Len(<< >>) + 1] = c
            BY <1>8, <6>1, AppendProperties
          <6>3. Len(<< >>) + 1 = 1  BY <6>1
          <6> QED  BY <6>2, <6>3
        <5> QED  BY <5>2, <5>3, <5>4 DEF OfVersion
      <4>2. CASE seen # 0
        <5>1. OfVersion(parser.keyString)  BY <2>6, <4>2 DEF BeforePair
        <5>2. OfVersion(Append(parser.keyString, c))  BY <1>8, <1>11, <5>1, VersionAppend
        <5> QED  BY <2>2, <5>1, <5>2
      <4> QED  BY <4>1, <4>2
    <3>2. parser.value => SeenEquals(h, seen)  BY <2>6 DEF BeforePair
    <3>3. BeforePair(h, parser', seen1)  BY <1>6, <2>1, <2>4, <2>6, <3>1 DEF BeforePair
    <3> QED  BY <1>4, <1>13, <2>1, <2>3, <3>3
  <2> QED  BY <1>4, <2>5, <2>6
<1> QED  BY <1>12, <1>15, <1>17, <1>18, <1>19, <1>20

LEMMA PhaseTurn ==
  ASSUME TypeInv, WellFormed, ParserTurn, Phase,
         c = RequestText(request)[Taken + 1], Taken < Len(RequestText(request))
  PROVE  Phase'
BY EarlyTurn, NameTurn, ValueTurn, HeadersTurn DEF Phase

\* The request is cut off after n tokens, or ends there: what follows are zeros, which
\* end nothing.
Stopped(n) ==
  \/ IsPrefix(pairs, request.params) /\ n < HeadersAt(request)
  \/ UrlRead /\ Arrived(pairs)

Cut(n) == [m \in 1 .. BufferSize |-> IF m <= n THEN RequestText(request)[m] ELSE Nul]

ParserInv ==
  /\ pc = "read" => Early /\ parser.i = 1
  /\ pc = "parse" =>
       \E n \in 0 .. Len(RequestText(request)) :
         buffer = Cut(n) /\ ((Taken <= n /\ Phase) \/ (Taken >= n /\ Stopped(n)))
  /\ pc \notin {"read", "parse"} =>
       /\ pairs = TheirPairs \o OwnPairs
       /\ \/ IsPrefix(TheirPairs, request.params) /\ ~Whole
          \/ parser.url = Url(request) /\ Arrived(TheirPairs)

LEMMA ParamsTyped ==
  ASSUME TypeInv
  PROVE  /\ request \in RequestType /\ request.params \in Seq(Parameter)
         /\ pairs \in Seq(Parameter) /\ pairs \in Seq(Pair)
<1>1. pairs \in Seq(Pair) /\ request \in RequestType
  BY RequestTyped DEF TypeInv, TypeOK
<1>2. Pair \subseteq Parameter  BY DEF Parameter
<1> QED  BY <1>1, <1>2, SeqMonotonic DEF RequestType

LEMMA PhaseStopped ==
  ASSUME TypeInv, WellFormed, Phase
  PROVE  Stopped(Taken)
<1> DEFINE ps == request.params
           K == Len(ps)
<1>1. /\ request \in RequestType /\ Values(request) /\ ps \in Seq(Parameter) /\ K \in Nat
  BY WellFormedText
<1>2. Taken \in Nat
  <2>1. parser \in ParserState  BY DEF TypeInv, TypeOK
  <2> QED  BY <2>1, NumberAssumption DEF ParserState, Taken
<1>3. CASE Early
  <2>1. pairs = << >> /\ Taken <= Len(Path(request))  BY <1>3 DEF Early
  <2>2. /\ Len(Path(request)) < HeadersAt(request)
        /\ Len(Path(request)) \in Nat /\ HeadersAt(request) \in Nat
    BY <1>1, Between
  <2>3. IsPrefix(<< >>, ps)
    <3>1. << >> \in Seq(Parameter) /\ Len(<< >>) = 0  BY EmptySeq
    <3>2. Len(<< >>) <= Len(ps) /\ \A i \in 1 .. Len(<< >>) : FALSE  BY <1>1, <3>1
    <3> QED  BY <1>1, <3>1, <3>2, PrefixAt
  <2>4. Taken < HeadersAt(request)  BY <1>2, <2>1, <2>2
  <2> QED  BY <2>1, <2>3, <2>4 DEF Stopped
<1>4. ASSUME NEW k \in 1 .. K, InName(k) \/ InValue(k) PROVE Stopped(Taken)
  <2>1. pairs = SubSeq(ps, 1, k - 1)  BY <1>4 DEF InName, InValue
  <2>2. k - 1 \in 0 .. Len(ps)  BY <1>1
  <2>3. IsPrefix(pairs, ps)
    <3> DEFINE j == k - 1
    <3>1. j \in 0 .. Len(ps) /\ pairs = SubSeq(ps, 1, j)  BY <2>1, <2>2
    <3> HIDE DEF j
    <3> QED  BY <1>1, <3>1, PrefixSub
  <2>4. Taken < HeadersAt(request)
    <3> DEFINE n == Len(ps[k].name)
               v == Len(ps[k].value)
    <3>1. /\ n \in Nat /\ v \in Nat /\ Start(request, k) \in Nat
          /\ Middle(request, k) = Start(request, k) + n
          /\ End(request, k) = Middle(request, k) + 1 + v
          /\ End(request, k) < HeadersAt(request)
      BY ParameterAt
    <3>2. Taken <= Middle(request, k) \/ Taken <= End(request, k)
      BY <1>4 DEF InName, InValue
    <3>3. HeadersAt(request) \in Nat  BY <1>1, Between
    <3> HIDE DEF n, v
    <3> QED  BY <1>2, <3>1, <3>2, <3>3
  <2> QED  BY <2>3, <2>4 DEF Stopped
<1>5. CASE UrlRead /\ InHeaders
  BY <1>5 DEF Stopped, InHeaders
<1> QED  BY <1>3, <1>4, <1>5 DEF Phase

\* What the buffer holds where the parser looks.
LEMMA CutAt ==
  ASSUME TypeInv, NEW n \in 0 .. Len(RequestText(request)), buffer = Cut(n),
         parser.i <= BufferSize
  PROVE  c = IF Taken < n THEN RequestText(request)[Taken + 1] ELSE Nul
<1>1. parser \in ParserState  BY DEF TypeInv, TypeOK
<1>2. parser.i \in 1 .. BufferSize /\ Taken + 1 = parser.i /\ (Taken < n <=> parser.i <= n)
  <2>1. RequestText(request) \in Text  BY RequestTyped DEF TypeInv, TypeOK
  <2>2. Len(RequestText(request)) \in Nat  BY <2>1 DEF Text
  <2> HIDE DEF RequestText
  <2> QED  BY <1>1, <2>2, NumberAssumption DEF ParserState, Taken
<1>3. c = IF parser.i <= n THEN RequestText(request)[parser.i] ELSE Nul
  BY <1>2 DEF c, Cut
<1> QED  BY <1>2, <1>3

\* A zero is a character like others, and of those the parser keeps the URL no longer.
LEMMA StoppedTurn ==
  ASSUME TypeInv, ParserTurn, c = Nul, NEW n, Stopped(n)
  PROVE  Stopped(n)'
<1>1. c \notin {" ", "?", "=", "&"}  BY TextAssumption DEF Separator
<1>2. CharacterTurn /\ request' = request  BY <1>1, Kinds
<1>3. /\ parser'.urlFound = parser.urlFound /\ pairs' = pairs
      /\ parser'.url = IF parser.urlFound = 1 THEN Append(parser.url, c) ELSE parser.url
  BY <1>2 DEF CharacterTurn, ParserAs, UrlNow
<1>4. UrlRead => UrlRead'
  <2>1. parser.urlFound \in Nat  BY DEF TypeInv, TypeOK, ParserState
  <2> QED  BY <1>2, <1>3, <2>1 DEF UrlRead
<1>5. Arrived(pairs) => Arrived(pairs)'  BY <1>2, <1>3 DEF Arrived
<1> QED  BY <1>2, <1>3, <1>4, <1>5 DEF Stopped

LEMMA ParserInit ==
  ASSUME Init
  PROVE  WellFormed => ParserInv
<1> SUFFICES ASSUME WellFormed PROVE Early /\ parser.i = 1
  BY DEF Init, ParserInv
<1>1. TypeInv  BY TypeInit
<1>2. request \in RequestType  BY <1>1, WellFormedText
<1>3. /\ pairs = << >> /\ parser.i = 1 /\ parser.key = FALSE /\ parser.value = FALSE
      /\ parser.urlFound = 0 /\ parser.keyString = << >> /\ parser.valueString = << >>
      /\ parser.url = << >>
  BY DEF Init
<1>4. Taken = 0  BY <1>3 DEF Taken
<1>5. Len(Path(request)) >= 6
  <2>1. Len(Path(request)) = Len(request.pass) + 6 /\ Len(request.pass) \in Nat
    BY <1>2, PathText
  <2> HIDE DEF Path
  <2> QED  BY <2>1
<1>6. SubSeq(Path(request), 3, 0) = << >>  BY SubSeqEmpty
<1> QED  BY <1>3, <1>4, <1>5, <1>6 DEF Early

LEMMA ReadParser ==
  ASSUME TypeInv, WellFormed, ParserInv, NEW n \in 0 .. Len(RequestText(request)), Read(n)
  PROVE  ParserInv'
<1>1. /\ pc = "read" /\ pc' = "parse" /\ buffer' = Cut(n)
      /\ UNCHANGED <<request, parser, pairs, x, info>>
  BY DEF Read, Cut
<1>2. Early /\ parser.i = 1  BY <1>1 DEF ParserInv
<1>3. Phase'  BY <1>1, <1>2 DEF Phase, Early, Taken
<1>4. Cut(n)' = Cut(n)  BY <1>1 DEF Cut
<1>5. Taken' <= n  BY <1>1, <1>2 DEF Taken
<1>6. RequestText(request') = RequestText(request)  BY <1>1
<1> QED  BY <1>1, <1>3, <1>4, <1>5, <1>6 DEF ParserInv

LEMMA TurnParser ==
  ASSUME TypeInv, WellFormed, ParserInv, ParserTurn
  PROVE  ParserInv'
<1> DEFINE T == RequestText(request)
<1>1. /\ pc = "parse" /\ pc' = pc /\ request' = request /\ buffer' = buffer
      /\ Taken \in Nat /\ Taken' = Taken + 1 /\ parser.i <= BufferSize
  BY Kinds
<1>2. PICK n \in 0 .. Len(T) :
        buffer = Cut(n) /\ ((Taken <= n /\ Phase) \/ (Taken >= n /\ Stopped(n)))
  BY <1>1 DEF ParserInv
<1>3. c = IF Taken < n THEN T[Taken + 1] ELSE Nul  BY <1>1, <1>2, CutAt
<1>4. Len(T) \in Nat
  <2>1. T \in Text  BY RequestTyped DEF TypeInv, TypeOK
  <2> HIDE DEF T
  <2> QED  BY <2>1 DEF Text
<1> HIDE DEF T
<1>5. n \in Nat /\ n <= Len(T)  BY <1>4
<1>6. (Taken' <= n /\ Phase') \/ (Taken' >= n /\ Stopped(n)')
  <2>1. CASE Taken < n /\ Phase
    <3>1. c = T[Taken + 1] /\ Taken < Len(T)  BY <1>1, <1>3, <1>4, <1>5, <2>1
    <3>2. Phase'  BY <2>1, <3>1, PhaseTurn DEF T
    <3> QED  BY <1>1, <1>5, <2>1, <3>2
  <2>2. CASE Taken >= n /\ Stopped(n)
    <3>1. c = Nul  BY <1>1, <1>3, <1>5, <2>2
    <3>2. Stopped(n)'  BY <2>2, <3>1, StoppedTurn
    <3> QED  BY <1>1, <1>5, <2>2, <3>2
  <2>3. CASE Taken = n /\ Phase
    <3>1. Stopped(n)  BY <2>3, PhaseStopped
    <3> QED  BY <1>5, <2>2, <2>3, <3>1
  <2> QED  BY <1>1, <1>2, <1>5, <2>1, <2>2, <2>3
<1>7. Cut(n)' = Cut(n)  BY <1>1 DEF Cut
<1>8. RequestText(request') = T  BY <1>1 DEF T
<1> QED  BY <1>1, <1>2, <1>6, <1>7, <1>8 DEF ParserInv

\* At the end of the buffer the request is over, or it is not whole.
LEMMA BufferEnds ==
  ASSUME TypeInv, WellFormed, ParserInv, pc = "parse", parser.i > BufferSize
  PROVE  \/ IsPrefix(pairs, request.params) /\ ~Whole
         \/ parser.url = Url(request) /\ Arrived(pairs)
<1> DEFINE T == RequestText(request)
           H == HeadersAt(request)
<1>1. PICK n \in 0 .. Len(T) :
        buffer = Cut(n) /\ ((Taken <= n /\ Phase) \/ (Taken >= n /\ Stopped(n)))
  BY DEF ParserInv
<1>2. /\ request \in RequestType /\ Values(request) /\ T \in Seq(Token)
      /\ buffer \in Seq(Token) /\ Len(buffer) = BufferSize
  <2>1. request \in RequestType /\ Values(request)  BY WellFormedText
  <2>2. T \in Text /\ buffer \in Text  BY <2>1, RequestTextParts DEF TypeInv, TypeOK
  <2> HIDE DEF T
  <2> QED  BY <2>1, <2>2 DEF TypeInv, Text
<1>3. H \in Nat /\ H >= 1  BY <1>2, Between
<1>4. T[H] = " " /\ Len(T) = H + Len(request.headers) /\ Len(request.headers) \in Nat
  BY <1>2, RequestTextParts
<1>5. Taken = BufferSize /\ BufferSize \in Nat
  <2>1. parser \in ParserState  BY DEF TypeInv, TypeOK
  <2> QED  BY <2>1, NumberAssumption DEF ParserState, Taken
<1>6. \A m \in 1 .. BufferSize : buffer[m] = IF m <= n THEN T[m] ELSE Nul
  BY <1>1 DEF Cut
<1> HIDE DEF T, H
<1>7. Whole => H <= BufferSize /\ buffer[H] = " "
  <2> SUFFICES ASSUME Whole PROVE H <= BufferSize /\ buffer[H] = " "
    OBVIOUS
  <2>1. IsPrefix(T, buffer)  BY DEF Whole, T
  <2>2. Len(T) <= Len(buffer) /\ \A i \in 1 .. Len(T) : T[i] = buffer[i]
    BY <1>2, <2>1, PrefixAt
  <2>3. H \in 1 .. Len(T) /\ Len(T) \in Nat
    <3> DEFINE l == Len(request.headers)
    <3>1. Len(T) = H + l /\ l \in Nat  BY <1>4
    <3> HIDE DEF l
    <3> QED  BY <1>3, <3>1
  <2>4. buffer[H] = T[H]  BY <2>2, <2>3
  <2>5. H <= BufferSize  BY <1>2, <1>5, <2>2, <2>3
  <2> QED  BY <1>4, <2>4, <2>5
<1>8. Whole => H <= n
  <2> SUFFICES ASSUME Whole, ~ (H <= n) PROVE FALSE
    OBVIOUS
  <2>1. H <= BufferSize  BY <1>7
  <2>2. BufferSize \in Nat  BY <1>5
  <2>3. H \in 1 .. BufferSize  BY <1>3, <2>1, <2>2
  <2>4. buffer[H] = Nul  BY <1>6, <2>3
  <2>5. buffer[H] = " "  BY <1>7
  <2> QED  BY <2>4, <2>5, TextAssumption DEF Separator
<1>9. Stopped(n) \/ (Taken <= n /\ Stopped(Taken))
  BY <1>1, PhaseStopped
<1>10. n \in Nat
  <2>1. Len(T) \in Nat  BY <1>2
  <2> QED  BY <2>1 DEF T
<1>11. CASE UrlRead /\ Arrived(pairs)  BY <1>11 DEF UrlRead
<1>12. CASE IsPrefix(pairs, request.params) /\ n < H
  <2>1. ~Whole  BY <1>3, <1>8, <1>10, <1>12
  <2> QED  BY <1>12, <2>1
<1>13. CASE IsPrefix(pairs, request.params) /\ Taken < H
  <2>1. ~ (H <= BufferSize)
    <3>1. BufferSize < H  BY <1>5, <1>13 DEF H
    <3>2. BufferSize \in Nat  BY <1>5
    <3> QED  BY <1>3, <3>1, <3>2
  <2>2. ~Whole  BY <1>7, <2>1
  <2> QED  BY <1>13, <2>2
<1> QED  BY <1>9, <1>11, <1>12, <1>13 DEF Stopped, H

LEMMA EndParser ==
  ASSUME TypeInv, WellFormed, ParserInv, EndParse
  PROVE  ParserInv'
<1>1. /\ pc = "parse" /\ parser.i > BufferSize /\ pc' = "insert"
      /\ pairs' = pairs \o OwnPairs
      /\ UNCHANGED <<request, buffer, parser, x, info>>
  BY DEF EndParse
<1>2. pairs \in Seq(Pair)  BY ParamsTyped
<1>3. OwnPairs \in Seq(Pair) /\ Len(OwnPairs) = 3  BY OwnPairsType
<1>4. Len(pairs') - 3 = Len(pairs)
  <2>1. Len(pairs \o OwnPairs) = Len(pairs) + Len(OwnPairs)  BY <1>2, <1>3, ConcatProperties
  <2>2. Len(pairs) \in Nat  BY <1>2
  <2>3. Len(OwnPairs) = 3  BY <1>3
  <2> QED  BY <1>1, <2>1, <2>2, <2>3
<1>5. SubSeq(pairs \o OwnPairs, 1, Len(pairs)) = pairs  BY <1>2, <1>3, ConcatFront
<1>6. TheirPairs' = pairs
  <2>1. TheirPairs' = SubSeq(pairs', 1, Len(pairs') - 3)  BY <1>1 DEF TheirPairs
  <2> QED  BY <1>1, <1>4, <1>5, <2>1
<1>7. OwnPairs' = OwnPairs  BY <1>1 DEF OwnPairs
<1>8. \/ IsPrefix(pairs, request.params) /\ ~Whole
      \/ parser.url = Url(request) /\ Arrived(pairs)
  BY <1>1, BufferEnds
<1>9. Whole' <=> Whole  BY <1>1 DEF Whole
<1>10. pairs' = TheirPairs' \o OwnPairs'  BY <1>1, <1>6, <1>7
<1>11. Arrived(pairs) => Arrived(TheirPairs)'  BY <1>1, <1>6 DEF Arrived
<1>12. \/ IsPrefix(TheirPairs', request'.params) /\ ~Whole'
       \/ parser'.url = Url(request') /\ Arrived(TheirPairs)'
  BY <1>1, <1>6, <1>8, <1>9, <1>11
<1> QED  BY <1>1, <1>10, <1>12 DEF ParserInv

\* The second loop leaves alone what the first has made.
LEMMA ParserKept ==
  ASSUME ParserInv, pc \notin {"read", "parse"}, pc' \notin {"read", "parse"},
         request' = request, buffer' = buffer, parser' = parser, pairs' = pairs
  PROVE  ParserInv'
<1>1. TheirPairs' = TheirPairs  BY DEF TheirPairs
<1>2. OwnPairs' = OwnPairs /\ (Whole' <=> Whole)  BY DEF OwnPairs, Whole
<1>3. Arrived(TheirPairs) => Arrived(TheirPairs)'  BY <1>1 DEF Arrived
<1>4. /\ pairs = TheirPairs \o OwnPairs
      /\ \/ IsPrefix(TheirPairs, request.params) /\ ~Whole
         \/ parser.url = Url(request) /\ Arrived(TheirPairs)
  BY DEF ParserInv
<1> QED  BY <1>1, <1>2, <1>3, <1>4 DEF ParserInv

LEMMA ParserStep ==
  ASSUME TypeInv, WellFormed => ParserInv, [Next]_vars
  PROVE  (WellFormed => ParserInv)'
<1>1. request' = request
  <2>1. ParserTurn => request' = request  BY Kinds
  <2> QED
    BY <2>1 DEF Next, ParserTurn, Read, EndParse, InsertPair, NewAnnounceInfo, Parsed, vars
<1>2. WellFormed' <=> WellFormed  BY <1>1 DEF WellFormed
<1> SUFFICES ASSUME WellFormed, ParserInv PROVE ParserInv'
  BY <1>2
<1>3. ASSUME NEW n \in 0 .. Len(RequestText(request)), Read(n) PROVE ParserInv'
  BY <1>3, ReadParser
<1>4. CASE ParserTurn  BY <1>4, TurnParser
<1>5. CASE EndParse  BY <1>5, EndParser
<1>6. CASE InsertPair
  <2>1. pc = "insert" /\ UNCHANGED <<request, buffer, parser, pairs>>  BY <1>6 DEF InsertPair
  <2>2. pc' \notin {"read", "parse"}
    <3>1. pc' \in {"insert", "threw"}
      BY <1>6, <2>1 DEF InsertPair, Take, NumberField
    <3> QED  BY <3>1
  <2> QED  BY <2>1, <2>2, ParserKept
<1>7. CASE NewAnnounceInfo  BY <1>7, ParserKept DEF NewAnnounceInfo
<1>8. CASE Parsed \/ UNCHANGED vars
  <2>1. UNCHANGED vars  BY <1>8 DEF Parsed
  <2>2. CASE pc \in {"read", "parse"}
    <3>1. UNCHANGED <<request, pc, buffer, parser, pairs>>  BY <2>1 DEF vars
    <3> QED
      BY <2>2, <3>1 DEF ParserInv, Early, Phase, InName, InValue, UrlRead, InHeaders, Arrived,
                        Stopped, Cut, Taken
  <2>3. CASE pc \notin {"read", "parse"}
    BY <2>1, <2>3, ParserKept DEF vars
  <2> QED  BY <2>2, <2>3
<1> QED  BY <1>3, <1>4, <1>5, <1>6, <1>7, <1>8 DEF Next, ParserTurn

\* The parser is always at the place its text says, if the request is well-formed.
LEMMA ParserAlways == Spec => [](TypeInv /\ (WellFormed => ParserInv))
<1> DEFINE Inv == TypeInv /\ (WellFormed => ParserInv)
<1>1. Init => Inv  BY TypeInit, ParserInit
<1>2. Inv /\ [Next]_vars => Inv'
  <2> SUFFICES ASSUME Inv, [Next]_vars PROVE Inv'
    OBVIOUS
  <2>1. TypeInv'  BY TypeStep
  <2>2. (WellFormed => ParserInv)'  BY ParserStep
  <2> QED  BY <2>1, <2>2
<1> QED  BY <1>1, <1>2, PTL DEF Spec

\* Wherever read() cuts a well-formed request off, what the parser has made of it is
\* a prefix of its parameters, or all of them and pairs of the headers behind them;
\* all of them if the request is whole.
THEOREM ParametersCorrect == Spec => []ParametersWhole
<1>1. ASSUME TypeInv, WellFormed => ParserInv PROVE ParametersWhole
  <2> SUFFICES ASSUME WellFormed, ParserInv
               PROVE  /\ IsPrefix(TheirPairs, request.params) \/ IsPrefix(request.params, TheirPairs)
                      /\ pc \notin {"read", "parse"} /\ Whole => IsPrefix(request.params, TheirPairs)
    BY <1>1 DEF ParametersWhole
  <2>1. CASE pc \in {"read", "parse"}
    <3>1. TheirPairs = pairs  BY <2>1 DEF TheirPairs
    <3>2. \E n : Stopped(n)
      <4>1. Phase => Stopped(Taken)  BY <1>1, PhaseStopped
      <4>2. CASE pc = "read"
        <5>1. Phase  BY <4>2 DEF ParserInv, Phase
        <5> QED  BY <4>1, <5>1
      <4>3. CASE pc = "parse"  BY <4>1, <4>3 DEF ParserInv
      <4> QED  BY <2>1, <4>2, <4>3
    <3>3. IsPrefix(pairs, request.params) \/ IsPrefix(request.params, pairs)
      BY <3>2 DEF Stopped, Arrived
    <3> QED  BY <2>1, <3>1, <3>3
  <2>2. CASE pc \notin {"read", "parse"}
    BY <2>2 DEF ParserInv, Arrived
  <2> QED  BY <2>1, <2>2
<1> QED  BY <1>1, ParserAlways, PTL

----------------------------------------------------------------------------
\* What insertClientInfo has taken from a pair: each field is of the last pair of its
\* name so far.
Taking(i, p) ==
  /\ p.name = <<"peer_id">> => i.peerId = p.value
  /\ p.name = <<"event">> => i.event = parseEventString(p.value)
  /\ p.name = <<"port">> => i.port \in stoi(p.value)
  /\ p.name = <<"urlKey">> => i.torrentPass = p.value
  /\ p.name = <<"info_hash">> => \E beyond \in Token : i.infoHash = decode(p.value, beyond)
  /\ \A f \in NumberField : p.name = <<f>> => i[f] \in {uint64(n) : n \in stoll(p.value)}

NoNumber(p) ==
  \/ p.name = <<"port">> /\ stoi(p.value) = {}
  \/ \E f \in NumberField : p.name = <<f>> /\ stoll(p.value) = {}

InfoInv ==
  /\ pc \in {"read", "parse"} => x = 1
  /\ pc \in {"insert", "done"} =>
       \A n \in 1 .. x - 1 :
         (\A m \in n + 1 .. x - 1 : pairs[m].name # pairs[n].name) => Taking(info, pairs[n])
  /\ pc = "done" => x = Len(pairs) + 1
  /\ pc = "threw" => \E n \in 1 .. Len(pairs) : NoNumber(pairs[n])

LEMMA InsertedFields ==
  ASSUME TypeInv, InsertPair, pc' # "threw"
  PROVE  LET name  == pairs[x].name
             value == pairs[x].value
         IN  /\ info'.peerId = IF name = <<"peer_id">> THEN value ELSE info.peerId
             /\ info'.event = IF name = <<"event">> THEN parseEventString(value) ELSE info.event
             /\ IF name = <<"port">> THEN info'.port \in stoi(value) ELSE info'.port = info.port
             /\ info'.torrentPass = IF name = <<"urlKey">> THEN value ELSE info.torrentPass
             /\ IF name = <<"info_hash">>
                THEN \E beyond \in Token : info'.infoHash = decode(value, beyond)
                ELSE info'.infoHash = info.infoHash
             /\ \A f \in NumberField :
                  IF name = <<f>> THEN info'[f] \in {uint64(n) : n \in stoll(value)}
                  ELSE info'[f] = info[f]
<1> DEFINE name  == pairs[x].name
           value == pairs[x].value
           Same(f) == info'[f] = info[f]
<1>1. info \in AnnounceInfo  BY DEF TypeInv, TypeOK
<1>2. CASE name = <<"ip">>
  <2>1. info' = [info EXCEPT !.ipa = value]  BY <1>2 DEF InsertPair, Take, NumberField
  <2>2. Same("peerId") /\ Same("event") /\ Same("port") /\ Same("torrentPass")
        /\ Same("infoHash") /\ Same("downloaded") /\ Same("left") /\ Same("uploaded")
    BY <1>1, <2>1 DEF AnnounceInfo
  <2> QED  BY <1>2, <2>2 DEF NumberField
<1>3. CASE name = <<"port">>
  <2>1. PICK n \in stoi(value) : info' = [info EXCEPT !["port"] = n]
    BY <1>3 DEF InsertPair, Take, NumberField
  <2>2. Same("peerId") /\ Same("event") /\ info'.port = n /\ Same("torrentPass")
        /\ Same("infoHash") /\ Same("downloaded") /\ Same("left") /\ Same("uploaded")
    BY <1>1, <2>1 DEF AnnounceInfo
  <2> QED  BY <1>3, <2>2 DEF NumberField
<1>4. CASE name = <<"event">>
  <2>1. info' = [info EXCEPT !.event = parseEventString(value)]
    BY <1>4 DEF InsertPair, Take, NumberField
  <2>2. Same("peerId") /\ info'.event = parseEventString(value) /\ Same("port")
        /\ Same("torrentPass") /\ Same("infoHash")
        /\ Same("downloaded") /\ Same("left") /\ Same("uploaded")
    BY <1>1, <2>1 DEF AnnounceInfo
  <2> QED  BY <1>4, <2>2 DEF NumberField
<1>5. CASE name = <<"info_hash">>
  <2>1. PICK beyond \in Token : info' = [info EXCEPT !.infoHash = decode(value, beyond)]
    BY <1>5 DEF InsertPair, Take, NumberField
  <2>2. Same("peerId") /\ Same("event") /\ Same("port") /\ Same("torrentPass")
        /\ info'.infoHash = decode(value, beyond)
        /\ Same("downloaded") /\ Same("left") /\ Same("uploaded")
    BY <1>1, <2>1 DEF AnnounceInfo
  <2> QED  BY <1>5, <2>2 DEF NumberField
<1>6. CASE name = <<"peer_id">>
  <2>1. info' = [info EXCEPT !.peerId = value]  BY <1>6 DEF InsertPair, Take, NumberField
  <2>2. info'.peerId = value /\ Same("event") /\ Same("port") /\ Same("torrentPass")
        /\ Same("infoHash") /\ Same("downloaded") /\ Same("left") /\ Same("uploaded")
    BY <1>1, <2>1 DEF AnnounceInfo
  <2> QED  BY <1>6, <2>2 DEF NumberField
<1>7. CASE name = <<"urlKey">>
  <2>1. info' = [info EXCEPT !.torrentPass = value]  BY <1>7 DEF InsertPair, Take, NumberField
  <2>2. Same("peerId") /\ Same("event") /\ Same("port") /\ info'.torrentPass = value
        /\ Same("infoHash") /\ Same("downloaded") /\ Same("left") /\ Same("uploaded")
    BY <1>1, <2>1 DEF AnnounceInfo
  <2> QED  BY <1>7, <2>2 DEF NumberField
<1>8. CASE \E f \in NumberField : name = <<f>>
  <2>1. PICK f \in NumberField : name = <<f>>  BY <1>8
  <2>2. name[1] = f /\ f \in {"downloaded", "left", "uploaded"}  BY <2>1 DEF NumberField
  <2>3. PICK n \in {uint64(m) : m \in stoll(value)} : info' = [info EXCEPT ![f] = n]
    BY <2>1, <2>2 DEF InsertPair, Take, NumberField
  <2>4. /\ Same("peerId") /\ Same("event") /\ Same("port") /\ Same("torrentPass") /\ Same("infoHash")
        /\ info'[f] = n /\ \A g \in NumberField \ {f} : Same(g)
    BY <1>1, <2>2, <2>3 DEF AnnounceInfo, NumberField
  <2>5. \A g \in NumberField : name = <<g>> => g = f  BY <2>2
  <2>6. name \notin {<<"port">>, <<"event">>, <<"info_hash">>, <<"peer_id">>, <<"urlKey">>}
    BY <2>2
  <2> QED  BY <2>1, <2>3, <2>4, <2>5, <2>6
<1>9. CASE /\ name \notin {<<"ip">>, <<"port">>, <<"event">>, <<"info_hash">>, <<"peer_id">>, <<"urlKey">>}
           /\ ~ \E f \in NumberField : name = <<f>>
  <2>1. info' = info  BY <1>9 DEF InsertPair, Take, NumberField
  <2> QED  BY <1>9, <2>1
<1> QED  BY <1>2, <1>3, <1>4, <1>5, <1>6, <1>7, <1>8, <1>9

LEMMA InsertPairInfo ==
  ASSUME TypeInv, InfoInv, InsertPair
  PROVE  InfoInv'
<1>1. /\ pc = "insert" /\ x <= Len(pairs) /\ x' = x + 1 /\ pairs' = pairs
      /\ Len(pairs) \in Nat /\ x \in 1 .. Len(pairs) + 1
  BY DEF InsertPair, TypeInv, TypeOK
<1>2. pc' \in {"insert", "threw"}
  BY <1>1 DEF InsertPair, Take, NumberField
<1>3. CASE pc' = "threw"
  <2>1. NoNumber(pairs[x])
    <3>1. CASE pairs[x].name = <<"port">>
      <4>1. stoi(pairs[x].value) = {}
        BY <1>1, <1>3, <3>1 DEF InsertPair, Take, NumberField
      <4> QED  BY <3>1, <4>1 DEF NoNumber
    <3>2. CASE \E f \in NumberField : pairs[x].name = <<f>>
      <4>1. PICK f \in NumberField : pairs[x].name = <<f>>  BY <3>2
      <4>2. {uint64(n) : n \in stoll(pairs[x].value)} = {}
        BY <1>1, <1>3, <4>1 DEF InsertPair, Take, NumberField
      <4>3. stoll(pairs[x].value) = {}  BY <4>2
      <4> QED  BY <4>1, <4>3 DEF NoNumber
    <3>3. CASE pairs[x].name # <<"port">> /\ ~ \E f \in NumberField : pairs[x].name = <<f>>
      BY <1>1, <1>3, <3>3 DEF InsertPair, Take, NumberField
    <3> QED  BY <3>1, <3>2, <3>3
  <2>2. x \in 1 .. Len(pairs')  BY <1>1
  <2> QED  BY <1>1, <1>3, <2>1, <2>2 DEF InfoInv, NoNumber
<1>4. CASE pc' = "insert"
  <2>1. Taking(info', pairs[x])  BY <1>4, InsertedFields DEF Taking
  <2>2. ASSUME NEW p, Taking(info, p), p.name # pairs[x].name PROVE Taking(info', p)
    BY <1>4, <2>2, InsertedFields DEF Taking
  <2>3. ASSUME NEW n \in 1 .. x' - 1,
               \A m \in n + 1 .. x' - 1 : pairs[m].name # pairs[n].name
        PROVE  Taking(info', pairs[n])
    <3>1. CASE n = x  BY <2>1, <3>1
    <3>2. CASE n # x
      <4>1. n \in 1 .. x - 1 /\ x \in n + 1 .. x' - 1 /\ x' - 1 = x  BY <1>1, <3>2
      <4>2. \A m \in n + 1 .. x - 1 : m \in n + 1 .. x' - 1  BY <1>1, <4>1
      <4>3. pairs[x].name # pairs[n].name  BY <2>3, <4>1
      <4>4. Taking(info, pairs[n])  BY <1>1, <2>3, <4>1, <4>2 DEF InfoInv
      <4> QED  BY <2>2, <4>3, <4>4
    <3> QED  BY <3>1, <3>2
  <2> QED  BY <1>1, <1>4, <2>3 DEF InfoInv
<1> QED  BY <1>2, <1>3, <1>4

LEMMA InfoStep ==
  ASSUME TypeInv, InfoInv, [Next]_vars
  PROVE  InfoInv'
<1>1. ASSUME NEW n \in 0 .. Len(RequestText(request)), Read(n) PROVE InfoInv'
  BY <1>1 DEF Read, InfoInv
<1>2. CASE ParserTurn
  <2>1. pc = "parse" /\ pc' = pc /\ x' = x  BY <1>2, Kinds
  <2> QED  BY <2>1 DEF InfoInv
<1>3. CASE EndParse
  <2>1. pc' = "insert" /\ x' = 1  BY <1>3 DEF EndParse, InfoInv
  <2>2. \A n \in 1 .. x' - 1 : FALSE  BY <2>1
  <2> QED  BY <2>1, <2>2 DEF InfoInv
<1>4. CASE NewAnnounceInfo
  <2>1. /\ pc = "insert" /\ pc' = "done" /\ x > Len(pairs)
        /\ UNCHANGED <<pairs, x, info>>
    BY <1>4 DEF NewAnnounceInfo
  <2>2. x \in 1 .. Len(pairs) + 1 /\ Len(pairs) \in Nat  BY DEF TypeInv, TypeOK
  <2>3. x = Len(pairs) + 1  BY <2>1, <2>2
  <2> QED  BY <2>1, <2>3 DEF InfoInv
<1>5. CASE Parsed \/ UNCHANGED vars
  BY <1>5 DEF Parsed, vars, InfoInv
<1> QED  BY <1>1, <1>2, <1>3, <1>4, <1>5, InsertPairInfo DEF Next, ParserTurn

LEMMA InfoAlways == Spec => [](TypeInv /\ (WellFormed => ParserInv) /\ InfoInv)
<1>1. Init => InfoInv  BY DEF Init, InfoInv
<1>2. TypeInv /\ InfoInv /\ [Next]_vars => InfoInv'  BY InfoStep
<1> QED  BY <1>1, <1>2, ParserAlways, PTL DEF Spec

\* Behind the client's parameters come at most a pair of its headers and the three
\* own ones.
LEMMA PairsAre ==
  ASSUME TypeInv, WellFormed, ParserInv, pc \notin {"read", "parse"}
  PROVE  LET K == Len(request.params)
             T == Len(TheirPairs)
         IN  /\ K \in Nat /\ T \in Nat /\ Len(pairs) = T + 3 /\ DOMAIN request.params = 1 .. K
             /\ \A n \in 1 .. T : n <= K => pairs[n] = request.params[n]
             /\ \A n \in 1 .. T : n > K => OfVersion(pairs[n].name)
             /\ pairs[T + 1].name = <<"url">>
             /\ pairs[T + 2] = [name |-> <<"urlKey">>, value |-> getKeyFromURL(parser.url)]
             /\ pairs[T + 3].name = <<"ip">>
             /\ Whole => K <= T /\ parser.url = Url(request)
<1> DEFINE ps == request.params
           theirs == TheirPairs
           own == OwnPairs
           K == Len(ps)
           T == Len(theirs)
<1>1. /\ ps \in Seq(Parameter) /\ pairs \in Seq(Parameter) /\ Len(ps) \in Nat /\ Len(pairs) \in Nat
      /\ DOMAIN ps = 1 .. Len(ps)
  <2>1. ps \in Seq(Parameter) /\ pairs \in Seq(Parameter)  BY ParamsTyped
  <2> QED  BY <2>1, LenProperties
<1>2. own \in Seq(Parameter) /\ Len(own) = 3
  <2>1. own \in Seq(Pair) /\ Len(own) = 3  BY OwnPairsType
  <2>2. Pair \subseteq Parameter  BY DEF Parameter
  <2> QED  BY <2>1, <2>2, SeqMonotonic
<1>3. theirs \in Seq(Parameter)
  <2> DEFINE m == Len(pairs) - 3
  <2>1. m \in Int /\ m <= Len(pairs)  BY <1>1
  <2>2. theirs = SubSeq(pairs, 1, m)  BY DEF TheirPairs
  <2>3. \A i \in 1 .. m : pairs[i] \in Parameter
    <3>1. \A i \in 1 .. m : i \in 1 .. Len(pairs)  BY <1>1, <2>1
    <3> QED  BY <1>1, <3>1, ElementOfSeq
  <2> HIDE DEF m, theirs
  <2> QED  BY <2>1, <2>2, <2>3, SubSeqProperties
<1>4. /\ pairs = theirs \o own
      /\ \/ IsPrefix(theirs, ps) /\ ~Whole
         \/ parser.url = Url(request) /\ IsPrefix(ps, theirs)
            /\ \A n \in K + 1 .. T : OfVersion(theirs[n].name)
  BY DEF ParserInv, Arrived
<1>5. /\ own[1].name = <<"url">>
      /\ own[2] = [name |-> <<"urlKey">>, value |-> getKeyFromURL(parser.url)]
      /\ own[3].name = <<"ip">>
  BY DEF OwnPairs
<1> HIDE DEF ps, theirs, own
<1>6. /\ T \in Nat /\ K \in Nat /\ Len(theirs \o own) = T + Len(own)
      /\ \A n \in 1 .. T : (theirs \o own)[n] = theirs[n]
      /\ \A n \in 1 .. Len(own) : (theirs \o own)[T + n] = own[n]
  <2>1. own \in Seq(Parameter)  BY <1>2
  <2>2. /\ Len(theirs) \in Nat /\ Len(theirs \o own) = Len(theirs) + Len(own)
        /\ \A n \in 1 .. Len(theirs) : (theirs \o own)[n] = theirs[n]
        /\ \A n \in 1 .. Len(own) : (theirs \o own)[Len(theirs) + n] = own[n]
    BY <1>3, <2>1, ConcatAt
  <2>3. Len(ps) \in Nat  BY <1>1
  <2> QED  BY <2>2, <2>3
<1>7. /\ Len(pairs) = T + 3 /\ \A n \in 1 .. T : pairs[n] = theirs[n]
      /\ pairs[T + 1] = own[1] /\ pairs[T + 2] = own[2] /\ pairs[T + 3] = own[3]
  BY <1>2, <1>4, <1>6
<1>8. /\ \A n \in 1 .. T : n <= K => theirs[n] = ps[n]
      /\ \A n \in 1 .. T : n > K => OfVersion(theirs[n].name)
      /\ Whole => K <= T /\ parser.url = Url(request)
  <2>1. CASE IsPrefix(theirs, ps) /\ ~Whole
    <3>1. T <= K /\ \A n \in 1 .. T : theirs[n] = ps[n]  BY <1>1, <1>3, <2>1, PrefixAt
    <3>2. \A n \in 1 .. T : ~ (n > K)  BY <1>6, <3>1
    <3> QED  BY <2>1, <3>1, <3>2
  <2>2. CASE parser.url = Url(request) /\ IsPrefix(ps, theirs)
             /\ \A n \in K + 1 .. T : OfVersion(theirs[n].name)
    <3>1. K <= T /\ \A n \in 1 .. K : ps[n] = theirs[n]  BY <1>1, <1>3, <2>2, PrefixAt
    <3>2. \A n \in 1 .. T : n <= K => n \in 1 .. K  BY <1>6
    <3>3. \A n \in 1 .. T : n > K => n \in K + 1 .. T  BY <1>6
    <3> QED  BY <2>2, <3>1, <3>2, <3>3
  <2> QED  BY <1>4, <2>1, <2>2
<1> QED  BY <1>1, <1>5, <1>6, <1>7, <1>8 DEF ps, theirs

\* A child that ends in an exception of stoi or stoll was sent no number.
THEOREM NumbersCorrect == Spec => []NumbersWhole
<1>1. ASSUME TypeInv, WellFormed => ParserInv, InfoInv PROVE NumbersWhole
  <2> SUFFICES ASSUME pc = "threw", WellFormed
               PROVE  \E n \in DOMAIN request.params : NoNumber(request.params[n])
    BY DEF NumbersWhole, NoNumber
  <2> DEFINE K == Len(request.params)
             T == Len(TheirPairs)
  <2>1. /\ K \in Nat /\ T \in Nat /\ Len(pairs) = T + 3 /\ DOMAIN request.params = 1 .. K
        /\ \A n \in 1 .. T : n <= K => pairs[n] = request.params[n]
        /\ \A n \in 1 .. T : n > K => OfVersion(pairs[n].name)
        /\ pairs[T + 1].name = <<"url">>
        /\ pairs[T + 2].name = <<"urlKey">>
        /\ pairs[T + 3].name = <<"ip">>
    BY <1>1, PairsAre
  <2>2. PICK n \in 1 .. Len(pairs) : NoNumber(pairs[n])  BY <1>1 DEF InfoInv
  <2>3. \E f \in {"port", "downloaded", "left", "uploaded"} : pairs[n].name = <<f>>
    BY <2>2 DEF NoNumber, NumberField
  <2> HIDE DEF K, T
  <2>4. n \in 1 .. T
    <3>1. pairs[n].name \notin {<<"url">>, <<"urlKey">>, <<"ip">>}  BY <2>3
    <3>2. n # T + 1 /\ n # T + 2 /\ n # T + 3  BY <2>1, <3>1
    <3>3. T \in Nat /\ n \in 1 .. T + 3  BY <2>1
    <3> QED  BY <3>2, <3>3
  <2>5. n <= K
    <3>1. ~OfVersion(pairs[n].name)  BY <2>3 DEF OfVersion
    <3>2. ~ (n > K)  BY <2>1, <2>4, <3>1
    <3> QED  BY <2>1, <2>4, <3>2
  <2>6. n \in DOMAIN request.params /\ pairs[n] = request.params[n]  BY <2>1, <2>4, <2>5
  <2> QED  BY <2>2, <2>6
<1> QED  BY <1>1, InfoAlways, PTL

\* What is between the slashes of a request's URL.
LEMMA KeyOfUrl ==
  ASSUME NEW r \in RequestType, ToSet(r.pass) \cap Separator = {}
  PROVE  getKeyFromURL(Url(r)) = r.pass
<1> DEFINE url == Url(r)
           p == r.pass
           slashes == {n \in DOMAIN url : url[n] = "/"}
           later == slashes \ {Min(slashes)}
<1>1. /\ url \in Seq(Token) /\ Len(url) = Len(p) + 3 /\ Len(p) \in Nat
      /\ url[1] = "/" /\ url[Len(p) + 2] = "/" /\ url[Len(p) + 3] = "announce"
      /\ \A i \in 1 .. Len(p) : url[1 + i] = p[i]
  BY UrlText DEF Text
<1>2. p \in Seq(Token)  BY DEF RequestType, Text
<1>3. \A n \in 1 .. Len(p) : p[n] # "/"
  <2>1. \A n \in DOMAIN p : p[n] \notin Separator  BY DEF ToSet
  <2>2. DOMAIN p = 1 .. Len(p)  BY <1>2, LenProperties
  <2> QED  BY <2>1, <2>2 DEF Separator
<1>4. getKeyFromURL(url) =
        IF slashes = {} THEN << >>
        ELSE SubSeq(url, Min(slashes) + 1, IF later = {} THEN Len(url) ELSE Min(later) - 1)
  BY DEF getKeyFromURL
<1> HIDE DEF url, p
<1>5. slashes = {1, Len(p) + 2}
  <2>1. DOMAIN url = 1 .. Len(p) + 3  BY <1>1, LenProperties
  <2>2. 1 \in slashes /\ Len(p) + 2 \in slashes
    <3>1. 1 \in 1 .. Len(p) + 3 /\ Len(p) + 2 \in 1 .. Len(p) + 3  BY <1>1
    <3> QED  BY <1>1, <2>1, <3>1
  <2>3. ASSUME NEW n \in slashes PROVE n \in {1, Len(p) + 2}
    <3>1. n \in 1 .. Len(p) + 3 /\ url[n] = "/"  BY <2>1
    <3>2. n # Len(p) + 3
      <4>1. url[Len(p) + 3] # "/"  BY <1>1
      <4> QED  BY <3>1, <4>1
    <3>3. ASSUME n \in 2 .. Len(p) + 1 PROVE FALSE
      <4> DEFINE i == n - 1
      <4>1. i \in 1 .. Len(p) /\ 1 + i = n  BY <1>1, <3>3
      <4> HIDE DEF i
      <4>2. url[n] = p[i]  BY <1>1, <4>1
      <4> QED  BY <1>3, <3>1, <4>1, <4>2
    <3>4. Len(p) \in Nat  BY <1>1
    <3> QED  BY <3>1, <3>2, <3>3, <3>4
  <2> QED  BY <2>2, <2>3
<1> HIDE DEF slashes
<1>6. Len(p) \in Nat  BY <1>1
<1>7. Min(slashes) = 1
  <2>1. slashes \in SUBSET Nat /\ slashes # {}  BY <1>5, <1>6
  <2>2. Min(slashes) \in slashes /\ \A y \in slashes : Min(slashes) <= y  BY <2>1, MinIn
  <2>3. Min(slashes) = 1 \/ Min(slashes) = Len(p) + 2  BY <1>5, <2>2
  <2>4. Min(slashes) <= 1  BY <1>5, <2>2
  <2> QED  BY <1>6, <2>3, <2>4
<1>8. later = {Len(p) + 2}
  <2>1. Len(p) + 2 # 1  BY <1>6
  <2> QED  BY <1>5, <1>7, <2>1
<1> HIDE DEF later
<1>9. Min(later) - 1 = Len(p) + 1
  <2>1. later \in SUBSET Nat /\ later # {}  BY <1>6, <1>8
  <2>2. Min(later) \in later  BY <2>1, MinIn
  <2> QED  BY <1>6, <1>8, <2>2
<1> DEFINE m == Len(p) + 1
           key == SubSeq(url, 2, m)
<1>10. getKeyFromURL(url) = key
  <2>1. 1 + 1 = 2 /\ slashes # {} /\ later # {}  BY <1>5, <1>8
  <2> QED  BY <1>4, <1>7, <1>9, <2>1
<1>11. m \in Int /\ 2 \in Int /\ m - 2 + 1 = Len(p) /\ (2 <= m \/ Len(p) = 0)  BY <1>6
<1>12. \A i \in 2 .. m : url[i] \in Token
  <2>1. \A i \in 2 .. m : i \in 1 .. Len(url)  BY <1>1
  <2> QED  BY <1>1, <2>1, ElementOfSeq
<1>13. /\ key \in Seq(Token) /\ Len(key) = IF 2 <= m THEN m - 2 + 1 ELSE 0
       /\ \A i \in 1 .. m - 2 + 1 : key[i] = url[2 + i - 1]
  <2> HIDE DEF m
  <2> QED  BY <1>11, <1>12, SubSeqProperties
<1>14. Len(key) = Len(p) /\ \A i \in 1 .. Len(p) : key[i] = url[1 + i]
  <2> HIDE DEF key
  <2>1. \A i \in 1 .. Len(p) : 2 + i - 1 = 1 + i  BY <1>6
  <2> QED  BY <1>6, <1>11, <1>13, <2>1
<1>15. \A i \in 1 .. Len(key) : key[i] = p[i]  BY <1>1, <1>14
<1>16. key = p
  <2> HIDE DEF key
  <2> QED  BY <1>2, <1>13, <1>14, <1>15, SeqEqual
<1> QED  BY <1>10, <1>16 DEF url, p

AskedName == {"peer_id", "event", "port", "info_hash"} \cup NumberField

LEMMA AskedIn ==
  ASSUME TypeInv, WellFormed, NEW name, Asked(name) # {}
  PROVE  /\ Max(Asked(name)) \in Asked(name) /\ Max(Asked(name)) \in 1 .. Len(request.params)
         /\ \A n \in Asked(name) : n <= Max(Asked(name))
<1> DEFINE K == Len(request.params)
           asked == Asked(name)
<1>1. K \in Nat /\ DOMAIN request.params = 1 .. K
  <2>1. request.params \in Seq(Parameter)  BY ParamsTyped
  <2> QED  BY <2>1, LenProperties
<1>2. asked \subseteq 1 .. K  BY <1>1 DEF Asked
<1> HIDE DEF K, asked
<1>3. asked \in SUBSET (0 .. K) /\ K \in Nat /\ asked # {}  BY <1>1, <1>2 DEF asked
<1>4. Max(asked) \in asked /\ \A n \in asked : n <= Max(asked)  BY <1>3, MaxIn
<1> QED  BY <1>2, <1>4 DEF K, asked

\* Of all pairs of a name the last is the last the client asked for.
LEMMA LastTaken ==
  ASSUME TypeInv, WellFormed, ParserInv, InfoInv, pc = "done", Whole,
         NEW name \in AskedName, Asked(name) # {}
  PROVE  Taking(info, request.params[Max(Asked(name))])
         /\ request.params[Max(Asked(name))].name = <<name>>
<1> DEFINE K == Len(request.params)
           T == Len(TheirPairs)
           m == Max(Asked(name))
<1>1. /\ K \in Nat /\ T \in Nat /\ Len(pairs) = T + 3 /\ DOMAIN request.params = 1 .. K
      /\ \A n \in 1 .. T : n <= K => pairs[n] = request.params[n]
      /\ \A n \in 1 .. T : n > K => OfVersion(pairs[n].name)
      /\ pairs[T + 1].name = <<"url">>
      /\ pairs[T + 2].name = <<"urlKey">>
      /\ pairs[T + 3].name = <<"ip">>
      /\ K <= T
  BY PairsAre
<1>2. m \in Asked(name) /\ m \in 1 .. K /\ \A n \in Asked(name) : n <= m  BY AskedIn
<1>3. x = Len(pairs) + 1  BY DEF InfoInv
<1>4. request.params[m].name = <<name>>  BY <1>2 DEF Asked
<1> HIDE DEF K, T, m
<1>5. m \in 1 .. T /\ m <= K /\ m \in 1 .. x - 1 /\ x - 1 = T + 3
  <2>1. K \in Nat /\ T \in Nat /\ K <= T /\ Len(pairs) = T + 3  BY <1>1
  <2> QED  BY <1>2, <1>3, <2>1
<1>6. pairs[m] = request.params[m]  BY <1>1, <1>5
<1>7. name \notin {"url", "urlKey", "ip", "HTTP"}  BY DEF AskedName, NumberField
<1>8. ASSUME NEW n \in m + 1 .. x - 1 PROVE pairs[n].name # <<name>>
  <2>1. n \in Nat /\ n > m /\ n <= T + 3 /\ n >= 1  BY <1>2, <1>5
  <2>2. CASE n \in 1 .. T /\ n <= K
    <3>1. pairs[n] = request.params[n] /\ n \in DOMAIN request.params  BY <1>1, <2>2
    <3>2. n \notin Asked(name)
      <4>1. ~ (n <= m)  BY <1>2, <2>1
      <4> QED  BY <1>2, <4>1
    <3> QED  BY <3>1, <3>2 DEF Asked
  <2>3. CASE n \in 1 .. T /\ n > K
    <3>1. OfVersion(pairs[n].name)  BY <1>1, <2>3
    <3>2. <<name>>[1] = name  OBVIOUS
    <3> QED  BY <1>7, <3>1, <3>2 DEF OfVersion
  <2>4. CASE n = T + 1 \/ n = T + 2 \/ n = T + 3
    <3>1. pairs[n].name \in {<<"url">>, <<"urlKey">>, <<"ip">>}  BY <1>1, <2>4
    <3> QED  BY <1>7, <3>1
  <2>5. (n \in 1 .. T /\ n <= K) \/ (n \in 1 .. T /\ n > K) \/ n = T + 1 \/ n = T + 2 \/ n = T + 3
    <3>1. K \in Nat /\ T \in Nat  BY <1>1
    <3> QED  BY <2>1, <3>1
  <2> QED  BY <2>2, <2>3, <2>4, <2>5
<1>9. pairs[m].name = <<name>>  BY <1>4, <1>6
<1>10. Taking(info, pairs[m])
  <2>1. \A n \in m + 1 .. x - 1 : pairs[n].name # pairs[m].name  BY <1>8, <1>9
  <2> QED  BY <1>5, <2>1 DEF InfoInv
<1> QED  BY <1>4, <1>6, <1>10 DEF m

\* No pair after the tracker's own reading of the URL has its name.
LEMMA PassTaken ==
  ASSUME TypeInv, WellFormed, ParserInv, InfoInv, pc = "done", Whole
  PROVE  info.torrentPass = request.pass
<1> DEFINE T == Len(TheirPairs)
<1>1. /\ T \in Nat /\ Len(pairs) = T + 3
      /\ pairs[T + 2].name = <<"urlKey">>
      /\ pairs[T + 2].value = getKeyFromURL(Url(request))
      /\ pairs[T + 3].name = <<"ip">>
  BY PairsAre
<1>2. x = Len(pairs) + 1  BY DEF InfoInv
<1> HIDE DEF T
<1>3. T + 2 \in 1 .. x - 1 /\ \A n \in T + 2 + 1 .. x - 1 : n = T + 3
  <2>1. T \in Nat /\ Len(pairs) = T + 3  BY <1>1
  <2> QED  BY <1>2, <2>1
<1>4. \A n \in T + 2 + 1 .. x - 1 : pairs[n].name # pairs[T + 2].name  BY <1>1, <1>3
<1>5. Taking(info, pairs[T + 2])
  <2> DEFINE m == T + 2
  <2>1. m \in 1 .. x - 1 /\ \A n \in m + 1 .. x - 1 : pairs[n].name # pairs[m].name  BY <1>3, <1>4
  <2> HIDE DEF m
  <2>2. Taking(info, pairs[m])  BY <2>1 DEF InfoInv
  <2> QED  BY <2>2 DEF m
<1>6. info.torrentPass = getKeyFromURL(Url(request))  BY <1>1, <1>5 DEF Taking
<1>7. getKeyFromURL(Url(request)) = request.pass
  <2>1. request \in RequestType /\ ToSet(request.pass) \cap Separator = {}  BY WellFormedText
  <2> QED  BY <2>1, KeyOfUrl
<1> QED  BY <1>6, <1>7

\* A request that came whole ends as the announce its last parameters ask for.
THEOREM AnnounceCorrect == Spec => []AnnounceAsSent
<1>1. ASSUME TypeInv, WellFormed => ParserInv, InfoInv PROVE AnnounceAsSent
  <2> SUFFICES ASSUME pc = "done", WellFormed, Whole
               PROVE  /\ info.torrentPass = request.pass
                      /\ Asked("peer_id") # {} => info.peerId = LastAsked("peer_id")
                      /\ Asked("event") # {} => info.event = parseEventString(LastAsked("event"))
                      /\ Asked("port") # {} => {info.port} = stoi(LastAsked("port"))
                      /\ \A f \in NumberField :
                           Asked(f) # {} => info[f] \in {n % W : n \in stoll(LastAsked(f))}
    BY DEF AnnounceAsSent
  <2>1. \A name \in AskedName : Asked(name) # {} =>
          LET p == request.params[Max(Asked(name))]
          IN  Taking(info, p) /\ p.name = <<name>> /\ p.value = LastAsked(name)
    BY <1>1, LastTaken DEF LastAsked
  <2>2. info.torrentPass = request.pass  BY <1>1, PassTaken
  <2>3. Asked("peer_id") # {} => info.peerId = LastAsked("peer_id")
    BY <2>1 DEF AskedName, Taking
  <2>4. Asked("event") # {} => info.event = parseEventString(LastAsked("event"))
    BY <2>1 DEF AskedName, Taking
  <2>5. Asked("port") # {} => {info.port} = stoi(LastAsked("port"))
    <3>1. Asked("port") # {} => info.port \in stoi(LastAsked("port"))
      BY <2>1 DEF AskedName, Taking
    <3>2. ASSUME NEW v, NEW m \in stoi(v), NEW n \in stoi(v) PROVE m = n
      <4> DEFINE text   == SubSeq(v, Leading(v, Blank) + 1, Len(v))
                 digits == IF text # << >> /\ text[1] \in {"-", "+"} THEN Tail(text) ELSE text
                 length == Leading(digits, DOMAIN Digit)
                 number == FoldLeft(LAMBDA k, d : 10 * k + Digit[d], 0,
                                    SubSeq(digits, 1, length))
                 N      == IF length = 0 THEN {} ELSE {IF text[1] = "-" THEN -number ELSE number}
      <4>1. Numerals(v) = N  BY Zenon DEF Numerals
      <4>2. m \in N /\ n \in N  BY <4>1, <3>2 DEF stoi
      <4> HIDE DEF text, length, number
      <4> QED  BY <4>2
    <3> QED  BY <3>1, <3>2
  <2>6. ASSUME NEW f \in NumberField, Asked(f) # {}
        PROVE  info[f] \in {n % W : n \in stoll(LastAsked(f))}
    <3>1. info[f] \in {uint64(n) : n \in stoll(LastAsked(f))}
      BY <2>1, <2>6 DEF AskedName, Taking
    <3> QED  BY <3>1 DEF uint64
  <2> QED  BY <2>2, <2>3, <2>4, <2>5, <2>6
<1> QED  BY <1>1, InfoAlways, PTL

\* However a URL spells a hash, decode makes of it the one string it stands for.
THEOREM HashCorrect == Spec => []HashCanonical
<1>1. ASSUME TypeInv, WellFormed => ParserInv, InfoInv PROVE HashCanonical
  <2> SUFFICES ASSUME pc = "done", WellFormed, Whole, request.hash # << >>
               PROVE  info.infoHash = request.hash
    BY DEF HashCanonical
  <2> DEFINE p == request.params[Max(Asked("info_hash"))]
  <2>1. Asked("info_hash") # {} /\ Spells(p.value, request.hash)
    BY <1>1, HashAssumption DEF Asked, TypeInv, TypeOK
  <2>2. Taking(info, p) /\ p.name = <<"info_hash">>
    <3>1. "info_hash" \in AskedName  BY DEF AskedName
    <3> QED  BY <1>1, <2>1, <3>1, LastTaken
  <2>3. PICK beyond \in Token : info.infoHash = decode(p.value, beyond)  BY <2>2 DEF Taking
  <2>4. p.value \in Text /\ request.hash \in Text
    <3>1. Max(Asked("info_hash")) \in 1 .. Len(request.params)  BY <1>1, <2>1, AskedIn
    <3>2. p \in Pair  BY <1>1, <3>1, WellFormedText
    <3>3. request \in RequestType  BY <1>1, WellFormedText
    <3> QED  BY <3>2, <3>3 DEF Pair, RequestType
  <2> HIDE DEF p
  <2>5. decode(p.value, beyond) = request.hash  BY <2>1, <2>4, DecodeSpelling
  <2> QED  BY <2>3, <2>5
<1> QED  BY <1>1, InfoAlways, PTL

=============================================================================
