---------------------------- MODULE ReplyProofs ----------------------------
(***************************************************************************)
(* A client reads what the tracker meant, for peer ids of any length and   *)
(* content, any number of peers and every place at which the answer is cut *)
(* off.  Reads(E, v) says it of a piece E of the answer: whatever follows, *)
(* decode reads the value v from E, and throws if E is cut.  It is proved  *)
(* of numbers and strings, then of lists and dictionaries of what has it.  *)
(* The loops of decode_list and decode_dict are one recursive function,    *)
(* which exists because each of their turns moves on (Later).              *)
(***************************************************************************)
EXTENDS Reply, SequenceLemmas

----------------------------------------------------------------------------
\* The ten digits differ, and each has its place.
LEMMA DigitOf ==
  /\ Len(Digits) = 10 /\ DOMAIN Digits = 1 .. 10
  /\ \A d \in 0 .. 9 : Digits[d + 1] \in Digit
  /\ \A d, e \in 0 .. 9 : Digits[d + 1] = Digits[e + 1] => d = e
<1>1. Len(Digits) = 10 /\ DOMAIN Digits = 1 .. 10  BY DEF Digits
<1>2. /\ Digits[1] = "0" /\ Digits[2] = "1" /\ Digits[3] = "2" /\ Digits[4] = "3"
      /\ Digits[5] = "4" /\ Digits[6] = "5" /\ Digits[7] = "6" /\ Digits[8] = "7"
      /\ Digits[9] = "8" /\ Digits[10] = "9"
  BY DEF Digits
<1>3. \A d \in 0 .. 9 : Digits[d + 1] \in Digit
  <2>1. \A d \in 0 .. 9 : d + 1 \in 1 .. 10  OBVIOUS
  <2> QED  BY <1>1, <2>1 DEF Digit, ToSet
<1>4. \A i, j \in 1 .. 10 : Digits[i] = Digits[j] => i = j
  BY <1>2
<1>5. \A d, e \in 0 .. 9 : d + 1 \in 1 .. 10 /\ e + 1 \in 1 .. 10 /\ (d + 1 = e + 1 => d = e)
  OBVIOUS
<1> QED  BY <1>1, <1>3, <1>4, <1>5

\* DigitValue undoes Digits.
LEMMA DigitValueOf ==
  /\ \A d \in 0 .. 9 : Digits[d + 1] \in Digit /\ DigitValue(Digits[d + 1]) = d
  /\ \A c \in Digit : DigitValue(c) \in 0 .. 9
<1>1. \A d \in 0 .. 9 : DigitValue(Digits[d + 1]) = d
  BY DigitOf DEF DigitValue
<1>2. \A c \in Digit : \E d \in 0 .. 9 : Digits[d + 1] = c
  <2>1. \A i \in 1 .. 10 : i - 1 \in 0 .. 9 /\ (i - 1) + 1 = i  OBVIOUS
  <2> QED  BY DigitOf, <2>1 DEF Digit, ToSet
<1> QED  BY <1>1, <1>2, DigitOf

\* The characters of bencode and of the header are tokens, and none is a digit or 0.
LEMMA SpecialTokens ==
  /\ Digit \subseteq Token
  /\ {"i", "l", "d", "e", ":", "-", "HTTP/1.1 200 OK", "Content-length: ", "\r\n\r\n"} \subseteq Token
  /\ Nul \in Token /\ Nul \notin Digit
  /\ Nul \notin {"i", "l", "d", "e", ":", "-", "HTTP/1.1 200 OK", "Content-length: ", "\r\n\r\n"}
  /\ \A c \in Digit : c \notin {"i", "l", "d", "e", ":", "-", "HTTP/1.1 200 OK", "Content-length: ", "\r\n\r\n"}
<1>1. Digit = {"0", "1", "2", "3", "4", "5", "6", "7", "8", "9"}
  BY DEF Digit, Digits, ToSet
<1> QED  BY <1>1, TokenAssumption DEF Written

\* The functions that Value and Decimal are defined by.
IsValue(f, s, begin, last) ==
  f = [n \in begin - 1 .. last |-> IF n < begin THEN 0 ELSE 10 * f[n - 1] + DigitValue(s[n])]
ValueOf(s, begin, last) == CHOOSE f : IsValue(f, s, begin, last)

IsDecimal(f, size) ==
  f = [m \in 0 .. size |-> IF m < 10 THEN <<Digits[m + 1]>>
                           ELSE Append(f[m \div 10], Digits[(m % 10) + 1])]
DecimalOf(size) == CHOOSE f : IsDecimal(f, size)

\* Both recursive functions exist, by induction over their domains.
LEMMA ValueExists ==
  ASSUME NEW s, NEW begin \in Nat \ {0}, NEW last \in Nat, begin - 1 <= last
  PROVE  IsValue(ValueOf(s, begin, last), s, begin, last)
<1> DEFINE Good == {k \in Nat : \E f : IsValue(f, s, begin, begin - 1 + k)}
<1>1. 0 \in Good
  <2> DEFINE f == [n \in begin - 1 .. begin - 1 + 0 |-> 0]
  <2>1. \A n \in begin - 1 .. begin - 1 + 0 : n < begin  OBVIOUS
  <2>2. IsValue(f, s, begin, begin - 1 + 0)  BY <2>1 DEF IsValue
  <2> QED  BY <2>2
<1>2. ASSUME NEW k \in Nat, k \in Good PROVE k + 1 \in Good
  <2> DEFINE a == begin - 1 + k
             b == begin - 1 + (k + 1)
  <2>1. PICK f : IsValue(f, s, begin, a)  BY <1>2
  <2>0. /\ a \in Nat /\ b \in Nat /\ b = a + 1 /\ begin - 1 <= a
        /\ \A n \in begin - 1 .. b : n \in begin - 1 .. a \/ n = b
        /\ \A n \in begin - 1 .. b : n < begin \/ n - 1 \in begin - 1 .. a
    OBVIOUS
  <2> HIDE DEF a, b
  <2> DEFINE g == [n \in begin - 1 .. b |->
                     IF n < begin THEN 0 ELSE 10 * f[n - 1] + DigitValue(s[n])]
  <2>2. \A n \in begin - 1 .. a : f[n] = IF n < begin THEN 0 ELSE 10 * f[n - 1] + DigitValue(s[n])
    BY <2>1, Zenon DEF IsValue
  <2>3. \A n \in begin - 1 .. a : n \in begin - 1 .. b /\ g[n] = f[n]
    <3>1. \A n \in begin - 1 .. a : n \in begin - 1 .. b  BY <2>0
    <3> QED  BY <2>2, <3>1, Zenon
  <2>4. \A n \in begin - 1 .. b :
          g[n] = IF n < begin THEN 0 ELSE 10 * g[n - 1] + DigitValue(s[n])
    <3>1. \A n \in begin - 1 .. b : n < begin \/ g[n - 1] = f[n - 1]
      <4> HIDE DEF g
      <4> QED  BY <2>0, <2>3
    <3> QED  BY <3>1, Zenon
  <2>5. g = [n \in begin - 1 .. b |-> IF n < begin THEN 0 ELSE 10 * g[n - 1] + DigitValue(s[n])]
    BY <2>4
  <2>6. IsValue(g, s, begin, b)  BY <2>5 DEF IsValue
  <2> QED  BY <2>6 DEF b
<1>3. \A k \in Nat : k \in Good
  <2> HIDE DEF Good
  <2> QED  BY <1>1, <1>2, NumberInduction
<1>4. \A k \in Nat : \E f : IsValue(f, s, begin, begin - 1 + k)  BY <1>3
<1>5. last - (begin - 1) \in Nat /\ begin - 1 + (last - (begin - 1)) = last  OBVIOUS
<1>6. \E f : IsValue(f, s, begin, last)  BY <1>4, <1>5
<1> QED  BY <1>6 DEF ValueOf

\* What Value makes of one more digit.
LEMMA ValueStep ==
  ASSUME NEW s, NEW begin \in Nat \ {0}, NEW last \in Nat, begin - 1 <= last
  PROVE  /\ ValueOf(s, begin, last)[begin - 1] = 0
         /\ \A n \in begin .. last :
              ValueOf(s, begin, last)[n] = 10 * ValueOf(s, begin, last)[n - 1] + DigitValue(s[n])
<1> DEFINE f == ValueOf(s, begin, last)
<1>1. IsValue(f, s, begin, last)  BY ValueExists
<1> HIDE DEF f
<1>2. \A n \in begin - 1 .. last : f[n] = IF n < begin THEN 0 ELSE 10 * f[n - 1] + DigitValue(s[n])
  BY <1>1, Zenon DEF IsValue
<1>3. begin - 1 \in begin - 1 .. last /\ begin - 1 < begin  OBVIOUS
<1>4. \A n \in begin .. last : n \in begin - 1 .. last /\ ~ (n < begin)  OBVIOUS
<1>5. f[begin - 1] = 0  BY <1>2, <1>3
<1>6. \A n \in begin .. last : f[n] = 10 * f[n - 1] + DigitValue(s[n])  BY <1>2, <1>4
<1> QED  BY <1>5, <1>6 DEF f

\* The same of Decimal.
LEMMA DecimalExists ==
  ASSUME NEW size \in Nat
  PROVE  IsDecimal(DecimalOf(size), size)
<1> DEFINE Good == {k \in Nat : \E f : IsDecimal(f, k)}
<1>1. 0 \in Good
  <2> DEFINE f == [m \in 0 .. 0 |-> <<Digits[m + 1]>>]
  <2>1. \A m \in 0 .. 0 : m < 10  OBVIOUS
  <2>2. IsDecimal(f, 0)  BY <2>1 DEF IsDecimal
  <2> QED  BY <2>2
<1>2. ASSUME NEW k \in Nat, k \in Good PROVE k + 1 \in Good
  <2> DEFINE b == k + 1
  <2>1. PICK f : IsDecimal(f, k)  BY <1>2
  <2>0. /\ \A m \in 0 .. b : m < 10 \/ m \div 10 \in 0 .. k
        /\ \A m \in 0 .. k : m \in 0 .. b
    OBVIOUS
  <2> HIDE DEF b
  <2> DEFINE g == [m \in 0 .. b |-> IF m < 10 THEN <<Digits[m + 1]>>
                                    ELSE Append(f[m \div 10], Digits[(m % 10) + 1])]
  <2>2. \A m \in 0 .. k : f[m] = IF m < 10 THEN <<Digits[m + 1]>>
                                 ELSE Append(f[m \div 10], Digits[(m % 10) + 1])
    BY <2>1, Zenon DEF IsDecimal
  <2>3. \A m \in 0 .. k : g[m] = f[m]  BY <2>0, <2>2, Zenon
  <2>4. \A m \in 0 .. b : g[m] = IF m < 10 THEN <<Digits[m + 1]>>
                                 ELSE Append(g[m \div 10], Digits[(m % 10) + 1])
    <3>1. \A m \in 0 .. b : m < 10 \/ g[m \div 10] = f[m \div 10]
      <4> HIDE DEF g
      <4> QED  BY <2>0, <2>3
    <3> QED  BY <3>1, Zenon
  <2>5. g = [m \in 0 .. b |-> IF m < 10 THEN <<Digits[m + 1]>>
                              ELSE Append(g[m \div 10], Digits[(m % 10) + 1])]
    BY <2>4
  <2>6. IsDecimal(g, b)  BY <2>5 DEF IsDecimal
  <2> QED  BY <2>6 DEF b
<1>3. size \in Good
  <2> HIDE DEF Good
  <2> QED  BY <1>1, <1>2, NumberInduction
<1> QED  BY <1>3 DEF DecimalOf

\* What Decimal makes of a number of one digit, and of one of more.
LEMMA DecimalStep ==
  ASSUME NEW size \in Nat
  PROVE  \A m \in 0 .. size :
           /\ m < 10 => DecimalOf(size)[m] = <<Digits[m + 1]>>
           /\ m >= 10 => DecimalOf(size)[m] = Append(DecimalOf(size)[m \div 10], Digits[(m % 10) + 1])
<1> DEFINE f == DecimalOf(size)
<1>1. IsDecimal(f, size)  BY DecimalExists
<1> HIDE DEF f
<1>2. \A m \in 0 .. size : f[m] = IF m < 10 THEN <<Digits[m + 1]>>
                                  ELSE Append(f[m \div 10], Digits[(m % 10) + 1])
  BY <1>1, Zenon DEF IsDecimal
<1>3. \A m \in 0 .. size : m >= 10 <=> ~ (m < 10)  OBVIOUS
<1>4. \A m \in 0 .. size : /\ m < 10 => f[m] = <<Digits[m + 1]>>
                           /\ m >= 10 => f[m] = Append(f[m \div 10], Digits[(m % 10) + 1])
  BY <1>2, <1>3, Zenon
<1> QED  BY <1>4 DEF f

\* A number written in decimal is a text of digits, and is what the digits' value is.
SpelledAt(s, begin, last, D) ==
  begin - 1 + Len(D) <= last /\ \A i \in 1 .. Len(D) : s[begin - 1 + i] = D[i]

Spells(D, m) ==
  /\ D \in Seq(Digit) /\ Len(D) \in Nat /\ Len(D) >= 1
  /\ \A s : \A begin \in Nat \ {0}, last \in Nat :
       SpelledAt(s, begin, last, D) => ValueOf(s, begin, last)[begin - 1 + Len(D)] = m

\* A digit spells its value.
LEMMA OneDigit ==
  ASSUME NEW m \in 0 .. 9
  PROVE  Spells(<<Digits[m + 1]>>, m)
<1> DEFINE c == Digits[m + 1]
           D == <<c>>
<1>1. c \in Digit /\ DigitValue(c) = m  BY DigitValueOf
<1> HIDE DEF c
<1>2. D \in Seq(Digit) /\ Len(D) = 1 /\ D[1] = c  BY <1>1, Tuples
<1> HIDE DEF D
<1>3. ASSUME NEW s, NEW begin \in Nat \ {0}, NEW last \in Nat, SpelledAt(s, begin, last, D)
      PROVE  ValueOf(s, begin, last)[begin - 1 + Len(D)] = m
  <2>0. begin - 1 + 1 <= last /\ \A i \in 1 .. 1 : s[begin - 1 + i] = D[i]
    BY <1>2, <1>3 DEF SpelledAt
  <2>1. begin - 1 + 1 = begin /\ begin \in begin .. last /\ begin - 1 <= last /\ 1 \in 1 .. 1
    BY <2>0
  <2>2. s[begin] = c
    <3>1. s[begin - 1 + 1] = D[1]  BY <2>0, <2>1
    <3> QED  BY <1>2, <2>1, <3>1
  <2> DEFINE f == ValueOf(s, begin, last)
  <2>3. f[begin - 1] = 0 /\ f[begin] = 10 * f[begin - 1] + DigitValue(s[begin])
    BY <2>1, ValueStep
  <2> HIDE DEF f
  <2>4. f[begin] = m  BY <1>1, <2>2, <2>3
  <2> QED  BY <1>2, <2>1, <2>4 DEF f
<1>4. Spells(D, m)  BY <1>2, <1>3 DEF Spells
<1> QED  BY <1>4 DEF D, c

\* One more digit spells ten times as much and its value.
LEMMA OneMoreDigit ==
  ASSUME NEW q \in Nat, NEW r \in 0 .. 9, NEW D, Spells(D, q)
  PROVE  Spells(Append(D, Digits[r + 1]), 10 * q + r)
<1> DEFINE c == Digits[r + 1]
           E == Append(D, c)
<1>1. c \in Digit /\ DigitValue(c) = r  BY DigitValueOf
<1> HIDE DEF c
<1>0. /\ D \in Seq(Digit) /\ Len(D) \in Nat /\ Len(D) >= 1
      /\ \A s : \A begin \in Nat \ {0}, last \in Nat :
           SpelledAt(s, begin, last, D) => ValueOf(s, begin, last)[begin - 1 + Len(D)] = q
  BY DEF Spells
<1>2. /\ E \in Seq(Digit) /\ Len(E) = Len(D) + 1
      /\ (\A i \in 1 .. Len(D) : E[i] = D[i]) /\ E[Len(D) + 1] = c
  BY <1>0, <1>1, AppendProperties
<1> HIDE DEF E
<1>3. ASSUME NEW s, NEW begin \in Nat \ {0}, NEW last \in Nat, SpelledAt(s, begin, last, E)
      PROVE  ValueOf(s, begin, last)[begin - 1 + Len(E)] = 10 * q + r
  <2> DEFINE p == begin - 1 + Len(E)
  <2>1. /\ p <= last /\ p \in begin .. last /\ begin - 1 <= last /\ p - 1 = begin - 1 + Len(D)
        /\ begin - 1 + Len(D) <= last /\ Len(D) + 1 \in 1 .. Len(E)
        /\ \A i \in 1 .. Len(D) : i \in 1 .. Len(E)
    BY <1>0, <1>2, <1>3 DEF SpelledAt
  <2>2. SpelledAt(s, begin, last, D)  BY <1>2, <1>3, <2>1 DEF SpelledAt
  <2>3. s[p] = c
    <3>1. s[begin - 1 + (Len(D) + 1)] = E[Len(D) + 1]  BY <1>3, <2>1 DEF SpelledAt
    <3> QED  BY <1>2, <3>1
  <2> HIDE DEF p
  <2> DEFINE f == ValueOf(s, begin, last)
  <2>4. f[p] = 10 * f[p - 1] + DigitValue(s[p])  BY <2>1, ValueStep
  <2>5. f[p - 1] = q
    <3>1. f[begin - 1 + Len(D)] = q  BY <1>0, <2>2
    <3> QED  BY <2>1, <3>1
  <2> HIDE DEF f
  <2>6. f[p] = 10 * q + r  BY <1>1, <2>3, <2>4, <2>5
  <2> QED  BY <2>6 DEF f, p
<1>4. Spells(E, 10 * q + r)  BY <1>0, <1>2, <1>3 DEF Spells
<1> QED  BY <1>4 DEF E, c

\* So each number up to size is spelled.
LEMMA DecimalSpells ==
  ASSUME NEW size \in Nat
  PROVE  \A m \in 0 .. size : Spells(DecimalOf(size)[m], m)
<1> DEFINE Good == {k \in Nat : \A m \in 0 .. size : m <= k => Spells(DecimalOf(size)[m], m)}
<1>1. \A m \in 0 .. size : m < 10 => Spells(DecimalOf(size)[m], m)
  <2> SUFFICES ASSUME NEW m \in 0 .. size, m < 10 PROVE Spells(DecimalOf(size)[m], m)
    OBVIOUS
  <2>1. m \in 0 .. 9  OBVIOUS
  <2>2. DecimalOf(size)[m] = <<Digits[m + 1]>>  BY DecimalStep
  <2> QED  BY <2>1, <2>2, OneDigit
<1>2. 0 \in Good  BY <1>1
<1>3. ASSUME NEW k \in Nat, k \in Good PROVE k + 1 \in Good
  <2> SUFFICES ASSUME NEW m \in 0 .. size, m <= k + 1 PROVE Spells(DecimalOf(size)[m], m)
    OBVIOUS
  <2>1. CASE m < 10  BY <1>1, <2>1
  <2>2. CASE m >= 10
    <3> DEFINE q == m \div 10
               r == m % 10
    <3>1. q \in Nat /\ r \in 0 .. 9 /\ 10 * q + r = m  OBVIOUS
    <3>2. q \in 0 .. size /\ q <= k  BY <2>2
    <3>3. DecimalOf(size)[m] = Append(DecimalOf(size)[q], Digits[r + 1])  BY <2>2, DecimalStep
    <3>4. Spells(DecimalOf(size)[q], q)  BY <1>3, <3>2
    <3> HIDE DEF q, r
    <3>5. Spells(Append(DecimalOf(size)[q], Digits[r + 1]), 10 * q + r)
      BY <3>1, <3>4, OneMoreDigit
    <3> QED  BY <3>1, <3>3, <3>5
  <2> QED  BY <2>1, <2>2
<1>4. \A k \in Nat : k \in Good
  <2> HIDE DEF Good
  <2> QED  BY <1>2, <1>3, NumberInduction
<1>5. size \in Good /\ \A m \in 0 .. size : m <= size  BY <1>4
<1> QED  BY <1>5

\* operator<< spells the number.
LEMMA NaturalSpelled ==
  ASSUME NEW n \in Nat
  PROVE  Spells(Decimal(n), n)
<1>1. ~ (n < 0)  OBVIOUS
<1>2. Decimal(n) = DecimalOf(n)[n]  BY <1>1 DEF Decimal, DecimalOf, IsDecimal
<1>3. n \in 0 .. n  OBVIOUS
<1> QED  BY <1>2, <1>3, DecimalSpells

\* A negative one has a sign in front.
LEMMA NegativeSpelled ==
  ASSUME NEW n \in Int, n < 0
  PROVE  -n \in Nat /\ Decimal(n) = <<"-">> \o Decimal(-n)
<1>1. -n \in Nat /\ ~ (-n < 0)  OBVIOUS
<1>2. Decimal(n) = <<"-">> \o DecimalOf(-n)[-n]  BY DEF Decimal, DecimalOf, IsDecimal
<1>3. Decimal(-n) = DecimalOf(-n)[-n]  BY <1>1 DEF Decimal, DecimalOf, IsDecimal
<1> QED  BY <1>1, <1>2, <1>3

----------------------------------------------------------------------------
\* The loop over isdigit stops at the first character that is none.
LEMMA AfterDigitsIn ==
  ASSUME NEW s \in Seq(Token), NEW b \in 1 .. Len(s) + 1
  PROVE  /\ AfterDigits(s, b) \in b .. Len(s) + 1
         /\ \A n \in b .. AfterDigits(s, b) - 1 : s[n] \in Digit
         /\ AfterDigits(s, b) <= Len(s) => s[AfterDigits(s, b)] \notin Digit
<1> DEFINE S == {n \in b .. Len(s) + 1 : n <= Len(s) => s[n] \notin Digit}
           a == Min(S)
<1>1. Len(s) \in Nat /\ S \in SUBSET Nat /\ Len(s) + 1 \in S  OBVIOUS
<1> HIDE DEF S
<1>2. a \in S /\ \A y \in S : a <= y  BY <1>1, MinIn
<1>3. a \in b .. Len(s) + 1 /\ (a <= Len(s) => s[a] \notin Digit)  BY <1>2 DEF S
<1>4. ASSUME NEW n \in b .. a - 1 PROVE s[n] \in Digit
  <2>1. n \in b .. Len(s) + 1 /\ ~ (a <= n)  BY <1>1, <1>3
  <2>2. n \notin S  BY <1>2, <2>1
  <2> QED  BY <2>1, <2>2 DEF S
<1>5. a = AfterDigits(s, b)  BY DEF S, AfterDigits
<1> QED  BY <1>3, <1>4, <1>5

\* Conversely: where digits end is where the loop stops.
LEMMA AfterDigitsIs ==
  ASSUME NEW s \in Seq(Token), NEW b \in 1 .. Len(s) + 1, NEW e \in b .. Len(s) + 1,
         \A n \in b .. e - 1 : s[n] \in Digit, e <= Len(s) => s[e] \notin Digit
  PROVE  AfterDigits(s, b) = e
<1> DEFINE a == AfterDigits(s, b)
<1>0. Len(s) \in Nat  OBVIOUS
<1>1. /\ a \in b .. Len(s) + 1 /\ (\A n \in b .. a - 1 : s[n] \in Digit)
      /\ (a <= Len(s) => s[a] \notin Digit)
  BY AfterDigitsIn
<1> HIDE DEF a
<1>2. ~ (a < e)
  <2> SUFFICES ASSUME a < e PROVE FALSE
    OBVIOUS
  <2>1. a \in b .. e - 1 /\ a <= Len(s)  BY <1>0, <1>1
  <2> QED  BY <1>1, <2>1
<1>3. ~ (e < a)
  <2> SUFFICES ASSUME e < a PROVE FALSE
    OBVIOUS
  <2>1. e \in b .. a - 1 /\ e <= Len(s)  BY <1>0, <1>1
  <2> QED  BY <1>1, <2>1
<1>4. a = e  BY <1>0, <1>1, <1>2, <1>3
<1> QED  BY <1>4 DEF a

\* Value, by the function that defines it.
LEMMA ValueIs ==
  ASSUME NEW s, NEW b
  PROVE  Value(s, b) = ValueOf(s, b, AfterDigits(s, b) - 1)[AfterDigits(s, b) - 1]
BY DEF Value, ValueOf, IsValue

\* The value of any digits is a natural number.
LEMMA ValueNatural ==
  ASSUME NEW s \in Seq(Token), NEW b \in 1 .. Len(s) + 1
  PROVE  Value(s, b) \in Nat
<1> DEFINE last == AfterDigits(s, b) - 1
           f    == ValueOf(s, b, last)
           Good == {k \in Nat : b - 1 + k <= last => f[b - 1 + k] \in Nat}
<1>0. /\ Len(s) \in Nat /\ b \in Nat \ {0} /\ last \in Nat /\ b - 1 <= last
      /\ \A n \in b .. last : s[n] \in Digit
  BY AfterDigitsIn
<1> HIDE DEF last
<1>1. f[b - 1] = 0 /\ \A n \in b .. last : f[n] = 10 * f[n - 1] + DigitValue(s[n])
  BY <1>0, ValueStep
<1> HIDE DEF f
<1>2. 0 \in Good
  <2>1. b - 1 + 0 = b - 1  OBVIOUS
  <2> QED  BY <1>1, <2>1
<1>3. ASSUME NEW k \in Nat, k \in Good PROVE k + 1 \in Good
  <2> DEFINE p == b - 1 + (k + 1)
  <2> SUFFICES ASSUME p <= last PROVE f[p] \in Nat
    OBVIOUS
  <2>1. p \in b .. last /\ p - 1 = b - 1 + k /\ b - 1 + k <= last  BY <1>0
  <2> HIDE DEF p
  <2>2. f[p - 1] \in Nat  BY <1>3, <2>1
  <2>3. DigitValue(s[p]) \in 0 .. 9  BY <1>0, <2>1, DigitValueOf
  <2>4. f[p] = 10 * f[p - 1] + DigitValue(s[p])  BY <1>1, <2>1
  <2>5. \A x \in Nat, d \in 0 .. 9 : 10 * x + d \in Nat  OBVIOUS
  <2>6. 10 * f[p - 1] + DigitValue(s[p]) \in Nat  BY <2>2, <2>3, <2>5
  <2> QED  BY <2>4, <2>6
<1>4. \A k \in Nat : k \in Good
  <2> HIDE DEF Good
  <2> QED  BY <1>2, <1>3, NumberInduction
<1>5. last - (b - 1) \in Nat /\ b - 1 + (last - (b - 1)) = last  BY <1>0
<1>6. f[last] \in Nat
  <2>1. last - (b - 1) \in Good  BY <1>4, <1>5
  <2> QED  BY <1>5, <2>1
<1> QED  BY <1>6, ValueIs DEF f, last

\* Text E stands in s behind its first o tokens, as far as s goes.
Agrees(s, o, E) == \A i \in 1 .. Len(E) : o + i <= Len(s) => s[o + i] = E[i]

\* A text that agrees with a concatenation agrees with both parts.
LEMMA AgreesParts ==
  ASSUME NEW A \in Seq(Token), NEW B \in Seq(Token), NEW s, NEW o \in Nat, Agrees(s, o, A \o B),
         Len(s) \in Nat
  PROVE  Agrees(s, o, A) /\ Agrees(s, o + Len(A), B)
<1> DEFINE E == A \o B
<1>1. /\ Len(E) = Len(A) + Len(B) /\ Len(A) \in Nat /\ Len(B) \in Nat
      /\ (\A i \in 1 .. Len(A) : E[i] = A[i]) /\ \A i \in 1 .. Len(B) : E[Len(A) + i] = B[i]
  BY ConcatAt
<1>2. \A i \in 1 .. Len(E) : o + i <= Len(s) => s[o + i] = E[i]  BY DEF Agrees
<1> HIDE DEF E
<1>3. ASSUME NEW i \in 1 .. Len(A), o + i <= Len(s) PROVE s[o + i] = A[i]
  <2>1. i \in 1 .. Len(E)  BY <1>1
  <2> QED  BY <1>1, <1>2, <1>3, <2>1
<1>4. ASSUME NEW i \in 1 .. Len(B), (o + Len(A)) + i <= Len(s) PROVE s[(o + Len(A)) + i] = B[i]
  <2>1. Len(A) + i \in 1 .. Len(E) /\ o + (Len(A) + i) = (o + Len(A)) + i  BY <1>1
  <2>2. s[o + (Len(A) + i)] = E[Len(A) + i]  BY <1>2, <1>4, <2>1
  <2> QED  BY <1>1, <2>1, <2>2
<1> QED  BY <1>3, <1>4 DEF Agrees

\* Reading the digits of a number that is written in s behind its first o tokens:
\* all of them, or those before the end of s.
LEMMA DigitsRead ==
  ASSUME NEW s \in Seq(Token), NEW o \in Nat, NEW D, NEW m, Spells(D, m), Agrees(s, o, D),
         o + Len(D) <= Len(s) => (o + Len(D) + 1 <= Len(s) => s[o + Len(D) + 1] \notin Digit),
         o + Len(D) <= Len(s)
  PROVE  AfterDigits(s, o + 1) = o + Len(D) + 1 /\ Value(s, o + 1) = m
<1> DEFINE b == o + 1
           e == o + Len(D) + 1
<1>0. D \in Seq(Digit) /\ Len(D) \in Nat /\ Len(D) >= 1 /\ Len(s) \in Nat  BY DEF Spells
<1>1. /\ b \in Nat \ {0} /\ b \in 1 .. Len(s) + 1 /\ e \in b .. Len(s) + 1
      /\ b - 1 = o /\ e - 1 = o + Len(D) /\ e - 1 \in Nat
  BY <1>0
<1>2. \A i \in 1 .. Len(D) : s[o + i] = D[i] /\ D[i] \in Digit
  <2>1. \A i \in 1 .. Len(D) : o + i <= Len(s)  BY <1>0
  <2>2. \A i \in 1 .. Len(D) : D[i] \in Digit  BY <1>0, ElementOfSeq
  <2> QED  BY <2>1, <2>2 DEF Agrees
<1>3. \A n \in b .. e - 1 : s[n] \in Digit
  <2>1. \A n \in b .. e - 1 : n - o \in 1 .. Len(D) /\ o + (n - o) = n  BY <1>0
  <2> QED  BY <1>2, <2>1
<1>4. e <= Len(s) => s[e] \notin Digit  OBVIOUS
<1>5. AfterDigits(s, b) = e
  <2> HIDE DEF b, e
  <2> QED  BY <1>1, <1>3, <1>4, AfterDigitsIs
<1>6. SpelledAt(s, b, e - 1, D)
  <2>1. b - 1 + Len(D) <= e - 1  BY <1>0
  <2>2. \A i \in 1 .. Len(D) : s[b - 1 + i] = D[i]  BY <1>1, <1>2
  <2> QED  BY <2>1, <2>2 DEF SpelledAt
<1> HIDE DEF b, e
<1>7. ValueOf(s, b, e - 1)[b - 1 + Len(D)] = m  BY <1>1, <1>6 DEF Spells
<1>8. Value(s, b) = m  BY <1>1, <1>5, <1>7, ValueIs
<1> QED  BY <1>5, <1>8 DEF b, e

\* Digits that the end of the text cuts off: the loop runs to the end.
LEMMA DigitsCut ==
  ASSUME NEW s \in Seq(Token), NEW o \in Nat, o <= Len(s), NEW D \in Seq(Digit), Agrees(s, o, D),
         o + Len(D) >= Len(s)
  PROVE  AfterDigits(s, o + 1) = Len(s) + 1
<1> DEFINE b == o + 1
           e == Len(s) + 1
<1>0. Len(D) \in Nat /\ Len(s) \in Nat  OBVIOUS
<1>1. b \in 1 .. Len(s) + 1 /\ e \in b .. Len(s) + 1 /\ ~ (e <= Len(s))  BY <1>0
<1>2. \A n \in b .. e - 1 : s[n] \in Digit
  <2>1. \A n \in b .. e - 1 : n - o \in 1 .. Len(D) /\ o + (n - o) = n /\ n <= Len(s)  BY <1>0
  <2>2. \A i \in 1 .. Len(D) : D[i] \in Digit  BY ElementOfSeq
  <2> QED  BY <2>1, <2>2 DEF Agrees
<1> HIDE DEF b, e
<1>3. AfterDigits(s, b) = e  BY <1>1, <1>2, AfterDigitsIs
<1> QED  BY <1>3 DEF b, e

\* What follows the digits tells whether the number has been read.
LEMMA NumberRead ==
  ASSUME NEW s \in Seq(Token), NEW o \in Nat, o <= Len(s), NEW D, NEW m, Spells(D, m),
         NEW c, c \notin Digit, c # Nul,
         Agrees(s, o, D), Agrees(s, o + Len(D), <<c>>)
  PROVE  /\ CharAt(s, AfterDigits(s, o + 1)) = c <=> o + Len(D) + 1 <= Len(s)
         /\ o + Len(D) + 1 <= Len(s) =>
              AfterDigits(s, o + 1) = o + Len(D) + 1 /\ Value(s, o + 1) = m
<1>0. D \in Seq(Digit) /\ Len(D) \in Nat /\ Len(s) \in Nat  BY DEF Spells
<1>1. CASE o + Len(D) + 1 <= Len(s)
  <2>1. s[o + Len(D) + 1] = c
    <3>1. Len(<<c>>) = 1 /\ <<c>>[1] = c /\ 1 \in 1 .. 1  OBVIOUS
    <3>2. \A i \in 1 .. 1 : (o + Len(D)) + i <= Len(s) => s[(o + Len(D)) + i] = <<c>>[i]
      BY <3>1 DEF Agrees
    <3>3. s[(o + Len(D)) + 1] = <<c>>[1]  BY <1>1, <3>1, <3>2
    <3> QED  BY <3>1, <3>3
  <2>2. o + Len(D) <= Len(s)  BY <1>0, <1>1
  <2>3. o + Len(D) + 1 <= Len(s) => s[o + Len(D) + 1] \notin Digit  BY <2>1
  <2>4. AfterDigits(s, o + 1) = o + Len(D) + 1 /\ Value(s, o + 1) = m
    BY <2>2, <2>3, DigitsRead
  <2>5. CharAt(s, o + Len(D) + 1) = c  BY <1>1, <2>1 DEF CharAt
  <2> QED  BY <1>1, <2>4, <2>5
<1>2. CASE ~ (o + Len(D) + 1 <= Len(s))
  <2>1. o + Len(D) >= Len(s)  BY <1>0, <1>2
  <2>2. AfterDigits(s, o + 1) = Len(s) + 1  BY <1>0, <2>1, DigitsCut
  <2>3. ~ (Len(s) + 1 <= Len(s))  BY <1>0
  <2>4. CharAt(s, Len(s) + 1) = Nul  BY <2>3 DEF CharAt
  <2> QED  BY <1>2, <2>2, <2>4
<1> QED  BY <1>1, <1>2

\* A piece of a text that agrees with a string is that string.
LEMMA SubSeqIs ==
  ASSUME NEW S, NEW s \in Seq(S), NEW t \in Seq(S), NEW m \in Nat, m + Len(t) <= Len(s),
         \A i \in 1 .. Len(t) : s[m + i] = t[i]
  PROVE  SubSeq(s, m + 1, m + Len(t)) = t
<1> DEFINE a == m + 1
           b == m + Len(t)
           u == SubSeq(s, a, b)
<1>0. /\ Len(s) \in Nat /\ Len(t) \in Nat /\ a \in Int /\ b \in Int
      /\ (\A i \in a .. b : i \in 1 .. Len(s))
      /\ (IF a <= b THEN b - a + 1 ELSE 0) = Len(t)
      /\ \A i \in 1 .. Len(t) : i \in 1 .. b - a + 1 /\ a + i - 1 = m + i
  OBVIOUS
<1>1. \A i \in a .. b : s[i] \in S
  <2>1. \A i \in 1 .. Len(s) : s[i] \in S  BY ElementOfSeq
  <2> QED  BY <1>0, <2>1
<1> HIDE DEF a, b
<1>2. /\ u \in Seq(S) /\ Len(u) = (IF a <= b THEN b - a + 1 ELSE 0)
      /\ \A i \in 1 .. b - a + 1 : u[i] = s[a + i - 1]
  BY <1>0, <1>1, SubSeqProperties
<1> HIDE DEF u
<1>3. Len(u) = Len(t)  BY <1>0, <1>2
<1>4. \A i \in 1 .. Len(u) : u[i] = t[i]  BY <1>0, <1>2, <1>3
<1>5. u = t  BY <1>2, <1>3, <1>4, SeqEqual
<1> QED  BY <1>5 DEF u, a, b

\* A string that is written in s behind its first o tokens, or the beginning of it.
LEMMA StringRead ==
  ASSUME NEW t \in Text
  PROVE  /\ encodeString(t) \in Seq(Token) /\ Len(encodeString(t)) >= 1
         /\ encodeString(t)[1] \in Digit
         /\ \A s \in Seq(Token), o \in Nat : o <= Len(s) /\ Agrees(s, o, encodeString(t)) =>
              decode_str(s, o + 1) =
                IF o + Len(encodeString(t)) <= Len(s)
                THEN Decoded(StringData(t), o + Len(encodeString(t)) + 1) ELSE Invalid
<1> DEFINE D == Decimal(Len(t))
           E == encodeString(t)
           colon == <<":">>
<1>0. t \in Seq(Token) /\ Len(t) \in Nat  BY DEF Text
<1>1. Spells(D, Len(t))  BY <1>0, NaturalSpelled
<1>2. D \in Seq(Digit) /\ D \in Seq(Token) /\ Len(D) \in Nat /\ Len(D) >= 1
  <2>1. D \in Seq(Digit) /\ Len(D) \in Nat /\ Len(D) >= 1  BY <1>1 DEF Spells
  <2>2. Digit \subseteq Token  BY SpecialTokens
  <2> HIDE DEF D
  <2> QED  BY <2>1, <2>2
<1>3. ":" \in Token /\ ":" \notin Digit /\ ":" # Nul  BY SpecialTokens
<1>4. colon \in Seq(Token) /\ Len(colon) = 1  BY <1>3, Tuples
<1>5. E = Three(D, colon, t)  BY DEF encodeString, Three
<1>6. D[1] \in Digit
  <2>1. 1 \in 1 .. Len(D)  BY <1>2
  <2> HIDE DEF D
  <2> QED  BY <1>2, <2>1, ElementOfSeq
<1> HIDE DEF D, E
<1>7. /\ E \in Seq(Token) /\ Len(E) = Len(D) + 1 + Len(t) /\ E[1] = D[1]
  <2> HIDE DEF colon
  <2>0. D \in Seq(Token) /\ colon \in Seq(Token) /\ t \in Seq(Token)  BY <1>0, <1>2, <1>4
  <2>1. /\ E \in Seq(Token) /\ Len(E) = Len(D) + Len(colon) + Len(t) /\ At(E, 0, D)
    BY <1>5, <2>0, Around
  <2>2. 1 \in 1 .. Len(D)  BY <1>2
  <2>3. E[1] = D[1]  BY <2>1, <2>2, AtFirst
  <2> QED  BY <1>4, <2>1, <2>3
<1>8. ASSUME NEW s \in Seq(Token), NEW o \in Nat, o <= Len(s), Agrees(s, o, E)
      PROVE  decode_str(s, o + 1) =
               IF o + Len(E) <= Len(s) THEN Decoded(StringData(t), o + Len(E) + 1) ELSE Invalid
  <2> DEFINE b     == o + 1
             after == AfterDigits(s, b)
             p     == o + Len(D) + 1
  <2>0. Len(s) \in Nat  OBVIOUS
  <2>1. Agrees(s, o, D) /\ Agrees(s, o + Len(D), colon) /\ Agrees(s, p, t)
    <3> HIDE DEF colon
    <3>0. D \in Seq(Token) /\ colon \in Seq(Token)  BY <1>2, <1>4
    <3>1. D \o colon \in Seq(Token) /\ Len(D \o colon) = Len(D) + 1
      <4>1. D \o colon \in Seq(Token) /\ Len(D \o colon) = Len(D) + Len(colon)
        BY <3>0, ConcatAt
      <4> QED  BY <1>4, <4>1
    <3>2. Agrees(s, o, (D \o colon) \o t)  BY <1>5, <1>8 DEF Three
    <3>3. Agrees(s, o, D \o colon) /\ Agrees(s, o + Len(D \o colon), t)
      BY <1>0, <2>0, <3>1, <3>2, AgreesParts
    <3>4. Agrees(s, o, D) /\ Agrees(s, o + Len(D), colon)
      BY <1>2, <1>4, <2>0, <3>3, AgreesParts
    <3>5. o + Len(D \o colon) = p  BY <1>2, <3>1
    <3> QED  BY <3>3, <3>4, <3>5
  <2>2. /\ CharAt(s, after) = ":" <=> p <= Len(s)
        /\ p <= Len(s) => after = p /\ Value(s, b) = Len(t)
    <3>1. /\ CharAt(s, AfterDigits(s, o + 1)) = ":" <=> o + Len(D) + 1 <= Len(s)
          /\ o + Len(D) + 1 <= Len(s) =>
               AfterDigits(s, o + 1) = o + Len(D) + 1 /\ Value(s, o + 1) = Len(t)
      BY <1>1, <1>3, <1>8, <2>1, NumberRead
    <3> QED  BY <3>1
  <2>3. p \in Nat /\ p + Len(t) = o + Len(E) /\ p <= o + Len(E)  BY <1>0, <1>2, <1>7
  <2>4. decode_str(s, b) =
          IF CharAt(s, after) = ":" /\ Len(s) - after >= Value(s, b)
          THEN Decoded(StringData(SubSeq(s, after + 1, after + Value(s, b))), after + Value(s, b) + 1)
          ELSE Invalid
    BY DEF decode_str
  <2> HIDE DEF after, p, b
  <2>5. CASE o + Len(E) <= Len(s)
    <3>1. p <= Len(s) /\ Len(s) - p >= Len(t) /\ p + Len(t) <= Len(s)
      BY <1>0, <1>7, <2>0, <2>3, <2>5, <1>2
    <3>2. after = p /\ Value(s, b) = Len(t) /\ CharAt(s, after) = ":"  BY <2>2, <3>1
    <3>3. SubSeq(s, p + 1, p + Len(t)) = t
      <4>1. \A i \in 1 .. Len(t) : p + i <= Len(s)  BY <1>0, <2>0, <2>3, <3>1
      <4>2. \A i \in 1 .. Len(t) : s[p + i] = t[i]  BY <2>1, <4>1 DEF Agrees
      <4> QED  BY <1>0, <2>3, <3>1, <4>2, SubSeqIs
    <3>4. decode_str(s, b) = Decoded(StringData(t), p + Len(t) + 1)
      BY <2>4, <3>1, <3>2, <3>3
    <3> QED  BY <2>3, <2>5, <3>4 DEF b
  <2>6. CASE ~ (o + Len(E) <= Len(s))
    <3>1. CASE p <= Len(s)
      <4>1. after = p /\ Value(s, b) = Len(t)  BY <2>2, <3>1
      <4>2. ~ (Len(s) - p >= Len(t))  BY <1>0, <1>2, <1>7, <2>0, <2>3, <2>6
      <4> QED  BY <2>4, <2>6, <4>1, <4>2 DEF b
    <3>2. CASE ~ (p <= Len(s))
      <4>1. ~ (CharAt(s, after) = ":")  BY <2>2, <3>2
      <4> QED  BY <2>4, <2>6, <4>1 DEF b
    <3> QED  BY <3>1, <3>2
  <2> QED  BY <2>5, <2>6
<1>9. Len(E) >= 1  BY <1>0, <1>2, <1>7
<1> QED  BY <1>6, <1>7, <1>8, <1>9 DEF E

\* Decoding ends behind the position where it began, and no later than the text.
Later(s, r, b) == r.begin = 0 \/ r.begin \in b + 1 .. Len(s) + 1

LaterFrom(s, f, b) ==
  \A p \in b .. Len(s) + 1 : Later(s, f[p]["items"], p) /\ Later(s, f[p]["entries"], p)

----------------------------------------------------------------------------
\* What a reading function may return.
LEMMA Results ==
  /\ Threw(Invalid) /\ Invalid.begin = 0
  /\ \A v, b : /\ Decoded(v, b).begin = b /\ Decoded(v, b).value = v
               /\ Threw(Decoded(v, b)) <=> b = 0
BY DEF Threw, Invalid, Decoded

\* A character other than 0 is one of the text's.
LEMMA CharAtIn ==
  ASSUME NEW s \in Seq(Token), NEW b \in Nat \ {0}, NEW c, c # Nul, CharAt(s, b) = c
  PROVE  b <= Len(s) /\ s[b] = c
BY DEF CharAt

\* Each reading function returns a position behind the one it began at, or throws.
LEMMA IntegerLater ==
  ASSUME NEW s \in Seq(Token), NEW b \in 1 .. Len(s)
  PROVE  Later(s, decode_int(s, b), b)
<1> DEFINE positive == CharAt(s, b + 1) # "-"
           first    == IF positive THEN b + 1 ELSE b + 2
           after    == AfterDigits(s, first)
<1>0. Len(s) \in Nat /\ b \in Nat /\ first \in Nat \ {0} /\ first >= b + 1  OBVIOUS
<1>1. \/ decode_int(s, b) = Invalid
      \/ /\ first <= Len(s) /\ CharAt(s, after) = "e"
         /\ \E v : decode_int(s, b) = Decoded(v, after + 1)
  BY DEF decode_int
<1> HIDE DEF positive, first
<1>2. CASE decode_int(s, b) = Invalid  BY <1>2, Results DEF Later
<1>3. ASSUME first <= Len(s), CharAt(s, after) = "e", NEW v, decode_int(s, b) = Decoded(v, after + 1)
      PROVE  Later(s, decode_int(s, b), b)
  <2>1. first \in 1 .. Len(s) + 1  BY <1>0, <1>3
  <2>2. after \in first .. Len(s) + 1  BY <2>1, AfterDigitsIn
  <2> HIDE DEF after
  <2>3. after \in Nat \ {0}  BY <1>0, <2>2
  <2>4. "e" # Nul  BY SpecialTokens
  <2>5. after <= Len(s)  BY <1>3, <2>3, <2>4, CharAtIn
  <2>6. after + 1 \in b + 1 .. Len(s) + 1  BY <1>0, <2>2, <2>5
  <2> QED  BY <1>3, <2>6, Results DEF Later
<1> HIDE DEF after
<1> QED  BY <1>1, <1>2, <1>3

\* A string too.
LEMMA StringLater ==
  ASSUME NEW s \in Seq(Token), NEW b \in 1 .. Len(s) + 1
  PROVE  Later(s, decode_str(s, b), b)
<1> DEFINE after == AfterDigits(s, b)
           len   == Value(s, b)
<1>0. Len(s) \in Nat /\ b \in Nat /\ len \in Nat  BY ValueNatural
<1>1. after \in b .. Len(s) + 1  BY AfterDigitsIn
<1>2. decode_str(s, b) =
        IF CharAt(s, after) = ":" /\ Len(s) - after >= len
        THEN Decoded(StringData(SubSeq(s, after + 1, after + len)), after + len + 1) ELSE Invalid
  BY DEF decode_str
<1> HIDE DEF after, len
<1>3. CASE Len(s) - after >= len
  <2>1. after + len + 1 \in b + 1 .. Len(s) + 1  BY <1>0, <1>1, <1>3
  <2> QED  BY <1>2, <2>1, Results DEF Later
<1>4. CASE ~ (Len(s) - after >= len)  BY <1>2, <1>4, Results DEF Later
<1> QED  BY <1>3, <1>4

\* A value, if the loops do so at the positions behind.
LEMMA DataLater ==
  ASSUME NEW s \in Seq(Token), NEW b \in 1 .. Len(s) + 1, NEW f, LaterFrom(s, f, b + 1)
  PROVE  Later(s, decode_data(s, f, b), b)
<1> DEFINE c == CharAt(s, b)
           d == decode_data(s, f, b)
<1>0. b \in Nat \ {0} /\ Len(s) \in Nat  OBVIOUS
<1>1. "i" # Nul /\ "l" # Nul /\ "d" # Nul  BY SpecialTokens
<1>2. \/ d = decode_int(s, b) /\ c = "i"
      \/ d = decode_list(s, f, b) /\ c = "l"
      \/ d = decode_dict(s, f, b) /\ c = "d"
      \/ d = decode_str(s, b)
      \/ d = Invalid
  BY DEF decode_data
<1>3. CASE d = decode_int(s, b) /\ c = "i"
  <2>1. b <= Len(s)  BY <1>0, <1>1, <1>3, CharAtIn
  <2>2. b \in 1 .. Len(s)  BY <1>0, <2>1
  <2> HIDE DEF d
  <2>3. Later(s, d, b)  BY <1>3, <2>2, IntegerLater
  <2> QED  BY <2>3 DEF d
<1>4. CASE d = decode_list(s, f, b) /\ c = "l"
  <2> DEFINE r == f[b + 1]["items"]
  <2>1. b <= Len(s)  BY <1>0, <1>1, <1>4, CharAtIn
  <2>2. b + 1 \in b + 1 .. Len(s) + 1  BY <1>0, <2>1
  <2>3. Later(s, r, b + 1)  BY <2>2 DEF LaterFrom
  <2> HIDE DEF d
  <2>4. d = IF Threw(r) THEN Invalid ELSE Decoded(ListData(r.value), r.begin)
    BY <1>4 DEF decode_list
  <2> HIDE DEF r
  <2>5. d.begin = 0 \/ d.begin = r.begin  BY <2>4, Results
  <2>6. r.begin \in (b + 1) + 1 .. Len(s) + 1 => r.begin \in b + 1 .. Len(s) + 1  BY <1>0
  <2>7. Later(s, d, b)  BY <2>3, <2>5, <2>6 DEF Later
  <2> QED  BY <2>7 DEF d
<1>5. CASE d = decode_dict(s, f, b) /\ c = "d"
  <2> DEFINE r == f[b + 1]["entries"]
  <2>1. b <= Len(s)  BY <1>0, <1>1, <1>5, CharAtIn
  <2>2. b + 1 \in b + 1 .. Len(s) + 1  BY <1>0, <2>1
  <2>3. Later(s, r, b + 1)  BY <2>2 DEF LaterFrom
  <2> HIDE DEF d
  <2>4. d = IF Threw(r) THEN Invalid ELSE Decoded(DictData(r.value), r.begin)
    BY <1>5 DEF decode_dict
  <2> HIDE DEF r
  <2>5. d.begin = 0 \/ d.begin = r.begin  BY <2>4, Results
  <2>6. r.begin \in (b + 1) + 1 .. Len(s) + 1 => r.begin \in b + 1 .. Len(s) + 1  BY <1>0
  <2>7. Later(s, d, b)  BY <2>3, <2>5, <2>6 DEF Later
  <2> QED  BY <2>7 DEF d
<1>6. CASE d = decode_str(s, b)  BY <1>6, StringLater
<1>7. CASE d = Invalid
  <2>1. d.begin = 0  BY <1>7, Results
  <2> QED  BY <2>1 DEF Later
<1> HIDE DEF c, d
<1>8. Later(s, d, b)  BY <1>2, <1>3, <1>4, <1>5, <1>6, <1>7 DEF d, c
<1> QED  BY <1>8 DEF d

\* The loop of decode_list.
LEMMA ItemsLater ==
  ASSUME NEW s \in Seq(Token), NEW b \in 1 .. Len(s) + 1, NEW f, LaterFrom(s, f, b + 1)
  PROVE  Later(s, Items(s, f, b), b)
<1> DEFINE item == decode_data(s, f, b)
           rest == IF Threw(item) THEN Invalid ELSE f[item.begin]["items"]
           r    == Items(s, f, b)
<1> SUFFICES Later(s, r, b)
  OBVIOUS
<1>0. Len(s) \in Nat /\ b \in Nat  OBVIOUS
<1>1. \/ r = Invalid
      \/ b <= Len(s) /\ r = Decoded(<< >>, b + 1)
      \/ ~Threw(rest) /\ r = Decoded(<<item.value>> \o rest.value, rest.begin)
  BY DEF Items
<1>2. Later(s, item, b)  BY DataLater
<1> HIDE DEF item, r
<1>3. CASE r = Invalid  BY <1>3, Results DEF Later
<1>4. CASE b <= Len(s) /\ r = Decoded(<< >>, b + 1)
  <2>1. b + 1 \in b + 1 .. Len(s) + 1  BY <1>0, <1>4
  <2> QED  BY <1>4, <2>1, Results DEF Later
<1>5. CASE ~Threw(rest) /\ r = Decoded(<<item.value>> \o rest.value, rest.begin)
  <2>1. ~Threw(item) /\ rest = f[item.begin]["items"]  BY <1>5, Results
  <2>2. item.begin \in b + 1 .. Len(s) + 1  BY <1>2, <2>1 DEF Later, Threw
  <2>3. Later(s, rest, item.begin)  BY <2>1, <2>2 DEF LaterFrom
  <2> HIDE DEF rest
  <2>4. rest.begin \in item.begin + 1 .. Len(s) + 1  BY <1>5, <2>3 DEF Later, Threw
  <2>5. rest.begin \in b + 1 .. Len(s) + 1  BY <1>0, <2>2, <2>4
  <2>6. r.begin = rest.begin  BY <1>5, Results
  <2> QED  BY <2>5, <2>6 DEF Later
<1> HIDE DEF rest
<1> QED  BY <1>1, <1>3, <1>4, <1>5

\* The loop of decode_dict.
LEMMA EntriesLater ==
  ASSUME NEW s \in Seq(Token), NEW b \in 1 .. Len(s) + 1, NEW f, LaterFrom(s, f, b + 1)
  PROVE  Later(s, Entries(s, f, b), b)
<1> DEFINE key   == decode_str(s, b)
           value == IF Threw(key) THEN Invalid ELSE decode_data(s, f, key.begin)
           rest  == IF Threw(value) THEN Invalid ELSE f[value.begin]["entries"]
           r     == Entries(s, f, b)
<1> SUFFICES Later(s, r, b)
  OBVIOUS
<1>0. Len(s) \in Nat /\ b \in Nat  OBVIOUS
<1>1. \/ r = Invalid
      \/ b <= Len(s) /\ r = Decoded(NoEntries, b + 1)
      \/ /\ ~Threw(rest)
         /\ r = Decoded(WithEntry(rest.value, key.value.string, value.value), rest.begin)
  BY DEF Entries
<1>2. Later(s, key, b)  BY StringLater
<1> HIDE DEF key, r
<1>3. CASE r = Invalid  BY <1>3, Results DEF Later
<1>4. CASE b <= Len(s) /\ r = Decoded(NoEntries, b + 1)
  <2>1. b + 1 \in b + 1 .. Len(s) + 1  BY <1>0, <1>4
  <2> QED  BY <1>4, <2>1, Results DEF Later
<1>5. CASE /\ ~Threw(rest)
           /\ r = Decoded(WithEntry(rest.value, key.value.string, value.value), rest.begin)
  <2>1. ~Threw(value) /\ rest = f[value.begin]["entries"]  BY <1>5, Results
  <2>2. ~Threw(key) /\ value = decode_data(s, f, key.begin)  BY <2>1, Results
  <2>3. key.begin \in b + 1 .. Len(s) + 1  BY <1>2, <2>2 DEF Later, Threw
  <2>4. key.begin \in 1 .. Len(s) + 1 /\ key.begin + 1 \in Nat /\ key.begin >= b + 1
    BY <1>0, <2>3
  <2>5. LaterFrom(s, f, key.begin + 1)
    <3>1. \A p \in key.begin + 1 .. Len(s) + 1 : p \in b + 1 .. Len(s) + 1  BY <1>0, <2>4
    <3> QED  BY <3>1 DEF LaterFrom
  <2>6. Later(s, decode_data(s, f, key.begin), key.begin)
    <3> DEFINE k == key.begin
    <3>1. k \in 1 .. Len(s) + 1 /\ LaterFrom(s, f, k + 1)  BY <2>4, <2>5
    <3> HIDE DEF k
    <3>2. Later(s, decode_data(s, f, k), k)  BY <3>1, DataLater
    <3> QED  BY <3>2 DEF k
  <2>7. Later(s, value, key.begin)  BY <2>2, <2>6
  <2> HIDE DEF value
  <2>8. value.begin \in key.begin + 1 .. Len(s) + 1  BY <2>1, <2>7 DEF Later, Threw
  <2>9. value.begin \in b + 1 .. Len(s) + 1 /\ value.begin >= b + 1  BY <1>0, <2>4, <2>8
  <2>10. Later(s, rest, value.begin)  BY <2>1, <2>9 DEF LaterFrom
  <2> HIDE DEF rest
  <2>11. rest.begin \in value.begin + 1 .. Len(s) + 1  BY <1>5, <2>10 DEF Later, Threw
  <2>12. rest.begin \in b + 1 .. Len(s) + 1  BY <1>0, <2>9, <2>11
  <2>13. r.begin = rest.begin  BY <1>5, Results
  <2> QED  BY <2>12, <2>13 DEF Later
<1> HIDE DEF value, rest
<1> QED  BY <1>1, <1>3, <1>4, <1>5

SameAfter(s, f, g, b) == \A p \in b + 1 .. Len(s) + 1 : f[p] = g[p]

\* What a value is read from depends on the loops behind it only.
LEMMA DataLocal ==
  ASSUME NEW s \in Seq(Token), NEW b \in 1 .. Len(s) + 1, NEW f, NEW g, SameAfter(s, f, g, b)
  PROVE  decode_data(s, f, b) = decode_data(s, g, b)
<1>0. b \in Nat \ {0} /\ Len(s) \in Nat  OBVIOUS
<1>3. "l" # Nul /\ "d" # Nul  BY SpecialTokens
<1>1. CASE b <= Len(s)
  <2>1. b + 1 \in b + 1 .. Len(s) + 1  BY <1>0, <1>1
  <2>2. f[b + 1] = g[b + 1]  BY <2>1 DEF SameAfter
  <2>3. /\ decode_list(s, f, b) = decode_list(s, g, b)
        /\ decode_dict(s, f, b) = decode_dict(s, g, b)
    BY <2>2 DEF decode_list, decode_dict
  <2> QED  BY <2>3 DEF decode_data
<1>2. CASE ~ (b <= Len(s))
  <2>1. CharAt(s, b) # "l" /\ CharAt(s, b) # "d"  BY <1>2, <1>3 DEF CharAt
  <2> QED  BY <2>1 DEF decode_data
<1> QED  BY <1>1, <1>2

\* So do the loops themselves.
LEMMA LoopsLocal ==
  ASSUME NEW s \in Seq(Token), NEW b \in 1 .. Len(s) + 1, NEW f, NEW g, SameAfter(s, f, g, b),
         LaterFrom(s, f, b + 1)
  PROVE  Items(s, f, b) = Items(s, g, b) /\ Entries(s, f, b) = Entries(s, g, b)
<1>0. Len(s) \in Nat /\ b \in Nat  OBVIOUS
<1>1. Items(s, f, b) = Items(s, g, b)
  <2> DEFINE item == decode_data(s, f, b)
  <2>1. item = decode_data(s, g, b)  BY DataLocal
  <2>2. Later(s, item, b)  BY DataLater
  <2> HIDE DEF item
  <2>3. Threw(item) \/ f[item.begin] = g[item.begin]  BY <2>2 DEF Later, Threw, SameAfter
  <2>4. (IF Threw(item) THEN Invalid ELSE f[item.begin]["items"])
          = (IF Threw(item) THEN Invalid ELSE g[item.begin]["items"])
    BY <2>3
  <2> QED  BY <2>1, <2>4 DEF Items, item
<1>2. Entries(s, f, b) = Entries(s, g, b)
  <2> DEFINE key == decode_str(s, b)
             k   == key.begin
             v1  == IF Threw(key) THEN Invalid ELSE decode_data(s, f, key.begin)
             v2  == IF Threw(key) THEN Invalid ELSE decode_data(s, g, key.begin)
  <2>1. Later(s, key, b)  BY StringLater
  <2> HIDE DEF key
  <2>2. v1 = v2 /\ (Threw(v1) \/ v1.begin \in b + 1 .. Len(s) + 1)
    <3>1. CASE Threw(key)  BY <3>1, Results
    <3>2. CASE ~Threw(key)
      <4>1. k \in b + 1 .. Len(s) + 1  BY <2>1, <3>2 DEF Later, Threw
      <4>2. /\ k \in 1 .. Len(s) + 1 /\ k >= b + 1 /\ k \in Nat
            /\ \A p \in k + 1 .. Len(s) + 1 : p \in b + 1 .. Len(s) + 1
        BY <1>0, <4>1
      <4>3. v1 = decode_data(s, f, k) /\ v2 = decode_data(s, g, k)  BY <3>2
      <4> HIDE DEF k, v1, v2
      <4>4. LaterFrom(s, f, k + 1) /\ SameAfter(s, f, g, k)  BY <4>2 DEF LaterFrom, SameAfter
      <4>5. decode_data(s, f, k) = decode_data(s, g, k)  BY <4>2, <4>4, DataLocal
      <4>6. Later(s, v1, k)  BY <4>2, <4>3, <4>4, DataLater
      <4>7. \A p \in k + 1 .. Len(s) + 1 : p \in b + 1 .. Len(s) + 1  BY <4>2
      <4> QED  BY <4>3, <4>5, <4>6, <4>7 DEF Later, Threw
    <3> QED  BY <3>1, <3>2
  <2> HIDE DEF v1, v2
  <2>3. Threw(v1) \/ f[v1.begin] = g[v1.begin]  BY <2>2 DEF SameAfter
  <2>4. (IF Threw(v1) THEN Invalid ELSE f[v1.begin]["entries"])
          = (IF Threw(v2) THEN Invalid ELSE g[v2.begin]["entries"])
    BY <2>2, <2>3
  <2> QED  BY <2>2, <2>4 DEF Entries, key, v1, v2
<1> QED  BY <1>1, <1>2

\* The function that Loops is defined by.
LoopsAt(s, f, b) ==
  [loop \in {"items", "entries"} |-> IF loop = "items" THEN Items(s, f, b) ELSE Entries(s, f, b)]

IsLoops(f, s, from) == f = [b \in from .. Len(s) + 1 |-> LoopsAt(s, f, b)]

\* The loops exist as a recursive function, by induction from the end of the text.
LEMMA LoopsExist ==
  ASSUME NEW s \in Seq(Token)
  PROVE  \E f : IsLoops(f, s, 1) /\ LaterFrom(s, f, 1)
<1> DEFINE Good == {k \in Nat : k <= Len(s) + 1 =>
                      \E f : IsLoops(f, s, Len(s) + 2 - k) /\ LaterFrom(s, f, Len(s) + 2 - k)}
<1>0. Len(s) \in Nat  OBVIOUS
<1>1. 0 \in Good
  <2> DEFINE f == [b \in {} |-> 0]
  <2>1. Len(s) + 2 - 0 .. Len(s) + 1 = {}  BY <1>0
  <2>2. f = [b \in {} |-> LoopsAt(s, f, b)]  OBVIOUS
  <2>3. IsLoops(f, s, Len(s) + 2 - 0)  BY <2>1, <2>2 DEF IsLoops
  <2>4. LaterFrom(s, f, Len(s) + 2 - 0)  BY <2>1 DEF LaterFrom
  <2> QED  BY <2>3, <2>4
<1>2. ASSUME NEW k \in Nat, k \in Good PROVE k + 1 \in Good
  <2> DEFINE b == Len(s) + 2 - (k + 1)
             a == Len(s) + 2 - k
             L == Len(s) + 1
  <2> SUFFICES ASSUME k + 1 <= L PROVE \E g : IsLoops(g, s, b) /\ LaterFrom(s, g, b)
    OBVIOUS
  <2>0. k <= L /\ a = b + 1 /\ b \in 1 .. Len(s) + 1 /\ b \in Nat  BY <1>0
  <2>1. PICK f : IsLoops(f, s, a) /\ LaterFrom(s, f, a)  BY <1>2, <2>0
  <2> HIDE DEF a, b, L
  <2> DEFINE g == [x \in b .. Len(s) + 1 |-> IF x = b THEN LoopsAt(s, f, b) ELSE f[x]]
  <2>2. /\ \A x \in a .. Len(s) + 1 : x \in b .. Len(s) + 1 /\ x # b
        /\ \A x \in b .. Len(s) + 1 : x = b \/ x \in a .. Len(s) + 1
        /\ b \in b .. Len(s) + 1
    BY <1>0, <2>0
  <2>3. g[b] = LoopsAt(s, f, b) /\ \A x \in a .. Len(s) + 1 : g[x] = f[x]  BY <2>2
  <2>4. \A x \in a .. Len(s) + 1 : f[x] = LoopsAt(s, f, x)
    BY <2>1, Zenon DEF IsLoops
  <2>7. DOMAIN g = b .. Len(s) + 1 /\ g = [x \in b .. Len(s) + 1 |-> g[x]]  OBVIOUS
  <2> HIDE DEF g
  <2>5. \A x \in b .. Len(s) + 1 : LoopsAt(s, f, x) = LoopsAt(s, g, x)
    <3> SUFFICES ASSUME NEW x \in b .. Len(s) + 1 PROVE LoopsAt(s, f, x) = LoopsAt(s, g, x)
      OBVIOUS
    <3>1. x \in 1 .. Len(s) + 1 /\ \A p \in x + 1 .. Len(s) + 1 : p \in a .. Len(s) + 1
      BY <1>0, <2>0
    <3>2. SameAfter(s, f, g, x)  BY <2>3, <3>1 DEF SameAfter
    <3>3. LaterFrom(s, f, x + 1)  BY <2>1, <3>1 DEF LaterFrom
    <3>4. Items(s, f, x) = Items(s, g, x) /\ Entries(s, f, x) = Entries(s, g, x)
      BY <3>1, <3>2, <3>3, LoopsLocal
    <3> QED  BY <3>4 DEF LoopsAt
  <2>6. \A x \in b .. Len(s) + 1 : g[x] = LoopsAt(s, g, x)
    BY <2>2, <2>3, <2>4, <2>5
  <2>8. IsLoops(g, s, b)  BY <2>6, <2>7 DEF IsLoops
  <2>9. LaterFrom(s, g, b)
    <3> SUFFICES ASSUME NEW p \in b .. Len(s) + 1
                 PROVE  Later(s, g[p]["items"], p) /\ Later(s, g[p]["entries"], p)
      BY DEF LaterFrom
    <3>1. CASE p = b
      <4>1. g[p]["items"] = Items(s, f, b) /\ g[p]["entries"] = Entries(s, f, b)
        BY <2>3, <3>1 DEF LoopsAt
      <4>2. LaterFrom(s, f, b + 1)  BY <2>0, <2>1
      <4>3. Later(s, Items(s, f, b), b) /\ Later(s, Entries(s, f, b), b)
        BY <2>0, <4>2, ItemsLater, EntriesLater
      <4> QED  BY <3>1, <4>1, <4>3
    <3>2. CASE p # b
      <4>1. p \in a .. Len(s) + 1  BY <2>2, <3>2
      <4>2. g[p] = f[p]  BY <2>3, <4>1
      <4>3. Later(s, f[p]["items"], p) /\ Later(s, f[p]["entries"], p)
        BY <2>1, <4>1 DEF LaterFrom
      <4> QED  BY <4>2, <4>3
    <3> QED  BY <3>1, <3>2
  <2> QED  BY <2>8, <2>9
<1>3. \A k \in Nat : k \in Good
  <2> HIDE DEF Good
  <2> QED  BY <1>1, <1>2, NumberInduction
<1>4. Len(s) + 1 \in Nat /\ Len(s) + 2 - (Len(s) + 1) = 1 /\ Len(s) + 1 <= Len(s) + 1  BY <1>0
<1>5. \E f : IsLoops(f, s, Len(s) + 2 - (Len(s) + 1)) /\ LaterFrom(s, f, Len(s) + 2 - (Len(s) + 1))
  <2>1. Len(s) + 1 \in Good  BY <1>3, <1>4
  <2> QED  BY <1>4, <2>1
<1> QED  BY <1>4, <1>5

\* What the loops make of each position of s.
LEMMA LoopsRead ==
  ASSUME NEW s \in Seq(Token), NEW b \in 1 .. Len(s) + 1
  PROVE  /\ Loops(s)[b]["items"] = Items(s, Loops(s), b)
         /\ Loops(s)[b]["entries"] = Entries(s, Loops(s), b)
<1> DEFINE f == CHOOSE g : IsLoops(g, s, 1)
<1>1. Loops(s) = f  BY DEF Loops, IsLoops, LoopsAt
<1>2. IsLoops(f, s, 1)  BY LoopsExist
<1> HIDE DEF f
<1>3. f[b] = LoopsAt(s, f, b)  BY <1>2, Zenon DEF IsLoops
<1>4. f[b]["items"] = Items(s, f, b) /\ f[b]["entries"] = Entries(s, f, b)
  BY <1>3 DEF LoopsAt
<1> QED  BY <1>1, <1>4

----------------------------------------------------------------------------
\* E is how v is written: whoever decodes a text in which E stands, or the beginning
\* of E stands last, finds v or an error.
Reads(E, v) ==
  /\ E \in Seq(Token) /\ Len(E) \in Nat /\ Len(E) >= 1 /\ E[1] # "e"
  /\ \A s \in Seq(Token), o \in Nat : o <= Len(s) /\ Agrees(s, o, E) =>
       decode_data(s, Loops(s), o + 1) =
         IF o + Len(E) <= Len(s) THEN Decoded(v, o + Len(E) + 1) ELSE Invalid

\* Either decode_data looks at the first token of what is encoded, or all of it is cut off.
LEMMA FirstToken ==
  ASSUME NEW s \in Seq(Token), NEW o \in Nat, o <= Len(s), NEW E, Len(E) \in Nat, Len(E) >= 1,
         Agrees(s, o, E)
  PROVE  \/ o + 1 <= Len(s) /\ CharAt(s, o + 1) = E[1] /\ s[o + 1] = E[1]
         \/ /\ ~ (o + 1 <= Len(s)) /\ ~ (o + Len(E) <= Len(s)) /\ CharAt(s, o + 1) = Nul
            /\ \A f : decode_data(s, f, o + 1) = Invalid
<1>0. Len(s) \in Nat /\ 1 \in 1 .. Len(E)  OBVIOUS
<1>1. CASE o + 1 <= Len(s)
  <2>1. s[o + 1] = E[1]  BY <1>0, <1>1 DEF Agrees
  <2>2. CharAt(s, o + 1) = E[1]  BY <1>1, <2>1 DEF CharAt
  <2> QED  BY <1>1, <2>1, <2>2
<1>2. CASE ~ (o + 1 <= Len(s))
  <2>1. ~ (o + Len(E) <= Len(s))  BY <1>0, <1>2
  <2>2. CharAt(s, o + 1) = Nul  BY <1>2 DEF CharAt
  <2>3. Nul # "i" /\ Nul # "l" /\ Nul # "d" /\ Nul \notin Digit  BY SpecialTokens
  <2>4. \A f : decode_data(s, f, o + 1) = Invalid  BY <2>2, <2>3 DEF decode_data
  <2> QED  BY <1>2, <2>1, <2>2, <2>4
<1> QED  BY <1>1, <1>2

\* decode_str reads what encodeString has written, whatever the string holds.
LEMMA StringReads ==
  ASSUME NEW t \in Text
  PROVE  Reads(encodeString(t), StringData(t))
<1> DEFINE E == encodeString(t)
<1>1. /\ E \in Seq(Token) /\ Len(E) >= 1 /\ E[1] \in Digit
      /\ \A s \in Seq(Token), o \in Nat : o <= Len(s) /\ Agrees(s, o, E) =>
           decode_str(s, o + 1) =
             IF o + Len(E) <= Len(s) THEN Decoded(StringData(t), o + Len(E) + 1) ELSE Invalid
  BY StringRead
<1> HIDE DEF E
<1>2. Len(E) \in Nat  BY <1>1
<1>3. E[1] # "e" /\ E[1] # "i" /\ E[1] # "l" /\ E[1] # "d"  BY <1>1, SpecialTokens
<1>4. ASSUME NEW s \in Seq(Token), NEW o \in Nat, o <= Len(s), Agrees(s, o, E)
      PROVE  decode_data(s, Loops(s), o + 1) =
               IF o + Len(E) <= Len(s) THEN Decoded(StringData(t), o + Len(E) + 1) ELSE Invalid
  <2>1. CASE CharAt(s, o + 1) = E[1]
    <3>1. decode_data(s, Loops(s), o + 1) = decode_str(s, o + 1)
      BY <1>1, <1>3, <2>1 DEF decode_data
    <3> QED  BY <1>1, <1>4, <3>1
  <2>2. CASE /\ ~ (o + Len(E) <= Len(s))
             /\ \A f : decode_data(s, f, o + 1) = Invalid
    BY <2>2
  <2> QED  BY <1>1, <1>2, <1>4, <2>1, <2>2, FirstToken
<1> QED  BY <1>1, <1>2, <1>3, <1>4 DEF Reads, E

\* An integer, with a sign or without.
LEMMA IntegerParts ==
  ASSUME NEW n \in Int
  PROVE  \E sign \in {<< >>, <<"-">>}, D \in Seq(Digit), m \in Nat :
           /\ Decimal(n) = sign \o D /\ Spells(D, m)
           /\ sign = << >> => n = m
           /\ sign = <<"-">> => n = -m
<1>1. CASE n < 0
  <2>1. -n \in Nat /\ Decimal(n) = <<"-">> \o Decimal(-n)  BY <1>1, NegativeSpelled
  <2>2. Spells(Decimal(-n), -n)  BY <2>1, NaturalSpelled
  <2>3. Decimal(-n) \in Seq(Digit)  BY <2>2 DEF Spells
  <2>4. n = -(-n) /\ <<"-">> # << >>  OBVIOUS
  <2> QED  BY <2>1, <2>2, <2>3, <2>4
<1>2. CASE ~ (n < 0)
  <2>1. n \in Nat  BY <1>2
  <2>2. Spells(Decimal(n), n)  BY <2>1, NaturalSpelled
  <2>3. Decimal(n) \in Seq(Digit)  BY <2>2 DEF Spells
  <2>4. Decimal(n) = << >> \o Decimal(n)  BY <2>3, ConcatEmptySeq
  <2>5. <<"-">> # << >>  OBVIOUS
  <2> QED  BY <2>1, <2>2, <2>3, <2>4, <2>5
<1> QED  BY <1>1, <1>2

IntegerText(n) == <<"i">> \o Decimal(n) \o <<"e">>

\* decode_int reads the number that was written.
LEMMA IntegerReads ==
  ASSUME NEW n \in Int
  PROVE  Reads(IntegerText(n), IntegerData(n))
<1> DEFINE i == <<"i">>
           e == <<"e">>
           E == IntegerText(n)
<1>1. PICK sign \in {<< >>, <<"-">>}, D \in Seq(Digit), m \in Nat :
        /\ Decimal(n) = sign \o D /\ Spells(D, m)
        /\ sign = << >> => n = m
        /\ sign = <<"-">> => n = -m
  BY IntegerParts
<1>2. "i" \in Token /\ "e" \in Token /\ "-" \in Token /\ Digit \subseteq Token  BY SpecialTokens
<1>3. /\ i \in Seq(Token) /\ Len(i) = 1 /\ i[1] = "i" /\ e \in Seq(Token) /\ Len(e) = 1
      /\ sign \in Seq(Token) /\ (sign = << >> => Len(sign) = 0)
      /\ (sign = <<"-">> => Len(sign) = 1 /\ sign[1] = "-") /\ Len(sign) \in Nat
  <2>1. i \in Seq(Token) /\ Len(i) = 1 /\ i[1] = "i"  BY <1>2, Tuples
  <2>2. e \in Seq(Token) /\ Len(e) = 1  BY <1>2, Tuples
  <2>3. <<"-">> \in Seq(Token) /\ Len(<<"-">>) = 1 /\ <<"-">>[1] = "-"  BY <1>2, Tuples
  <2>4. << >> \in Seq(Token) /\ Len(<< >>) = 0  BY EmptySeq
  <2>5. sign \in Seq(Token) /\ (sign = << >> => Len(sign) = 0)
        /\ (sign = <<"-">> => Len(sign) = 1 /\ sign[1] = "-") /\ Len(sign) \in Nat
    BY <2>3, <2>4
  <2> QED  BY <2>1, <2>2, <2>5
<1>4. D \in Seq(Token) /\ Len(D) \in Nat /\ Len(D) >= 1 /\ D[1] \in Digit
  <2>1. Len(D) \in Nat /\ Len(D) >= 1 /\ D \in Seq(Digit)  BY <1>1 DEF Spells
  <2>2. D \in Seq(Token)  BY <1>2, <2>1
  <2>3. 1 \in 1 .. Len(D)  BY <2>1
  <2>4. D[1] \in Digit  BY <2>1, <2>3, ElementOfSeq
  <2> QED  BY <2>1, <2>2, <2>4
<1> DEFINE SD == sign \o D
<1>5. SD \in Seq(Token) /\ Len(SD) = Len(sign) + Len(D)  BY <1>3, <1>4, ConcatAt
<1>6. E = Three(i, SD, e)  BY <1>1 DEF IntegerText, Three
<1> HIDE DEF SD, E
<1>7. /\ E \in Seq(Token) /\ Len(E) = Len(sign) + Len(D) + 2 /\ Len(E) \in Nat /\ Len(E) >= 1
      /\ E[1] = "i"
  <2> HIDE DEF i, e
  <2>1. i \in Seq(Token) /\ SD \in Seq(Token) /\ e \in Seq(Token)  BY <1>3, <1>5
  <2>2. E \in Seq(Token) /\ Len(E) = Len(i) + Len(SD) + Len(e) /\ At(E, 0, i)
    BY <1>6, <2>1, Around
  <2>3. 1 \in 1 .. Len(i)  BY <1>3
  <2>4. E[1] = i[1]  BY <2>2, <2>3, AtFirst
  <2>5. Len(E) = Len(sign) + Len(D) + 2  BY <1>3, <1>4, <1>5, <2>2
  <2>6. Len(E) \in Nat /\ Len(E) >= 1  BY <1>3, <1>4, <2>5
  <2>7. E[1] = "i"  BY <1>3, <2>4
  <2> QED  BY <2>2, <2>5, <2>6, <2>7
<1>8. ASSUME NEW s \in Seq(Token), NEW o \in Nat, o <= Len(s), Agrees(s, o, E)
      PROVE  decode_data(s, Loops(s), o + 1) =
               IF o + Len(E) <= Len(s) THEN Decoded(IntegerData(n), o + Len(E) + 1) ELSE Invalid
  <2>0. Len(s) \in Nat  OBVIOUS
  <2> DEFINE a == o + 1
             b == a + Len(sign)
  <2>1. Agrees(s, a, sign) /\ Agrees(s, b, D) /\ Agrees(s, b + Len(D), e)
    <3> HIDE DEF i, e
    <3>1. i \in Seq(Token) /\ SD \in Seq(Token) /\ e \in Seq(Token)  BY <1>3, <1>5
    <3>2. i \o SD \in Seq(Token) /\ Len(i \o SD) = Len(i) + Len(SD)  BY <3>1, ConcatAt
    <3>3. Agrees(s, o, (i \o SD) \o e)  BY <1>6, <1>8 DEF Three
    <3>4. Agrees(s, o, i \o SD) /\ Agrees(s, o + Len(i \o SD), e)
      BY <2>0, <3>1, <3>2, <3>3, AgreesParts
    <3>5. Agrees(s, o + Len(i), SD)  BY <2>0, <3>1, <3>4, AgreesParts
    <3>6. Agrees(s, a, SD) /\ a \in Nat  BY <1>3, <3>5
    <3> HIDE DEF a
    <3>7. Agrees(s, a, sign) /\ Agrees(s, a + Len(sign), D)
      BY <1>3, <1>4, <2>0, <3>6, AgreesParts DEF SD
    <3>8. o + Len(i \o SD) = b + Len(D)  BY <1>3, <1>4, <1>5, <3>2 DEF a
    <3> QED  BY <3>4, <3>7, <3>8
  <2>2. b \in Nat /\ a \in Nat /\ o + Len(E) = b + Len(D) + 1 /\ b >= a  BY <1>3, <1>4, <1>7
  <2>3. CASE a <= Len(s) /\ CharAt(s, a) = "i"
    <3>1. decode_data(s, Loops(s), o + 1) = decode_int(s, a)
      <4>1. "i" \notin Digit  BY SpecialTokens
      <4> QED  BY <2>3, <4>1 DEF decode_data
    <3> DEFINE positive == CharAt(s, a + 1) # "-"
               first    == IF positive THEN a + 1 ELSE a + 2
               after    == AfterDigits(s, first)
    <3>2. decode_int(s, a) =
            IF first <= Len(s) /\ CharAt(s, after) = "e"
            THEN Decoded(IntegerData(IF positive THEN Value(s, first) ELSE -Value(s, first)), after + 1)
            ELSE Invalid
      BY DEF decode_int
    <3> HIDE DEF positive, after
    <3>3. CASE ~ (a + 1 <= Len(s))
      <4>1. ~ (first <= Len(s))  BY <2>0, <2>2, <3>3
      <4>2. ~ (o + Len(E) <= Len(s))  BY <1>4, <2>0, <2>2, <3>3
      <4> QED  BY <3>1, <3>2, <4>1, <4>2
    <3>4. CASE a + 1 <= Len(s)
      <4>1. b + 1 = first /\ (positive <=> sign = << >>)
        <5>1. CASE sign = << >>
          <6>1. b = a  BY <1>3, <2>2, <5>1
          <6>2. 1 \in 1 .. Len(D)  BY <1>4
          <6>3. s[a + 1] = D[1]  BY <2>1, <3>4, <6>1, <6>2 DEF Agrees
          <6>4. D[1] # "-"  BY <1>4, SpecialTokens
          <6>5. positive  BY <3>4, <6>3, <6>4 DEF positive, CharAt
          <6> QED  BY <5>1, <6>1, <6>5
        <5>2. CASE sign = <<"-">>
          <6>1. b = a + 1 /\ sign # << >>  BY <1>3, <2>2, <5>2
          <6>2. 1 \in 1 .. Len(sign) /\ sign[1] = "-"  BY <1>3, <5>2
          <6>3. s[a + 1] = "-"  BY <2>1, <3>4, <6>2 DEF Agrees
          <6>4. ~positive  BY <3>4, <6>3 DEF positive, CharAt
          <6>5. b + 1 = a + 2  BY <2>2, <6>1
          <6> QED  BY <6>1, <6>4, <6>5
        <5> QED  BY <5>1, <5>2
      <4> HIDE DEF first
      <4>2. CASE b <= Len(s)
        <5>1. "e" \notin Digit /\ "e" # Nul  BY SpecialTokens
        <5> DEFINE c == "e"
        <5>2. c \notin Digit /\ c # Nul /\ Agrees(s, b + Len(D), <<c>>)  BY <2>1, <5>1
        <5> HIDE DEF c
        <5> HIDE DEF b
        <5>3. /\ CharAt(s, AfterDigits(s, b + 1)) = c <=> b + Len(D) + 1 <= Len(s)
              /\ b + Len(D) + 1 <= Len(s) =>
                   AfterDigits(s, b + 1) = b + Len(D) + 1 /\ Value(s, b + 1) = m
          BY <1>1, <2>1, <2>2, <4>2, <5>2, NumberRead
        <5>4. /\ CharAt(s, after) = "e" <=> o + Len(E) <= Len(s)
              /\ o + Len(E) <= Len(s) => after = o + Len(E) /\ Value(s, first) = m
          BY <2>2, <4>1, <5>3 DEF after, c
        <5>5. CASE o + Len(E) <= Len(s)
          <6>1. b + 1 <= Len(s)  BY <1>4, <2>0, <2>2, <5>5
          <6>2. first <= Len(s)  BY <4>1, <6>1
          <6>3. (IF positive THEN Value(s, first) ELSE -Value(s, first)) = n
            <7>1. CASE sign = << >>  BY <1>1, <4>1, <5>4, <5>5, <7>1
            <7>2. CASE sign = <<"-">>
              <8>1. sign # << >>  BY <7>2
              <8> QED  BY <1>1, <4>1, <5>4, <5>5, <7>2, <8>1
            <7> QED  BY <7>1, <7>2
          <6> QED  BY <3>1, <3>2, <5>4, <5>5, <6>2, <6>3
        <5>6. CASE ~ (o + Len(E) <= Len(s))  BY <3>1, <3>2, <5>4, <5>6
        <5> QED  BY <5>5, <5>6
      <4>3. CASE ~ (b <= Len(s))
        <5>1. ~ (b + 1 <= Len(s)) /\ ~ (o + Len(E) <= Len(s))  BY <1>4, <2>0, <2>2, <4>3
        <5>2. ~ (first <= Len(s))  BY <4>1, <5>1
        <5> QED  BY <3>1, <3>2, <5>1, <5>2
      <4> QED  BY <4>2, <4>3
    <3> QED  BY <3>3, <3>4
  <2>4. CASE /\ ~ (o + Len(E) <= Len(s))
             /\ \A f : decode_data(s, f, o + 1) = Invalid
    BY <2>4
  <2> QED  BY <1>7, <1>8, <2>3, <2>4, FirstToken
<1>9. E[1] # "e"  BY <1>7
<1> QED  BY <1>7, <1>8, <1>9 DEF Reads, E

\* Both, as values.
LEMMA ScalarReads ==
  /\ \A n \in Int : Reads(encodeScalar(IntegerData(n)), IntegerData(n))
  /\ \A t \in Text : Reads(encodeScalar(StringData(t)), StringData(t))
<1>1. ASSUME NEW n \in Int PROVE Reads(encodeScalar(IntegerData(n)), IntegerData(n))
  <2>1. Is("integer", IntegerData(n)) /\ IntegerData(n).integer = n  BY DEF Is, IntegerData
  <2>2. encodeScalar(IntegerData(n)) = IntegerText(n)  BY <2>1 DEF encodeScalar, IntegerText
  <2> QED  BY <2>2, IntegerReads
<1>2. ASSUME NEW t \in Text PROVE Reads(encodeScalar(StringData(t)), StringData(t))
  <2>1. ~Is("integer", StringData(t)) /\ StringData(t).string = t  BY DEF Is, StringData
  <2>2. encodeScalar(StringData(t)) = encodeString(t)  BY <2>1 DEF encodeScalar
  <2> QED  BY <2>2, StringReads
<1> QED  BY <1>1, <1>2

----------------------------------------------------------------------------
\* Pieces of text, one after the other, between two tokens.
Between(a, pieces, z) == Three(<<a>>, FlattenSeq(pieces), <<z>>)

\* Where the pieces between two delimiters are.
LEMMA BetweenParts ==
  ASSUME NEW a \in Token, NEW z \in Token, NEW pieces \in Seq(Seq(Token))
  PROVE  /\ Between(a, pieces, z) \in Seq(Token)
         /\ Len(Joined(pieces, Len(pieces))) \in Nat
         /\ Len(Between(a, pieces, z)) = Len(Joined(pieces, Len(pieces))) + 2
         /\ Between(a, pieces, z)[1] = a
         /\ \A s \in Seq(Token), o \in Nat : Agrees(s, o, Between(a, pieces, z)) =>
              /\ Agrees(s, o, <<a>>)
              /\ Agrees(s, o + 1, Joined(pieces, Len(pieces)))
              /\ Agrees(s, o + 1 + Len(Joined(pieces, Len(pieces))), <<z>>)
<1> DEFINE A == <<a>>
           Z == <<z>>
           F == Joined(pieces, Len(pieces))
           E == Between(a, pieces, z)
<1>1. A \in Seq(Token) /\ Len(A) = 1 /\ A[1] = a /\ Z \in Seq(Token) /\ Len(Z) = 1
  BY Tuples
<1>2. F \in Seq(Token)  BY JoinedStep
<1>3. E = Three(A, F, Z)
  <2>1. FlattenSeq(pieces) = F
    <3> HIDE DEF F
    <3> QED  BY FlattenJoined DEF F
  <2> QED  BY <2>1 DEF Between
<1> HIDE DEF A, F, Z, E
<1>4. /\ E \in Seq(Token) /\ Len(E) = Len(A) + Len(F) + Len(Z) /\ At(E, 0, A)
      /\ Len(F) \in Nat
  <2>1. A \in Seq(Token) /\ F \in Seq(Token) /\ Z \in Seq(Token)  BY <1>1, <1>2
  <2> QED  BY <1>3, <2>1, Around
<1>5. E[1] = a
  <2>1. 1 \in 1 .. Len(A)  BY <1>1
  <2>2. E[1] = A[1]  BY <1>4, <2>1, AtFirst
  <2> QED  BY <1>1, <2>2
<1>6. Len(E) = Len(F) + 2  BY <1>1, <1>4
<1>7. ASSUME NEW s \in Seq(Token), NEW o \in Nat, Agrees(s, o, E)
      PROVE  Agrees(s, o, A) /\ Agrees(s, o + 1, F) /\ Agrees(s, o + 1 + Len(F), Z)
  <2>0. Len(s) \in Nat  OBVIOUS
  <2>1. A \o F \in Seq(Token) /\ Len(A \o F) = Len(A) + Len(F)  BY <1>1, <1>2, ConcatAt
  <2>2. Agrees(s, o, (A \o F) \o Z)  BY <1>3, <1>7 DEF Three
  <2>3. Agrees(s, o, A \o F) /\ Agrees(s, o + Len(A \o F), Z)
    BY <1>1, <2>0, <2>1, <2>2, AgreesParts
  <2>4. Agrees(s, o, A) /\ Agrees(s, o + Len(A), F)  BY <1>1, <1>2, <2>0, <2>3, AgreesParts
  <2>5. o + Len(A) = o + 1 /\ o + Len(A \o F) = o + 1 + Len(F)  BY <1>1, <1>4, <2>1
  <2> QED  BY <2>3, <2>4, <2>5
<1> QED  BY <1>4, <1>5, <1>6, <1>7 DEF E, F, A, Z

\* Where each piece is.
LEMMA PieceAt ==
  ASSUME NEW pieces \in Seq(Seq(Token)), NEW s \in Seq(Token), NEW o \in Nat,
         Agrees(s, o, Joined(pieces, Len(pieces))), NEW n \in 1 .. Len(pieces)
  PROVE  /\ Agrees(s, o + Len(Joined(pieces, n - 1)), pieces[n])
         /\ Len(Joined(pieces, n - 1)) \in Nat /\ Len(pieces[n]) \in Nat
         /\ Len(Joined(pieces, n)) = Len(Joined(pieces, n - 1)) + Len(pieces[n])
         /\ Len(Joined(pieces, n)) <= Len(Joined(pieces, Len(pieces)))
<1> DEFINE F == Joined(pieces, Len(pieces))
           p == Len(Joined(pieces, n - 1))
           P == pieces[n]
<1>1. /\ p \in Nat /\ Len(Joined(pieces, n)) = p + Len(P)
      /\ Len(Joined(pieces, n)) <= Len(F)
      /\ \A j \in 1 .. Len(P) : F[p + j] = P[j]
  BY JoinedAt
<1>2. P \in Seq(Token) /\ Len(s) \in Nat /\ F \in Seq(Token)
  <2>1. F \in Seq(Token)  BY JoinedStep
  <2> QED  BY <2>1
<1>3. Len(P) \in Nat /\ Len(F) \in Nat
  <2> HIDE DEF P, F
  <2> QED  BY <1>2
<1>4. \A i \in 1 .. Len(F) : o + i <= Len(s) => s[o + i] = F[i]  BY DEF Agrees
<1> HIDE DEF F, p, P
<1>5. ASSUME NEW j \in 1 .. Len(P), (o + p) + j <= Len(s) PROVE s[(o + p) + j] = P[j]
  <2>1. p + j \in 1 .. Len(F) /\ o + (p + j) = (o + p) + j  BY <1>1, <1>3
  <2>2. s[o + (p + j)] = F[p + j]  BY <1>4, <1>5, <2>1
  <2> QED  BY <1>1, <2>1, <2>2
<1>6. Agrees(s, o + p, P)  BY <1>5 DEF Agrees
<1> QED  BY <1>1, <1>3, <1>6 DEF F, p, P

\* A list is read when each of its items is.
LEMMA ListReads ==
  ASSUME NEW V, NEW l \in Seq(V), NEW pieces \in Seq(Seq(Token)), Len(pieces) = Len(l),
         \A n \in 1 .. Len(l) : Reads(pieces[n], l[n])
  PROVE  Reads(Between("l", pieces, "e"), ListData(l))
<1> DEFINE E == Between("l", pieces, "e")
           N == Len(l)
           J(n) == Len(Joined(pieces, n))
<1>0. N \in Nat /\ Len(pieces) = N  OBVIOUS
<1>5. "l" \in Token /\ "e" \in Token /\ "l" # Nul /\ "l" \notin Digit  BY SpecialTokens
<1>1. /\ E \in Seq(Token) /\ J(N) \in Nat /\ Len(E) = J(N) + 2 /\ E[1] = "l"
      /\ \A s \in Seq(Token), o \in Nat : Agrees(s, o, E) =>
           /\ Agrees(s, o, <<"l">>) /\ Agrees(s, o + 1, Joined(pieces, N))
           /\ Agrees(s, o + 1 + J(N), <<"e">>)
  <2>1. /\ E \in Seq(Token) /\ J(Len(pieces)) \in Nat /\ Len(E) = J(Len(pieces)) + 2 /\ E[1] = "l"
        /\ \A s \in Seq(Token), o \in Nat : Agrees(s, o, E) =>
             /\ Agrees(s, o, <<"l">>) /\ Agrees(s, o + 1, Joined(pieces, Len(pieces)))
             /\ Agrees(s, o + 1 + J(Len(pieces)), <<"e">>)
    BY <1>5, BetweenParts
  <2> HIDE DEF E
  <2> QED  BY <1>0, <2>1
<1> HIDE DEF E
<1>2. J(0) = 0
  <2>1. Joined(pieces, 0) = << >>  BY DEF Joined
  <2> QED  BY <2>1
<1>3. ASSUME NEW s \in Seq(Token), NEW o \in Nat, o <= Len(s), Agrees(s, o, E)
      PROVE  decode_data(s, Loops(s), o + 1) =
               IF o + Len(E) <= Len(s) THEN Decoded(ListData(l), o + Len(E) + 1) ELSE Invalid
  <2> DEFINE p(n) == o + 1 + J(n)
             read == Loops(s)
             end  == o + Len(E) + 1
             Rest(n) == SubSeq(l, n + 1, N)
             From(n) == IF o + Len(E) <= Len(s) THEN Decoded(Rest(n), end) ELSE Invalid
             Claim(n) == p(n) <= Len(s) => read[p(n) + 1]["items"] = From(n)
             Good == {k \in Nat : k <= N => Claim(N - k)}
  <2>0. Len(s) \in Nat  OBVIOUS
  <2>1. /\ Agrees(s, o, <<"l">>) /\ Agrees(s, o + 1, Joined(pieces, N))
        /\ Agrees(s, p(N), <<"e">>) /\ p(N) \in Nat /\ o + Len(E) = p(N) + 1
    BY <1>1, <1>3
  <2>2. Claim(N)
    <3> SUFFICES ASSUME p(N) <= Len(s) PROVE read[p(N) + 1]["items"] = From(N)
      OBVIOUS
    <3> DEFINE b == p(N) + 1
    <3>1. b \in 1 .. Len(s) + 1 /\ b = o + Len(E)  BY <2>0, <2>1
    <3>2. Rest(N) = << >>
      <4>1. N + 1 > N  BY <1>0
      <4> QED  BY <1>0, <4>1, SubSeqEmpty
    <3>3. p(N) + 1 <= Len(s) => s[b] = "e"
      <4>1. Len(<<"e">>) = 1 /\ <<"e">>[1] = "e" /\ 1 \in 1 .. 1  OBVIOUS
      <4> QED  BY <2>1, <4>1 DEF Agrees
    <3> HIDE DEF b, read, Rest, p
    <3>4. read[b]["items"] = Items(s, read, b)
      <4>1. b \in 1 .. Len(s) + 1  BY <3>1
      <4> QED  BY <4>1, LoopsRead DEF read
    <3>5. CASE b <= Len(s)
      <4>0. ~ (b > Len(s)) /\ s[b] = "e"  BY <2>0, <3>1, <3>3, <3>5 DEF b
      <4>1. Items(s, read, b) = Decoded(<< >>, b + 1)  BY <4>0 DEF Items
      <4> QED  BY <3>1, <3>2, <3>4, <3>5, <4>1 DEF b
    <3>6. CASE ~ (b <= Len(s))
      <4>1. b > Len(s)  BY <2>0, <3>1, <3>6
      <4>2. Items(s, read, b) = Invalid  BY <4>1 DEF Items
      <4> QED  BY <3>1, <3>4, <3>6, <4>2 DEF b
    <3> QED  BY <3>5, <3>6
  <2>3. ASSUME NEW n \in 0 .. N - 1, Claim(n + 1) PROVE Claim(n)
    <3> SUFFICES ASSUME p(n) <= Len(s) PROVE read[p(n) + 1]["items"] = From(n)
      OBVIOUS
    <3> DEFINE m == n + 1
               P == pieces[m]
               v == l[m]
               q == p(n)
               r == p(m)
    <3>0. m \in 1 .. Len(pieces) /\ m - 1 = n /\ m \in 1 .. N  BY <1>0
    <3> HIDE DEF m
    <3>1. /\ Agrees(s, (o + 1) + J(m - 1), P) /\ J(m - 1) \in Nat /\ Len(P) \in Nat
          /\ J(m) = J(m - 1) + Len(P) /\ J(m) <= J(N)
      <4>1. o + 1 \in Nat  OBVIOUS
      <4>2. Agrees(s, o + 1, Joined(pieces, Len(pieces)))  BY <2>1
      <4> DEFINE a == o + 1
      <4> HIDE DEF a
      <4>3. /\ Agrees(s, a + J(m - 1), P) /\ J(m - 1) \in Nat /\ Len(P) \in Nat
            /\ J(m) = J(m - 1) + Len(P) /\ J(m) <= J(Len(pieces))
        BY <3>0, <4>1, <4>2, PieceAt DEF a
      <4> QED  BY <4>3 DEF a
    <3>2. /\ Agrees(s, q, P) /\ q \in Nat /\ r = q + Len(P) /\ r <= p(N) /\ r \in Nat
          /\ q <= Len(s)
      <4>1. J(m - 1) = J(n)  BY <3>0
      <4>5. J(N) \in Nat  BY <1>1
      <4>6. J(m - 1) \in Nat /\ Len(P) \in Nat /\ J(m) = J(m - 1) + Len(P) /\ J(m) <= J(N)
        BY <3>1
      <4> HIDE DEF J, P
      <4>2. J(n) \in Nat /\ J(m) \in Nat /\ J(m) = J(n) + Len(P) /\ J(m) <= J(N)
        BY <4>1, <4>6
      <4>3. Agrees(s, q, P)  BY <3>1, <4>1
      <4>7. q <= Len(s)  OBVIOUS
      <4>8. q = o + 1 + J(n) /\ r = o + 1 + J(m) /\ p(N) = o + 1 + J(N) /\ o \in Nat  OBVIOUS
      <4>9. Len(P) \in Nat  BY <4>6
      <4> HIDE DEF p, q, r
      <4>10. \A w, x, y, z, k \in Nat : y = x + k /\ y <= z =>
               /\ w + 1 + x \in Nat /\ w + 1 + y = (w + 1 + x) + k
               /\ w + 1 + y <= w + 1 + z /\ w + 1 + y \in Nat
        OBVIOUS
      <4>4. q \in Nat /\ r = q + Len(P) /\ r <= p(N) /\ r \in Nat
        <5>1. /\ o + 1 + J(n) \in Nat /\ o + 1 + J(m) = (o + 1 + J(n)) + Len(P)
              /\ o + 1 + J(m) <= o + 1 + J(N) /\ o + 1 + J(m) \in Nat
          BY <4>2, <4>5, <4>9, <4>10
        <5> QED  BY <4>8, <5>1
      <4> QED  BY <4>3, <4>4, <4>7
    <3>3. /\ Reads(P, v)
      BY <3>0
    <3> HIDE DEF P, v
    <3>4. /\ Len(P) >= 1 /\ P[1] # "e"
          /\ decode_data(s, read, q + 1) =
               IF q + Len(P) <= Len(s) THEN Decoded(v, q + Len(P) + 1) ELSE Invalid
      BY <3>2, <3>3 DEF Reads
    <3>5. q + 1 \in 1 .. Len(s) + 1  BY <2>0, <3>2
    <3>6. o + Len(E) = p(N) + 1 /\ end \in Nat /\ end # 0  BY <2>1
    <3> HIDE DEF q, r, p, read, end
    <3>7. read[q + 1]["items"] = Items(s, read, q + 1)  BY <3>5, LoopsRead DEF read
    <3>8. CASE ~ (q + 1 <= Len(s))
      <4>1. q + 1 > Len(s)  BY <2>0, <3>2, <3>8
      <4>2. ~ (o + Len(E) <= Len(s))  BY <2>0, <2>1, <3>1, <3>2, <3>4, <3>6, <4>1
      <4>3. Items(s, read, q + 1) = Invalid  BY <4>1 DEF Items
      <4> QED  BY <3>7, <4>2, <4>3 DEF q
    <3>9. CASE q + 1 <= Len(s)
      <4>1. s[q + 1] # "e" /\ ~ (q + 1 > Len(s))
        <5>1. 1 \in 1 .. Len(P)  BY <3>1, <3>4
        <5>2. s[q + 1] = P[1]  BY <3>2, <3>9, <5>1 DEF Agrees
        <5> QED  BY <2>0, <3>2, <3>4, <3>9, <5>2
      <4> DEFINE item == decode_data(s, read, q + 1)
                 rest == IF Threw(item) THEN Invalid ELSE read[item.begin]["items"]
      <4>2. Items(s, read, q + 1) =
              IF Threw(rest) THEN Invalid ELSE Decoded(<<item.value>> \o rest.value, rest.begin)
        BY <4>1 DEF Items
      <4> HIDE DEF item
      <4>3. CASE ~ (r <= Len(s))
        <5>1. item = Invalid  BY <3>2, <3>4, <4>3 DEF item
        <5>2. Threw(rest)  BY <5>1, Results
        <5>3. ~ (o + Len(E) <= Len(s))  BY <2>0, <2>1, <3>2, <3>6, <4>3
        <5> QED  BY <3>7, <4>2, <5>2, <5>3 DEF q
      <4>4. CASE r <= Len(s)
        <5>1. item = Decoded(v, r + 1)  BY <3>2, <3>4, <4>4 DEF item
        <5>2. ~Threw(item) /\ item.begin = r + 1 /\ item.value = v
          <6>1. r + 1 # 0  BY <3>2
          <6> QED  BY <5>1, <6>1, Results
        <5>3. rest = From(m)
          <6>1. read[r + 1]["items"] = From(m)  BY <2>3, <4>4 DEF r, m
          <6> QED  BY <5>2, <6>1
        <5> HIDE DEF rest
        <5>4. CASE o + Len(E) <= Len(s)
          <6>1. rest = Decoded(Rest(m), end)  BY <5>3, <5>4
          <6>2. ~Threw(rest) /\ rest.begin = end /\ rest.value = Rest(m)  BY <3>6, <6>1, Results
          <6>3. <<v>> \o Rest(m) = Rest(n)
            <7>1. SubSeq(l, m, N) = <<l[m]>> \o SubSeq(l, m + 1, N)
              <8>1. m \in 1 .. Len(l) /\ N \in m .. Len(l)  BY <1>0, <3>0
              <8> QED  BY <8>1, SubSeqRecursiveFirst
            <7> QED  BY <7>1 DEF m, v
          <6> HIDE DEF Rest
          <6>4. Items(s, read, q + 1) = Decoded(Rest(n), end)  BY <4>2, <5>2, <6>2, <6>3
          <6> QED  BY <3>7, <5>4, <6>4 DEF q
        <5>5. CASE ~ (o + Len(E) <= Len(s))
          <6>1. Threw(rest)  BY <5>3, <5>5, Results
          <6> QED  BY <3>7, <4>2, <5>5, <6>1 DEF q
        <5> QED  BY <5>4, <5>5
      <4> QED  BY <4>3, <4>4
    <3> QED  BY <3>8, <3>9
  <2>4. Claim(0)
    <3>1. 0 \in Good
      <4>1. N - 0 = N  BY <1>0
      <4> QED  BY <2>2, <4>1
    <3>2. ASSUME NEW k \in Nat, k \in Good PROVE k + 1 \in Good
      <4> SUFFICES ASSUME k + 1 <= N PROVE Claim(N - (k + 1))
        OBVIOUS
      <4> DEFINE n == N - (k + 1)
      <4>1. k <= N /\ n \in 0 .. N - 1 /\ n + 1 = N - k  BY <1>0
      <4>2. Claim(N - k)  BY <3>2, <4>1
      <4> HIDE DEF Claim, n
      <4>3. Claim(n + 1)  BY <4>1, <4>2
      <4> QED  BY <2>3, <4>1, <4>3 DEF n
    <3>3. \A k \in Nat : k \in Good
      <4> HIDE DEF Good
      <4> QED  BY <3>1, <3>2, NumberInduction
    <3>4. N \in Good /\ N <= N /\ N - N = 0  BY <1>0, <3>3
    <3>5. Claim(N - N)  BY <3>4
    <3> HIDE DEF Claim
    <3> QED  BY <3>4, <3>5
  <2>5. CASE o + 1 <= Len(s) /\ CharAt(s, o + 1) = "l"
    <3> DEFINE items == read[o + 2]["items"]
    <3>1. p(0) = o + 1 /\ p(0) + 1 = o + 2  BY <1>2
    <3>2. items = From(0)  BY <2>4, <2>5, <3>1
    <3>3. (o + 1) + 1 = o + 2  OBVIOUS
    <3>4. decode_data(s, read, o + 1) = decode_list(s, read, o + 1)
      BY <1>5, <2>5 DEF decode_data
    <3>5. decode_list(s, read, o + 1) =
            IF Threw(items) THEN Invalid ELSE Decoded(ListData(items.value), items.begin)
      BY <3>3 DEF decode_list
    <3>6. Rest(0) = l
      <4>1. 0 + 1 = 1  OBVIOUS
      <4>2. SubSeq(l, 1, N) = l  BY SubSeqFull
      <4> QED  BY <4>1, <4>2
    <3>7. end # 0  BY <1>1
    <3> HIDE DEF items, Rest, end
    <3>8. CASE o + Len(E) <= Len(s)
      <4>1. items = Decoded(l, end)  BY <3>2, <3>6, <3>8
      <4>2. ~Threw(items) /\ items.value = l /\ items.begin = end  BY <3>7, <4>1, Results
      <4> QED  BY <3>4, <3>5, <3>8, <4>2 DEF end
    <3>9. CASE ~ (o + Len(E) <= Len(s))
      <4>1. Threw(items)  BY <3>2, <3>9, Results
      <4> QED  BY <3>4, <3>5, <3>9, <4>1
    <3> QED  BY <3>8, <3>9
  <2>6. CASE /\ ~ (o + Len(E) <= Len(s))
             /\ \A f : decode_data(s, f, o + 1) = Invalid
    BY <2>6
  <2>7. Len(E) \in Nat /\ Len(E) >= 1  BY <1>1
  <2> QED  BY <1>1, <1>3, <2>5, <2>6, <2>7, FirstToken
<1>4. E[1] # "e" /\ Len(E) \in Nat /\ Len(E) >= 1
  <2>1. E[1] # "e"  BY <1>1
  <2>2. Len(E) \in Nat /\ Len(E) >= 1  BY <1>1
  <2> QED  BY <2>1, <2>2
<1> QED  BY <1>1, <1>3, <1>4 DEF Reads, E

\* The nine keys are tokens and differ.
LEMMA KeyTokens ==
  /\ Len(Keys) = 9 /\ DOMAIN Keys = 1 .. 9
  /\ \A n \in 1 .. 9 : Keys[n] \in Token /\ Keys[n] # Nul /\ <<Keys[n]>> \in Text
  /\ \A n, m \in 1 .. 9 : <<Keys[n]>> = <<Keys[m]>> => n = m
<1>1. Len(Keys) = 9 /\ DOMAIN Keys = 1 .. 9  BY DEF Keys
<1>2. /\ Keys[1] = "complete" /\ Keys[2] = "failure reason" /\ Keys[3] = "incomplete"
      /\ Keys[4] = "interval" /\ Keys[5] = "ip" /\ Keys[6] = "peer_id" /\ Keys[7] = "peers"
      /\ Keys[8] = "port" /\ Keys[9] = "tracker_id"
  BY DEF Keys
<1>3. \A n \in 1 .. 9 : Keys[n] \in ToSet(Keys)  BY <1>1 DEF ToSet
<1>4. ToSet(Keys) \subseteq Written  BY DEF Written
<1>5. \A n \in 1 .. 9 : Keys[n] \in Token /\ Keys[n] # Nul  BY <1>3, <1>4, TokenAssumption
<1>9. \A x \in Token : <<x>> \in Text  BY Tuples DEF Text
<1>6. \A n \in 1 .. 9 : <<Keys[n]>> \in Text  BY <1>5, <1>9
<1>7. \A n, m \in 1 .. 9 : Keys[n] = Keys[m] => n = m
  <2>1. \A n \in 1 .. 9 : n = 1 \/ n = 2 \/ n = 3 \/ n = 4 \/ n = 5 \/ n = 6 \/ n = 7 \/ n = 8 \/ n = 9
    OBVIOUS
  <2> QED  BY <1>2, <2>1
<1>8. \A x, y : <<x>> = <<y>> => x = y  OBVIOUS
<1> QED  BY <1>1, <1>5, <1>6, <1>7, <1>8

----------------------------------------------------------------------------
\* What is written of each key, when enc[key] is how its value is written.
EntryPieces(d, enc) ==
  [n \in DOMAIN Keys |->
     IF <<Keys[n]>> \notin DOMAIN d THEN << >> ELSE encodeString(<<Keys[n]>>) \o enc[<<Keys[n]>>]]

\* The entries of d behind the n-th key.
EntriesAfter(d, n) ==
  [k \in {x \in DOMAIN d : \E m \in n + 1 .. 9 : x = <<Keys[m]>>} |-> d[k]]

IsDict(d) == d = [k \in DOMAIN d |-> d[k]] /\ DOMAIN d \subseteq {<<Keys[n]>> : n \in 1 .. 9}

\* The pieces of a dictionary, one for each key that it has.
LEMMA EntryPiece ==
  ASSUME NEW d, NEW enc, \A k \in DOMAIN d : Reads(enc[k], d[k])
  PROVE  /\ EntryPieces(d, enc) \in Seq(Seq(Token)) /\ Len(EntryPieces(d, enc)) = 9
         /\ \A n \in 1 .. 9 :
              EntryPieces(d, enc)[n] =
                IF <<Keys[n]>> \notin DOMAIN d THEN << >>
                ELSE encodeString(<<Keys[n]>>) \o enc[<<Keys[n]>>]
<1> DEFINE pieces == EntryPieces(d, enc)
<1>1. \A n \in 1 .. 9 :
        pieces[n] = IF <<Keys[n]>> \notin DOMAIN d THEN << >>
                    ELSE encodeString(<<Keys[n]>>) \o enc[<<Keys[n]>>]
  BY KeyTokens DEF EntryPieces
<1>2. DOMAIN pieces = 1 .. 9 /\ pieces = [n \in 1 .. 9 |-> pieces[n]]
  BY KeyTokens DEF EntryPieces
<1> HIDE DEF pieces
<1>3. \A n \in 1 .. 9 : pieces[n] \in Seq(Token)
  <2> SUFFICES ASSUME NEW n \in 1 .. 9 PROVE pieces[n] \in Seq(Token)
    OBVIOUS
  <2>1. CASE <<Keys[n]>> \notin DOMAIN d
    <3>1. << >> \in Seq(Token)  BY EmptySeq
    <3> QED  BY <1>1, <2>1, <3>1
  <2>2. CASE <<Keys[n]>> \in DOMAIN d
    <3> DEFINE K == encodeString(<<Keys[n]>>)
               v == enc[<<Keys[n]>>]
    <3>1. K \in Seq(Token)
      <4>1. <<Keys[n]>> \in Text  BY KeyTokens
      <4> QED  BY <4>1, StringRead
    <3>2. v \in Seq(Token)  BY <2>2 DEF Reads
    <3>3. pieces[n] = K \o v  BY <1>1, <2>2
    <3> HIDE DEF K, v
    <3>4. K \o v \in Seq(Token)  BY <3>1, <3>2, ConcatAt
    <3> QED  BY <3>3, <3>4
  <2> QED  BY <2>1, <2>2
<1>4. pieces \in [1 .. 9 -> Seq(Token)]  BY <1>2, <1>3
<1>5. pieces \in Seq(Seq(Token))
  <2> DEFINE T == Seq(Token)
             M == 9
  <2>1. pieces \in [1 .. M -> T] /\ M \in Nat  BY <1>4
  <2> HIDE DEF T, M
  <2>2. pieces \in Seq(T)  BY <2>1, SeqDef
  <2> QED  BY <2>2 DEF T
<1>6. Len(pieces) = 9  BY <1>2, <1>5
<1> QED  BY <1>1, <1>5, <1>6 DEF pieces

\* The entries behind a key, and those from it on.
LEMMA EntriesAfterStep ==
  ASSUME NEW d, IsDict(d), NEW n \in 1 .. 9
  PROVE  /\ <<Keys[n]>> \notin DOMAIN d => EntriesAfter(d, n - 1) = EntriesAfter(d, n)
         /\ <<Keys[n]>> \in DOMAIN d =>
              /\ <<Keys[n]>> \notin DOMAIN EntriesAfter(d, n)
              /\ WithEntry(EntriesAfter(d, n), <<Keys[n]>>, d[<<Keys[n]>>]) = EntriesAfter(d, n - 1)
         /\ EntriesAfter(d, 9) = NoEntries
         /\ EntriesAfter(d, 0) = d
<1> DEFINE K == <<Keys[n]>>
           D(m) == {x \in DOMAIN d : \E i \in m + 1 .. 9 : x = <<Keys[i]>>}
           a == n - 1
<1>0. a + 1 .. 9 = {n} \cup (n + 1 .. 9)  OBVIOUS
<1>1. D(a) = {x \in DOMAIN d : x = K} \cup D(n)
  <2>1. \A x : (\E i \in a + 1 .. 9 : x = <<Keys[i]>>) <=> x = K \/ \E i \in n + 1 .. 9 : x = <<Keys[i]>>
    BY <1>0
  <2> HIDE DEF a
  <2> QED  BY <2>1
<1>2. K \notin D(n)
  <2>1. \A i \in n + 1 .. 9 : i \in 1 .. 9 /\ i # n  OBVIOUS
  <2> QED  BY <2>1, KeyTokens
<1>3. \A m : EntriesAfter(d, m) = [k \in D(m) |-> d[k]]  BY DEF EntriesAfter
<1> HIDE DEF D, K, a
<1>4. K \notin DOMAIN d => EntriesAfter(d, a) = EntriesAfter(d, n)
  <2> SUFFICES ASSUME K \notin DOMAIN d PROVE EntriesAfter(d, a) = EntriesAfter(d, n)
    OBVIOUS
  <2>1. D(a) = D(n)  BY <1>1
  <2> QED  BY <1>3, <2>1
<1>5. K \in DOMAIN d => /\ K \notin DOMAIN EntriesAfter(d, n)
                        /\ WithEntry(EntriesAfter(d, n), K, d[K]) = EntriesAfter(d, a)
  <2> SUFFICES ASSUME K \in DOMAIN d
               PROVE  /\ K \notin DOMAIN EntriesAfter(d, n)
                      /\ WithEntry(EntriesAfter(d, n), K, d[K]) = EntriesAfter(d, a)
    OBVIOUS
  <2>1. D(a) = D(n) \cup {K}  BY <1>1
  <2>2. DOMAIN EntriesAfter(d, n) = D(n)  BY <1>3
  <2>3. \A k \in D(n) : EntriesAfter(d, n)[k] = d[k]  BY <1>3
  <2>4. WithEntry(EntriesAfter(d, n), K, d[K]) = [k \in D(n) \cup {K} |-> d[k]]
    BY <2>2, <2>3 DEF WithEntry
  <2>5. EntriesAfter(d, a) = [k \in D(n) \cup {K} |-> d[k]]  BY <1>3, <2>1
  <2> QED  BY <1>2, <2>2, <2>4, <2>5
<1>6. EntriesAfter(d, 9) = NoEntries
  <2>1. 9 + 1 .. 9 = {}  OBVIOUS
  <2>2. D(9) = {}  BY <2>1 DEF D
  <2> QED  BY <1>3, <2>2 DEF NoEntries
<1>7. EntriesAfter(d, 0) = d
  <2>1. 0 + 1 .. 9 = 1 .. 9  OBVIOUS
  <2>2. D(0) = DOMAIN d  BY <2>1 DEF D, IsDict
  <2> QED  BY <1>3, <2>2 DEF IsDict
<1> QED  BY <1>4, <1>5, <1>6, <1>7 DEF K, a

\* A dictionary is read when each of its values is.
LEMMA DictReads ==
  ASSUME NEW d, IsDict(d), NEW enc, \A k \in DOMAIN d : Reads(enc[k], d[k])
  PROVE  Reads(Between("d", EntryPieces(d, enc), "e"), DictData(d))
<1> DEFINE pieces == EntryPieces(d, enc)
           E == Between("d", pieces, "e")
           N == 9
           J(n) == Len(Joined(pieces, n))
<1>0. "d" \in Token /\ "e" \in Token /\ "d" # Nul /\ "d" \notin Digit /\ "e" \notin Digit
  BY SpecialTokens
<1>5. /\ pieces \in Seq(Seq(Token)) /\ Len(pieces) = N
      /\ \A n \in 1 .. N : pieces[n] = IF <<Keys[n]>> \notin DOMAIN d THEN << >>
                                       ELSE encodeString(<<Keys[n]>>) \o enc[<<Keys[n]>>]
  BY EntryPiece
<1> HIDE DEF pieces
<1>1. /\ E \in Seq(Token) /\ J(N) \in Nat /\ Len(E) = J(N) + 2 /\ E[1] = "d"
      /\ \A s \in Seq(Token), o \in Nat : Agrees(s, o, E) =>
           /\ Agrees(s, o, <<"d">>) /\ Agrees(s, o + 1, Joined(pieces, N))
           /\ Agrees(s, o + 1 + J(N), <<"e">>)
  <2>0. pieces \in Seq(Seq(Token))  BY <1>5
  <2>1. /\ E \in Seq(Token) /\ J(Len(pieces)) \in Nat /\ Len(E) = J(Len(pieces)) + 2 /\ E[1] = "d"
        /\ \A s \in Seq(Token), o \in Nat : Agrees(s, o, E) =>
             /\ Agrees(s, o, <<"d">>) /\ Agrees(s, o + 1, Joined(pieces, Len(pieces)))
             /\ Agrees(s, o + 1 + J(Len(pieces)), <<"e">>)
    BY <1>0, <2>0, BetweenParts
  <2>2. Len(pieces) = N  BY <1>5
  <2> HIDE DEF E, N
  <2> QED  BY <2>1, <2>2
<1> HIDE DEF E
<1>2. J(0) = 0
  <2>1. Joined(pieces, 0) = << >>  BY DEF Joined
  <2> QED  BY <2>1
<1>3. ASSUME NEW s \in Seq(Token), NEW o \in Nat, o <= Len(s), Agrees(s, o, E)
      PROVE  decode_data(s, Loops(s), o + 1) =
               IF o + Len(E) <= Len(s) THEN Decoded(DictData(d), o + Len(E) + 1) ELSE Invalid
  <2> DEFINE p(n) == o + 1 + J(n)
             read == Loops(s)
             end  == o + Len(E) + 1
             Rest(n) == EntriesAfter(d, n)
             From(n) == IF o + Len(E) <= Len(s) THEN Decoded(Rest(n), end) ELSE Invalid
             Claim(n) == p(n) <= Len(s) => read[p(n) + 1]["entries"] = From(n)
             Good == {k \in Nat : k <= N => Claim(N - k)}
  <2>0. Len(s) \in Nat  OBVIOUS
  <2>1. /\ Agrees(s, o, <<"d">>) /\ Agrees(s, o + 1, Joined(pieces, N))
        /\ Agrees(s, p(N), <<"e">>) /\ p(N) \in Nat /\ o + Len(E) = p(N) + 1
    <3>1. /\ Agrees(s, o, <<"d">>) /\ Agrees(s, o + 1, Joined(pieces, N))
          /\ Agrees(s, o + 1 + J(N), <<"e">>)
      BY <1>1, <1>3
    <3>2. J(N) \in Nat /\ Len(E) = J(N) + 2  BY <1>1
    <3>3. p(N) \in Nat /\ o + Len(E) = p(N) + 1
      <4> HIDE DEF J
      <4> QED  BY <3>2
    <3> QED  BY <3>1, <3>3
  <2>2. Claim(N)
    <3> SUFFICES ASSUME p(N) <= Len(s) PROVE read[p(N) + 1]["entries"] = From(N)
      OBVIOUS
    <3> DEFINE b == p(N) + 1
    <3>1. b \in 1 .. Len(s) + 1 /\ b = o + Len(E)  BY <2>0, <2>1
    <3>2. Rest(N) = NoEntries
      <4>1. 9 \in 1 .. 9  OBVIOUS
      <4> QED  BY <4>1, EntriesAfterStep
    <3>3. p(N) + 1 <= Len(s) => s[b] = "e"
      <4>1. Len(<<"e">>) = 1 /\ <<"e">>[1] = "e" /\ 1 \in 1 .. 1  OBVIOUS
      <4> QED  BY <2>1, <4>1 DEF Agrees
    <3> HIDE DEF b, read, Rest, p
    <3>4. read[b]["entries"] = Entries(s, read, b)
      <4>1. b \in 1 .. Len(s) + 1  BY <3>1
      <4> QED  BY <4>1, LoopsRead DEF read
    <3>5. CASE b <= Len(s)
      <4>0. ~ (b > Len(s)) /\ s[b] = "e"  BY <2>0, <3>1, <3>3, <3>5 DEF b
      <4>1. Entries(s, read, b) = Decoded(NoEntries, b + 1)  BY <4>0 DEF Entries
      <4> QED  BY <3>1, <3>2, <3>4, <3>5, <4>1 DEF b
    <3>6. CASE ~ (b <= Len(s))
      <4>1. b > Len(s)  BY <2>0, <3>1, <3>6
      <4>2. Entries(s, read, b) = Invalid  BY <4>1 DEF Entries
      <4> QED  BY <3>1, <3>4, <3>6, <4>2 DEF b
    <3> QED  BY <3>5, <3>6
  <2>3. ASSUME NEW n \in 0 .. N - 1, Claim(n + 1) PROVE Claim(n)
    <3> SUFFICES ASSUME p(n) <= Len(s) PROVE read[p(n) + 1]["entries"] = From(n)
      OBVIOUS
    <3> DEFINE m == n + 1
               P == pieces[m]
               K == <<Keys[m]>>
               q == p(n)
               r == p(m)
    <3>0. m \in 1 .. Len(pieces) /\ m - 1 = n /\ m \in 1 .. 9  BY <1>5
    <3>a. Claim(m)  BY <2>3
    <3> HIDE DEF m
    <3>1. /\ Agrees(s, (o + 1) + J(m - 1), P) /\ J(m - 1) \in Nat /\ Len(P) \in Nat
          /\ J(m) = J(m - 1) + Len(P) /\ J(m) <= J(N)
      <4>1. o + 1 \in Nat  OBVIOUS
      <4>2. Agrees(s, o + 1, Joined(pieces, Len(pieces)))  BY <1>5, <2>1
      <4> DEFINE a == o + 1
      <4> HIDE DEF a
      <4>0. pieces \in Seq(Seq(Token))  BY <1>5
      <4>3. /\ Agrees(s, a + J(m - 1), P) /\ J(m - 1) \in Nat /\ Len(P) \in Nat
            /\ J(m) = J(m - 1) + Len(P) /\ J(m) <= J(Len(pieces))
        BY <3>0, <4>0, <4>1, <4>2, PieceAt DEF a
      <4> QED  BY <1>5, <4>3 DEF a
    <3>2. /\ Agrees(s, q, P) /\ q \in Nat /\ r = q + Len(P) /\ r <= p(N) /\ r \in Nat
          /\ q <= Len(s)
      <4>1. J(m - 1) = J(n)  BY <3>0
      <4>5. J(N) \in Nat  BY <1>1
      <4>6. J(m - 1) \in Nat /\ Len(P) \in Nat /\ J(m) = J(m - 1) + Len(P) /\ J(m) <= J(N)
        BY <3>1
      <4> HIDE DEF J, P
      <4>2. J(n) \in Nat /\ J(m) \in Nat /\ J(m) = J(n) + Len(P) /\ J(m) <= J(N)
        BY <4>1, <4>6
      <4>3. Agrees(s, q, P)  BY <3>1, <4>1
      <4>7. q <= Len(s)  OBVIOUS
      <4>8. q = o + 1 + J(n) /\ r = o + 1 + J(m) /\ p(N) = o + 1 + J(N) /\ o \in Nat  OBVIOUS
      <4>9. Len(P) \in Nat  BY <4>6
      <4> HIDE DEF p, q, r
      <4>10. \A w, x, y, z, k \in Nat : y = x + k /\ y <= z =>
               /\ w + 1 + x \in Nat /\ w + 1 + y = (w + 1 + x) + k
               /\ w + 1 + y <= w + 1 + z /\ w + 1 + y \in Nat
        OBVIOUS
      <4>4. q \in Nat /\ r = q + Len(P) /\ r <= p(N) /\ r \in Nat
        <5>1. /\ o + 1 + J(n) \in Nat /\ o + 1 + J(m) = (o + 1 + J(n)) + Len(P)
              /\ o + 1 + J(m) <= o + 1 + J(N) /\ o + 1 + J(m) \in Nat
          BY <4>2, <4>5, <4>9, <4>10
        <5> QED  BY <4>8, <5>1
      <4> QED  BY <4>3, <4>4, <4>7
    <3>3. P = IF K \notin DOMAIN d THEN << >> ELSE encodeString(K) \o enc[K]
      BY <1>5, <3>0
    <3>4. /\ K \notin DOMAIN d => Rest(n) = Rest(m)
          /\ K \in DOMAIN d =>
               K \notin DOMAIN Rest(m) /\ WithEntry(Rest(m), K, d[K]) = Rest(n)
      <4>1. /\ K \notin DOMAIN d => Rest(m - 1) = Rest(m)
            /\ K \in DOMAIN d =>
                 K \notin DOMAIN Rest(m) /\ WithEntry(Rest(m), K, d[K]) = Rest(m - 1)
        BY <3>0, EntriesAfterStep
      <4> HIDE DEF Rest, K
      <4> QED  BY <3>0, <4>1
    <3>5. o + Len(E) = p(N) + 1 /\ end \in Nat /\ end # 0  BY <2>1
    <3>6. q + 1 \in 1 .. Len(s) + 1  BY <2>0, <3>2
    <3>7. r <= Len(s) => read[r + 1]["entries"] = From(m)  BY <3>a
    <3> HIDE DEF q, r, p, read, end, Rest
    <3>8. read[q + 1]["entries"] = Entries(s, read, q + 1)  BY <3>6, LoopsRead DEF read
    <3>9. CASE K \notin DOMAIN d
      <4>1. Len(P) = 0  BY <3>3, <3>9
      <4>2. r = q  BY <3>2, <4>1
      <4> QED  BY <3>2, <3>4, <3>7, <3>9, <4>2 DEF q
    <3>10. CASE K \in DOMAIN d
      <4> DEFINE ks  == encodeString(K)
                 v   == enc[K]
                 mid == q + Len(ks)
                 key   == decode_str(s, q + 1)
                 value == IF Threw(key) THEN Invalid ELSE decode_data(s, read, key.begin)
                 rest  == IF Threw(value) THEN Invalid ELSE read[value.begin]["entries"]
                 all   == Entries(s, read, q + 1)
      <4>1. /\ K \in Text /\ ks \in Seq(Token) /\ Len(ks) >= 1 /\ ks[1] \in Digit
            /\ \A t \in Seq(Token), x \in Nat : x <= Len(t) /\ Agrees(t, x, ks) =>
                 decode_str(t, x + 1) =
                   IF x + Len(ks) <= Len(t) THEN Decoded(StringData(K), x + Len(ks) + 1) ELSE Invalid
        <5>1. K \in Text  BY <3>0, KeyTokens
        <5> HIDE DEF K
        <5> QED  BY <5>1, StringRead
      <4>2. Reads(v, d[K])  BY <3>10
      <4> HIDE DEF K, ks, v, P
      <4>3. Len(ks) \in Nat  BY <4>1
      <4>4. /\ v \in Seq(Token) /\ Len(v) \in Nat
            /\ \A t \in Seq(Token), x \in Nat : x <= Len(t) /\ Agrees(t, x, v) =>
                 decode_data(t, Loops(t), x + 1) =
                   IF x + Len(v) <= Len(t) THEN Decoded(d[K], x + Len(v) + 1) ELSE Invalid
            /\ Len(v) >= 1
        BY <4>2 DEF Reads
      <4>5. P = ks \o v  BY <3>3, <3>10 DEF ks, v
      <4>6. Len(P) = Len(ks) + Len(v)
        <5>1. ks \in Seq(Token) /\ v \in Seq(Token)  BY <4>1, <4>4
        <5> QED  BY <4>5, <5>1, ConcatAt
      <4>7. Agrees(s, q, ks) /\ Agrees(s, mid, v)
        <5>1. ks \in Seq(Token) /\ v \in Seq(Token) /\ q \in Nat  BY <3>2, <4>1, <4>4
        <5>2. Agrees(s, q, ks \o v)  BY <3>2, <4>5
        <5> QED  BY <2>0, <5>1, <5>2, AgreesParts
      <4>8. mid \in Nat /\ r = mid + Len(v) /\ q + Len(ks) = mid  BY <3>2, <4>3, <4>4, <4>6
      <4> HIDE DEF mid
      <4>9. key = IF mid <= Len(s) THEN Decoded(StringData(K), mid + 1) ELSE Invalid
        BY <3>2, <4>1, <4>7, <4>8
      <4>10. mid <= Len(s) => decode_data(s, read, mid + 1) =
               IF r <= Len(s) THEN Decoded(d[K], r + 1) ELSE Invalid
        BY <4>4, <4>7, <4>8 DEF read
      <4>11. \/ /\ ~ (q + 1 <= Len(s)) /\ all = Invalid
             \/ /\ q + 1 <= Len(s)
                /\ all = IF Threw(rest) \/ key.value.string \in DOMAIN rest.value THEN Invalid
                         ELSE Decoded(WithEntry(rest.value, key.value.string, value.value), rest.begin)
        <5>1. CASE ~ (q + 1 <= Len(s))
          <6>1. q + 1 > Len(s)  BY <2>0, <3>2, <5>1
          <6> QED  BY <5>1, <6>1 DEF Entries
        <5>2. CASE q + 1 <= Len(s)
          <6>1. 1 \in 1 .. Len(ks)  BY <4>1, <4>3
          <6>2. s[q + 1] = ks[1]  BY <4>7, <5>2, <6>1 DEF Agrees
          <6>3. s[q + 1] \in Digit /\ s[q + 1] # "e"  BY <1>0, <4>1, <6>2
          <6>4. ~ (q + 1 > Len(s))  BY <2>0, <3>2, <5>2
          <6> QED  BY <5>2, <6>3, <6>4 DEF Entries
        <5> QED  BY <5>1, <5>2
      <4> HIDE DEF key
      <4>12. CASE ~ (r <= Len(s))
        <5>1. Threw(value)
          <6>1. CASE mid <= Len(s)
            <7>1. key = Decoded(StringData(K), mid + 1) /\ mid + 1 # 0  BY <4>8, <4>9, <6>1
            <7>2. ~Threw(key) /\ key.begin = mid + 1  BY <7>1, Results
            <7>3. value = Invalid  BY <4>10, <4>12, <6>1, <7>2
            <7> QED  BY <7>3, Results
          <6>2. CASE ~ (mid <= Len(s))
            <7>1. Threw(key)  BY <4>9, <6>2, Results
            <7> QED  BY <7>1, Results
          <6> QED  BY <6>1, <6>2
        <5> HIDE DEF value
        <5>2. Threw(rest)  BY <5>1, Results
        <5> HIDE DEF rest
        <5>3. all = Invalid  BY <4>11, <5>2
        <5>4. ~ (o + Len(E) <= Len(s))  BY <2>0, <2>1, <3>2, <3>5, <4>12
        <5> QED  BY <3>8, <5>3, <5>4 DEF q
      <4>13. CASE r <= Len(s)
        <5>1. mid <= Len(s) /\ q + 1 <= Len(s)  BY <2>0, <3>2, <4>1, <4>3, <4>4, <4>8, <4>13
        <5>2. ~Threw(key) /\ key.begin = mid + 1 /\ key.value = StringData(K)
          <6>1. key = Decoded(StringData(K), mid + 1) /\ mid + 1 # 0  BY <4>8, <4>9, <5>1
          <6> QED  BY <6>1, Results
        <5>3. key.value.string = K  BY <5>2 DEF StringData
        <5>4. value = Decoded(d[K], r + 1)  BY <4>10, <4>13, <5>1, <5>2
        <5>5. ~Threw(value) /\ value.begin = r + 1 /\ value.value = d[K]
          <6>1. r + 1 # 0  BY <3>2
          <6> HIDE DEF value
          <6> QED  BY <5>4, <6>1, Results
        <5> HIDE DEF value
        <5>6. rest = From(m)  BY <3>7, <4>13, <5>5
        <5> HIDE DEF rest
        <5>7. CASE o + Len(E) <= Len(s)
          <6>1. rest = Decoded(Rest(m), end)  BY <5>6, <5>7
          <6>2. ~Threw(rest) /\ rest.begin = end /\ rest.value = Rest(m)  BY <3>5, <6>1, Results
          <6>3. all = Decoded(Rest(n), end)
            BY <3>4, <3>10, <4>11, <5>1, <5>3, <5>5, <6>2
          <6> QED  BY <3>8, <5>7, <6>3 DEF q
        <5>8. CASE ~ (o + Len(E) <= Len(s))
          <6>1. Threw(rest)  BY <5>6, <5>8, Results
          <6>2. all = Invalid  BY <4>11, <6>1
          <6> QED  BY <3>8, <5>8, <6>2 DEF q
        <5> QED  BY <5>7, <5>8
      <4> QED  BY <4>12, <4>13
    <3> QED  BY <3>9, <3>10
  <2>4. Claim(0)
    <3>1. 0 \in Good
      <4>1. N - 0 = N  OBVIOUS
      <4> QED  BY <2>2, <4>1
    <3>2. ASSUME NEW k \in Nat, k \in Good PROVE k + 1 \in Good
      <4> SUFFICES ASSUME k + 1 <= N PROVE Claim(N - (k + 1))
        OBVIOUS
      <4> DEFINE n == N - (k + 1)
      <4>1. k <= N /\ n \in 0 .. N - 1 /\ n + 1 = N - k  OBVIOUS
      <4>2. Claim(N - k)  BY <3>2, <4>1
      <4> HIDE DEF Claim, n
      <4>3. Claim(n + 1)  BY <4>1, <4>2
      <4> QED  BY <2>3, <4>1, <4>3 DEF n
    <3>3. \A k \in Nat : k \in Good
      <4> HIDE DEF Good
      <4> QED  BY <3>1, <3>2, NumberInduction
    <3>4. N \in Good /\ N <= N /\ N - N = 0
      <4>1. N \in Nat /\ N <= N /\ N - N = 0  OBVIOUS
      <4> HIDE DEF Good
      <4> QED  BY <3>3, <4>1
    <3>5. Claim(N - N)  BY <3>4
    <3> HIDE DEF Claim
    <3> QED  BY <3>4, <3>5
  <2>5. CASE o + 1 <= Len(s) /\ CharAt(s, o + 1) = "d"
    <3> DEFINE entries == read[o + 2]["entries"]
    <3>1. p(0) = o + 1 /\ p(0) + 1 = o + 2  BY <1>2
    <3>2. entries = From(0)  BY <2>4, <2>5, <3>1
    <3>3. (o + 1) + 1 = o + 2  OBVIOUS
    <3>4. decode_data(s, read, o + 1) = decode_dict(s, read, o + 1)
      BY <1>0, <2>5 DEF decode_data
    <3>5. decode_dict(s, read, o + 1) =
            IF Threw(entries) THEN Invalid ELSE Decoded(DictData(entries.value), entries.begin)
      BY <3>3 DEF decode_dict
    <3>6. Rest(0) = d
      <4>1. 9 \in 1 .. 9  OBVIOUS
      <4> QED  BY <4>1, EntriesAfterStep
    <3>7. end # 0
      <4>1. Len(E) \in Nat  BY <1>1
      <4> QED  BY <4>1
    <3> HIDE DEF entries, Rest, end
    <3>8. CASE o + Len(E) <= Len(s)
      <4>1. entries = Decoded(d, end)  BY <3>2, <3>6, <3>8
      <4>2. ~Threw(entries) /\ entries.value = d /\ entries.begin = end  BY <3>7, <4>1, Results
      <4> QED  BY <3>4, <3>5, <3>8, <4>2 DEF end
    <3>9. CASE ~ (o + Len(E) <= Len(s))
      <4>1. Threw(entries)  BY <3>2, <3>9, Results
      <4> QED  BY <3>4, <3>5, <3>9, <4>1
    <3> QED  BY <3>8, <3>9
  <2>6. CASE /\ ~ (o + Len(E) <= Len(s))
             /\ \A f : decode_data(s, f, o + 1) = Invalid
    BY <2>6
  <2>7. Len(E) \in Nat /\ Len(E) >= 1  BY <1>1
  <2> QED  BY <1>1, <1>3, <2>5, <2>6, <2>7, FirstToken
<1>4. E[1] # "e" /\ Len(E) \in Nat /\ Len(E) >= 1
  <2>1. E[1] # "e"  BY <1>1
  <2>2. Len(E) \in Nat /\ Len(E) >= 1  BY <1>1
  <2> QED  BY <2>1, <2>2
<1>6. Reads(E, DictData(d))  BY <1>1, <1>3, <1>4 DEF Reads
<1> QED  BY <1>6 DEF E, pieces

----------------------------------------------------------------------------
\* How what is inside is written.
Scalars(d) == [k \in DOMAIN d |-> encodeScalar(d[k])]
Values(d)  == [k \in DOMAIN d |-> encodeValue(d[k])]
Peers(l)   == [n \in DOMAIN l |-> encodePeer(l[n])]

\* encode, with its pieces.
LEMMA Encoded ==
  /\ \A d : encodePeer(DictData(d)) = Between("d", EntryPieces(d, Scalars(d)), "e")
  /\ \A d : encode(DictData(d)) = Between("d", EntryPieces(d, Values(d)), "e")
  /\ \A l : encodeValue(ListData(l)) = Between("l", Peers(l), "e")
  /\ \A n : encodeValue(IntegerData(n)) = encodeScalar(IntegerData(n))
  /\ \A t : encodeValue(StringData(t)) = encodeScalar(StringData(t))
<1>1. ASSUME NEW d PROVE encodePeer(DictData(d)) = Between("d", EntryPieces(d, Scalars(d)), "e")
  <2>1. encodePeer(DictData(d)) = encodeDict(Scalars(d))  BY DEF encodePeer, DictData, Scalars
  <2>2. DOMAIN Scalars(d) = DOMAIN d  BY DEF Scalars
  <2> QED  BY <2>1, <2>2 DEF encodeDict, EntryPieces, Between, Three
<1>2. ASSUME NEW d PROVE encode(DictData(d)) = Between("d", EntryPieces(d, Values(d)), "e")
  <2>1. encode(DictData(d)) = encodeDict(Values(d))  BY DEF encode, DictData, Values
  <2>2. DOMAIN Values(d) = DOMAIN d  BY DEF Values
  <2> QED  BY <2>1, <2>2 DEF encodeDict, EntryPieces, Between, Three
<1>3. ASSUME NEW l PROVE encodeValue(ListData(l)) = Between("l", Peers(l), "e")
  <2>1. Is("list", ListData(l)) /\ ListData(l).list = l  BY DEF Is, ListData
  <2> QED  BY <2>1 DEF encodeValue, encodeList, Between, Three, Peers
<1>4. ASSUME NEW n PROVE encodeValue(IntegerData(n)) = encodeScalar(IntegerData(n))
  BY DEF Is, IntegerData, encodeValue
<1>5. ASSUME NEW t PROVE encodeValue(StringData(t)) = encodeScalar(StringData(t))
  BY DEF Is, StringData, encodeValue
<1> QED  BY <1>1, <1>2, <1>3, <1>4, <1>5

\* The keys of the answers are among the nine.
LEMMA KeyNames ==
  {<<"complete">>, <<"failure reason">>, <<"incomplete">>, <<"interval">>, <<"ip">>, <<"peer_id">>,
   <<"peers">>, <<"port">>, <<"tracker_id">>} \subseteq {<<Keys[n]>> : n \in 1 .. 9}
<1>1. /\ Keys[1] = "complete" /\ Keys[2] = "failure reason" /\ Keys[3] = "incomplete"
      /\ Keys[4] = "interval" /\ Keys[5] = "ip" /\ Keys[6] = "peer_id" /\ Keys[7] = "peers"
      /\ Keys[8] = "port" /\ Keys[9] = "tracker_id"
  BY DEF Keys
<1>2. /\ 1 \in 1 .. 9 /\ 2 \in 1 .. 9 /\ 3 \in 1 .. 9 /\ 4 \in 1 .. 9 /\ 5 \in 1 .. 9
      /\ 6 \in 1 .. 9 /\ 7 \in 1 .. 9 /\ 8 \in 1 .. 9 /\ 9 \in 1 .. 9
  OBVIOUS
<1> DEFINE S == {<<Keys[n]>> : n \in 1 .. 9}
<1>3. \A n \in 1 .. 9 : <<Keys[n]>> \in S  OBVIOUS
<1> HIDE DEF S
<1>4. /\ <<Keys[1]>> \in S /\ <<Keys[2]>> \in S /\ <<Keys[3]>> \in S /\ <<Keys[4]>> \in S
      /\ <<Keys[5]>> \in S /\ <<Keys[6]>> \in S /\ <<Keys[7]>> \in S /\ <<Keys[8]>> \in S
      /\ <<Keys[9]>> \in S
  BY <1>2, <1>3, Zenon
<1>5. /\ <<"complete">> \in S /\ <<"failure reason">> \in S /\ <<"incomplete">> \in S
      /\ <<"interval">> \in S /\ <<"ip">> \in S /\ <<"peer_id">> \in S /\ <<"peers">> \in S
      /\ <<"port">> \in S /\ <<"tracker_id">> \in S
  BY <1>1, <1>4, Zenon
<1> QED  BY <1>5 DEF S

\* The dictionaries of Reply, by key.
PeerEntries(row) ==
  [k \in {<<"peer_id">>, <<"ip">>, <<"port">>} |->
    CASE k = <<"peer_id">> -> StringData(row.peerId)
      [] k = <<"ip">>      -> StringData(row.ipa)
      [] k = <<"port">>    -> IntegerData(row.port)]

\* A peer as a dictionary.
LEMMA PeerEntry ==
  ASSUME NEW row
  PROVE  /\ PeerData(row) = DictData(PeerEntries(row)) /\ IsDict(PeerEntries(row))
         /\ DOMAIN PeerEntries(row) = {<<"peer_id">>, <<"ip">>, <<"port">>}
         /\ PeerEntries(row)[<<"peer_id">>] = StringData(row.peerId)
         /\ PeerEntries(row)[<<"ip">>] = StringData(row.ipa)
         /\ PeerEntries(row)[<<"port">>] = IntegerData(row.port)
<1>1. PeerData(row) = DictData(PeerEntries(row))  BY DEF PeerData, PeerEntries
<1>2. DOMAIN PeerEntries(row) = {<<"peer_id">>, <<"ip">>, <<"port">>}  BY DEF PeerEntries
<1>3. PeerEntries(row) = [k \in DOMAIN PeerEntries(row) |-> PeerEntries(row)[k]]
  BY DEF PeerEntries
<1>4. IsDict(PeerEntries(row))  BY <1>2, <1>3, KeyNames DEF IsDict
<1>5. <<"peer_id">> # <<"ip">> /\ <<"peer_id">> # <<"port">> /\ <<"ip">> # <<"port">>
  OBVIOUS
<1>6. /\ PeerEntries(row)[<<"peer_id">>] = StringData(row.peerId)
      /\ PeerEntries(row)[<<"ip">>] = StringData(row.ipa)
      /\ PeerEntries(row)[<<"port">>] = IntegerData(row.port)
  BY <1>5 DEF PeerEntries
<1> QED  BY <1>1, <1>2, <1>4, <1>6

\* A client reads the peer that was meant.
LEMMA PeerReads ==
  ASSUME NEW row \in Row
  PROVE  Reads(encodePeer(PeerData(row)), PeerData(row))
<1> DEFINE d == PeerEntries(row)
<1>1. row.peerId \in Text /\ row.ipa \in Text /\ row.port \in Int  BY RowAssumption
<1>2. /\ PeerData(row) = DictData(d) /\ IsDict(d)
      /\ DOMAIN d = {<<"peer_id">>, <<"ip">>, <<"port">>}
      /\ d[<<"peer_id">>] = StringData(row.peerId) /\ d[<<"ip">>] = StringData(row.ipa)
      /\ d[<<"port">>] = IntegerData(row.port)
  BY PeerEntry
<1> HIDE DEF d
<1>3. \A k \in DOMAIN d : Reads(encodeScalar(d[k]), d[k])  BY <1>1, <1>2, ScalarReads
<1>4. \A k \in DOMAIN d : Reads(Scalars(d)[k], d[k])  BY <1>3 DEF Scalars
<1> DEFINE enc == Scalars(d)
<1> HIDE DEF enc
<1>5. Reads(Between("d", EntryPieces(d, enc), "e"), DictData(d))
  BY <1>2, <1>4, DictReads DEF enc
<1> QED  BY <1>2, <1>5, Encoded DEF enc

PeerList(peers) == [n \in DOMAIN peers |-> PeerData(peers[n])]

\* A client reads the list of peers that was meant, of any length.
LEMMA PeerListReads ==
  ASSUME NEW peers \in Seq(Row)
  PROVE  Reads(encodeValue(ListData(PeerList(peers))), ListData(PeerList(peers)))
<1> DEFINE l == PeerList(peers)
           V == {PeerData(row) : row \in Row}
           pieces == Peers(l)
           N == Len(peers)
           T == Seq(Token)
<1>0. N \in Nat /\ DOMAIN peers = 1 .. N /\ \A n \in 1 .. N : peers[n] \in Row  OBVIOUS
<1>1. DOMAIN l = 1 .. N /\ l = [n \in 1 .. N |-> l[n]] /\ \A n \in 1 .. N : l[n] = PeerData(peers[n])
  BY <1>0 DEF PeerList
<1> HIDE DEF l
<1>2. l \in [1 .. N -> V]  BY <1>0, <1>1
<1>3. l \in Seq(V) /\ Len(l) = N
  <2> HIDE DEF V, N
  <2>1. l \in Seq(V)  BY <1>0, <1>2, SeqDef
  <2>2. Len(l) = N  BY <1>0, <1>1, <2>1
  <2> QED  BY <2>1, <2>2
<1>4. /\ DOMAIN pieces = 1 .. N /\ pieces = [n \in 1 .. N |-> pieces[n]]
      /\ \A n \in 1 .. N : pieces[n] = encodePeer(l[n])
  BY <1>1 DEF Peers
<1> HIDE DEF pieces
<1>5. \A n \in 1 .. N : Reads(pieces[n], l[n])  BY <1>0, <1>1, <1>4, PeerReads
<1>6. \A n \in 1 .. N : pieces[n] \in T  BY <1>5 DEF Reads
<1>7. pieces \in [1 .. N -> T]
  <2> HIDE DEF T, N
  <2> QED  BY <1>4, <1>6
<1>8. pieces \in Seq(T) /\ Len(pieces) = N
  <2> HIDE DEF T, N
  <2>1. pieces \in Seq(T)  BY <1>0, <1>7, SeqDef
  <2>2. Len(pieces) = N  BY <1>0, <1>4, <2>1
  <2> QED  BY <2>1, <2>2
<1> HIDE DEF V, N
<1>9. Reads(Between("l", pieces, "e"), ListData(l))  BY <1>3, <1>5, <1>8, ListReads
<1> QED  BY <1>9, Encoded DEF l, pieces

\* A torrent with the numbers and the peers that an answer tells.
TorrentRecord(t) ==
  /\ t.trackerId \in Int /\ t.interval \in Int /\ t.seeders \in Int /\ t.leechers \in Int
  /\ t.peers \in Seq(Row)

TorrentEntries(t) ==
  [k \in {<<"tracker_id">>, <<"interval">>, <<"complete">>, <<"incomplete">>, <<"peers">>} |->
    CASE k = <<"tracker_id">> -> IntegerData(t.trackerId)
      [] k = <<"interval">>   -> IntegerData(t.interval)
      [] k = <<"complete">>   -> IntegerData(t.seeders)
      [] k = <<"incomplete">> -> IntegerData(t.leechers)
      [] k = <<"peers">>      -> ListData(PeerList(t.peers))]

\* A torrent as a dictionary.
LEMMA TorrentEntry ==
  ASSUME NEW t
  PROVE  /\ TorrentData(t) = DictData(TorrentEntries(t)) /\ IsDict(TorrentEntries(t))
         /\ DOMAIN TorrentEntries(t) =
              {<<"tracker_id">>, <<"interval">>, <<"complete">>, <<"incomplete">>, <<"peers">>}
         /\ TorrentEntries(t)[<<"tracker_id">>] = IntegerData(t.trackerId)
         /\ TorrentEntries(t)[<<"interval">>] = IntegerData(t.interval)
         /\ TorrentEntries(t)[<<"complete">>] = IntegerData(t.seeders)
         /\ TorrentEntries(t)[<<"incomplete">>] = IntegerData(t.leechers)
         /\ TorrentEntries(t)[<<"peers">>] = ListData(PeerList(t.peers))
<1> DEFINE d == TorrentEntries(t)
<1>1. TorrentData(t) = DictData(d)  BY DEF TorrentData, TorrentEntries, PeerList
<1>2. DOMAIN d = {<<"tracker_id">>, <<"interval">>, <<"complete">>, <<"incomplete">>, <<"peers">>}
  BY DEF TorrentEntries
<1>3. d = [k \in DOMAIN d |-> d[k]]  BY DEF TorrentEntries
<1>4. IsDict(d)
  <2> HIDE DEF d
  <2> QED  BY <1>2, <1>3, KeyNames DEF IsDict
<1>5. /\ <<"tracker_id">> # <<"interval">> /\ <<"tracker_id">> # <<"complete">>
      /\ <<"tracker_id">> # <<"incomplete">> /\ <<"tracker_id">> # <<"peers">>
      /\ <<"interval">> # <<"complete">> /\ <<"interval">> # <<"incomplete">>
      /\ <<"interval">> # <<"peers">> /\ <<"complete">> # <<"incomplete">>
      /\ <<"complete">> # <<"peers">> /\ <<"incomplete">> # <<"peers">>
  OBVIOUS
<1>6. /\ d[<<"tracker_id">>] = IntegerData(t.trackerId) /\ d[<<"interval">>] = IntegerData(t.interval)
      /\ d[<<"complete">>] = IntegerData(t.seeders) /\ d[<<"incomplete">>] = IntegerData(t.leechers)
      /\ d[<<"peers">>] = ListData(PeerList(t.peers))
  BY <1>5 DEF TorrentEntries
<1> QED  BY <1>1, <1>2, <1>4, <1>6

\* A client reads the torrent that was meant.
LEMMA TorrentReads ==
  ASSUME NEW t, TorrentRecord(t)
  PROVE  Reads(encode(TorrentData(t)), TorrentData(t))
<1> DEFINE d == TorrentEntries(t)
<1>2. /\ TorrentData(t) = DictData(d) /\ IsDict(d)
      /\ DOMAIN d = {<<"tracker_id">>, <<"interval">>, <<"complete">>, <<"incomplete">>, <<"peers">>}
      /\ d[<<"tracker_id">>] = IntegerData(t.trackerId) /\ d[<<"interval">>] = IntegerData(t.interval)
      /\ d[<<"complete">>] = IntegerData(t.seeders) /\ d[<<"incomplete">>] = IntegerData(t.leechers)
      /\ d[<<"peers">>] = ListData(PeerList(t.peers))
  BY TorrentEntry
<1> HIDE DEF d
<1>3. \A n \in Int : Reads(encodeValue(IntegerData(n)), IntegerData(n))
  BY ScalarReads, Encoded
<1>4. Reads(encodeValue(ListData(PeerList(t.peers))), ListData(PeerList(t.peers)))
  BY PeerListReads DEF TorrentRecord
<1>5. \A k \in DOMAIN d : Reads(encodeValue(d[k]), d[k])  BY <1>2, <1>3, <1>4 DEF TorrentRecord
<1>6. \A k \in DOMAIN d : Reads(Values(d)[k], d[k])  BY <1>5 DEF Values
<1> DEFINE enc == Values(d)
<1> HIDE DEF enc
<1>7. Reads(Between("d", EntryPieces(d, enc), "e"), DictData(d))
  BY <1>2, <1>6, DictReads DEF enc
<1> QED  BY <1>2, <1>7, Encoded DEF enc

ErrorEntries(m) == [k \in {<<"failure reason">>} |-> StringData(m)]

\* A refusal as a dictionary.
LEMMA ErrorEntry ==
  ASSUME NEW m
  PROVE  /\ ErrorData(m) = DictData(ErrorEntries(m)) /\ IsDict(ErrorEntries(m))
         /\ DOMAIN ErrorEntries(m) = {<<"failure reason">>}
         /\ ErrorEntries(m)[<<"failure reason">>] = StringData(m)
<1> DEFINE d == ErrorEntries(m)
<1>1. ErrorData(m) = DictData(d)  BY DEF ErrorData, ErrorEntries
<1>2. DOMAIN d = {<<"failure reason">>} /\ d = [k \in DOMAIN d |-> d[k]]
      /\ d[<<"failure reason">>] = StringData(m)
  BY DEF ErrorEntries
<1> HIDE DEF d
<1>3. IsDict(d)  BY <1>2, KeyNames DEF IsDict
<1> QED  BY <1>1, <1>2, <1>3 DEF d

\* A client reads the refusal that was meant.
LEMMA ErrorReads ==
  ASSUME NEW m \in Text
  PROVE  Reads(encode(ErrorData(m)), ErrorData(m))
<1> DEFINE d == ErrorEntries(m)
<1>2. /\ ErrorData(m) = DictData(d) /\ IsDict(d) /\ DOMAIN d = {<<"failure reason">>}
      /\ d[<<"failure reason">>] = StringData(m)
  BY ErrorEntry
<1> HIDE DEF d
<1>3. Reads(encodeValue(StringData(m)), StringData(m))  BY ScalarReads, Encoded
<1>4. \A k \in DOMAIN d : Reads(Values(d)[k], d[k])  BY <1>2, <1>3 DEF Values
<1> DEFINE enc == Values(d)
<1> HIDE DEF enc
<1>5. Reads(Between("d", EntryPieces(d, enc), "e"), DictData(d))
  BY <1>2, <1>4, DictReads DEF enc
<1> QED  BY <1>2, <1>5, Encoded DEF enc

----------------------------------------------------------------------------
\* Text without the character 0.
NulFree(E) == \A i \in 1 .. Len(E) : E[i] # Nul

\* Texts without the character 0 put together, have none.
LEMMA ConcatNulFree ==
  ASSUME NEW A \in Seq(Token), NEW B \in Seq(Token), NulFree(A), NulFree(B)
  PROVE  NulFree(A \o B)
<1> DEFINE E == A \o B
<1>1. /\ Len(E) = Len(A) + Len(B) /\ Len(A) \in Nat /\ Len(B) \in Nat
      /\ (\A i \in 1 .. Len(A) : E[i] = A[i]) /\ \A i \in 1 .. Len(B) : E[Len(A) + i] = B[i]
  BY ConcatAt
<1> HIDE DEF E
<1>2. ASSUME NEW i \in 1 .. Len(E) PROVE E[i] # Nul
  <2>1. CASE i <= Len(A)
    <3>1. i \in 1 .. Len(A)  BY <1>1, <2>1
    <3> QED  BY <1>1, <3>1 DEF NulFree
  <2>2. CASE ~ (i <= Len(A))
    <3>1. i - Len(A) \in 1 .. Len(B) /\ Len(A) + (i - Len(A)) = i  BY <1>1, <2>2
    <3>2. E[i] = B[i - Len(A)]  BY <1>1, <3>1
    <3> QED  BY <3>1, <3>2 DEF NulFree
  <2> QED  BY <2>1, <2>2
<1> QED  BY <1>2 DEF NulFree, E

\* A text of one token.
LEMMA OneNulFree ==
  ASSUME NEW c \in Token, c # Nul
  PROVE  <<c>> \in Seq(Token) /\ NulFree(<<c>>)
<1>1. <<c>> \in Seq(Token) /\ Len(<<c>>) = 1 /\ <<c>>[1] = c  BY Tuples
<1>2. \A i \in 1 .. 1 : i = 1  OBVIOUS
<1> QED  BY <1>1, <1>2 DEF NulFree

\* Pieces between two delimiters.
LEMMA BetweenNulFree ==
  ASSUME NEW a \in Token, NEW z \in Token, NEW pieces \in Seq(Seq(Token)), a # Nul, z # Nul,
         \A n \in 1 .. Len(pieces) : NulFree(pieces[n])
  PROVE  NulFree(Between(a, pieces, z))
<1> DEFINE N == Len(pieces)
           Good == {n \in Nat : n <= N =>
                      Joined(pieces, n) \in Seq(Token) /\ NulFree(Joined(pieces, n))}
<1>0. N \in Nat  OBVIOUS
<1>1. 0 \in Good
  <2>1. Joined(pieces, 0) = << >> /\ << >> \in Seq(Token) /\ Len(<< >>) = 0
    BY EmptySeq DEF Joined
  <2>2. 1 .. 0 = {}  OBVIOUS
  <2> QED  BY <2>1, <2>2 DEF NulFree
<1>2. ASSUME NEW n \in Nat, n \in Good PROVE n + 1 \in Good
  <2> DEFINE m == n + 1
  <2> SUFFICES ASSUME m <= N PROVE Joined(pieces, m) \in Seq(Token) /\ NulFree(Joined(pieces, m))
    OBVIOUS
  <2>1. m \in 1 .. Len(pieces) /\ m - 1 = n /\ n <= N  BY <1>0
  <2>2. Joined(pieces, n) \in Seq(Token) /\ NulFree(Joined(pieces, n))  BY <1>2, <2>1
  <2> HIDE DEF m
  <2>3. Joined(pieces, m) = Joined(pieces, n) \o pieces[m]  BY <2>1, JoinedStep
  <2>4. pieces[m] \in Seq(Token) /\ NulFree(pieces[m])  BY <2>1
  <2> DEFINE before == Joined(pieces, n)
             P == pieces[m]
  <2>5. before \in Seq(Token) /\ NulFree(before) /\ P \in Seq(Token) /\ NulFree(P)
    BY <2>2, <2>4
  <2> HIDE DEF before, P
  <2>6. before \o P \in Seq(Token) /\ NulFree(before \o P)
    BY <2>5, ConcatAt, ConcatNulFree
  <2> QED  BY <2>3, <2>6 DEF before, P
<1>3. N \in Good
  <2> HIDE DEF Good, N
  <2> QED  BY <1>0, <1>1, <1>2, NumberInduction
<1> DEFINE F == Joined(pieces, N)
           A == <<a>>
           Z == <<z>>
<1>4. F \in Seq(Token) /\ NulFree(F)  BY <1>0, <1>3
<1>5. A \in Seq(Token) /\ NulFree(A) /\ Z \in Seq(Token) /\ NulFree(Z)  BY OneNulFree
<1>6. FlattenSeq(pieces) = F
  <2> HIDE DEF F
  <2> QED  BY FlattenJoined DEF F
<1> HIDE DEF F, A, Z
<1>7. A \o F \in Seq(Token) /\ NulFree(A \o F)  BY <1>4, <1>5, ConcatAt, ConcatNulFree
<1>8. NulFree((A \o F) \o Z)
  <2> DEFINE AF == A \o F
  <2> HIDE DEF AF
  <2>1. NulFree(AF \o Z)  BY <1>5, <1>7, ConcatNulFree DEF AF
  <2> QED  BY <2>1 DEF AF
<1> QED  BY <1>6, <1>8 DEF Between, Three, A, Z

\* A number has no character 0.
LEMMA DigitsNulFree ==
  ASSUME NEW D \in Seq(Digit)
  PROVE  D \in Seq(Token) /\ NulFree(D)
<1>1. Digit \subseteq Token /\ Nul \notin Digit  BY SpecialTokens
<1>2. \A i \in 1 .. Len(D) : D[i] \in Digit  BY ElementOfSeq
<1>3. NulFree(D)  BY <1>1, <1>2 DEF NulFree
<1>4. D \in Seq(Token)  BY <1>1
<1> QED  BY <1>3, <1>4

\* An encoded string has none if the string has none.
LEMMA StringNulFree ==
  ASSUME NEW t \in Text, NulFree(t)
  PROVE  NulFree(encodeString(t))
<1> DEFINE D == Decimal(Len(t))
           colon == <<":">>
<1>0. t \in Seq(Token) /\ Len(t) \in Nat  BY DEF Text
<1>1. D \in Seq(Digit)
  <2>1. Spells(D, Len(t))  BY <1>0, NaturalSpelled
  <2> QED  BY <2>1 DEF Spells
<1> HIDE DEF D
<1>2. D \in Seq(Token) /\ NulFree(D)  BY <1>1, DigitsNulFree
<1>3. colon \in Seq(Token) /\ NulFree(colon)
  <2>1. ":" \in Token /\ ":" # Nul  BY SpecialTokens
  <2> QED  BY <2>1, OneNulFree
<1> HIDE DEF colon
<1>4. D \o colon \in Seq(Token) /\ NulFree(D \o colon)  BY <1>2, <1>3, ConcatAt, ConcatNulFree
<1> DEFINE DC == D \o colon
<1> HIDE DEF DC
<1>5. NulFree(DC \o t)  BY <1>0, <1>4, ConcatNulFree DEF DC
<1> QED  BY <1>5 DEF DC, D, colon, encodeString

\* An encoded number has none.
LEMMA IntegerNulFree ==
  ASSUME NEW n \in Int
  PROVE  NulFree(IntegerText(n))
<1>1. PICK sign \in {<< >>, <<"-">>}, D \in Seq(Digit), m \in Nat :
        Decimal(n) = sign \o D /\ Spells(D, m)
  BY IntegerParts
<1>2. D \in Seq(Token) /\ NulFree(D)  BY DigitsNulFree
<1>3. sign \in Seq(Token) /\ NulFree(sign)
  <2>1. "-" \in Token /\ "-" # Nul  BY SpecialTokens
  <2>2. <<"-">> \in Seq(Token) /\ NulFree(<<"-">>)  BY <2>1, OneNulFree
  <2>3. << >> \in Seq(Token) /\ NulFree(<< >>)
    <3>1. Len(<< >>) = 0 /\ 1 .. 0 = {} /\ << >> \in Seq(Token)  BY EmptySeq
    <3> QED  BY <3>1 DEF NulFree
  <2> QED  BY <2>2, <2>3
<1>4. sign \o D \in Seq(Token) /\ NulFree(sign \o D)  BY <1>2, <1>3, ConcatAt, ConcatNulFree
<1> DEFINE i == <<"i">>
           e == <<"e">>
           SD == sign \o D
<1>5. i \in Seq(Token) /\ NulFree(i) /\ e \in Seq(Token) /\ NulFree(e)
  <2>1. "i" \in Token /\ "i" # Nul /\ "e" \in Token /\ "e" # Nul  BY SpecialTokens
  <2> QED  BY <2>1, OneNulFree
<1> HIDE DEF i, e, SD
<1>6. i \o SD \in Seq(Token) /\ NulFree(i \o SD)  BY <1>4, <1>5, ConcatAt, ConcatNulFree DEF SD
<1> DEFINE iSD == i \o SD
<1> HIDE DEF iSD
<1>7. NulFree(iSD \o e)  BY <1>5, <1>6, ConcatNulFree DEF iSD
<1> QED  BY <1>1, <1>7 DEF iSD, i, e, SD, IntegerText

\* Both, as values.
LEMMA ScalarNulFree ==
  /\ \A n \in Int : NulFree(encodeScalar(IntegerData(n)))
  /\ \A t \in Text : NulFree(t) => NulFree(encodeScalar(StringData(t)))
<1>1. ASSUME NEW n \in Int PROVE NulFree(encodeScalar(IntegerData(n)))
  <2>1. Is("integer", IntegerData(n)) /\ IntegerData(n).integer = n  BY DEF Is, IntegerData
  <2>2. encodeScalar(IntegerData(n)) = IntegerText(n)  BY <2>1 DEF encodeScalar, IntegerText
  <2> QED  BY <2>2, IntegerNulFree
<1>2. ASSUME NEW t \in Text, NulFree(t) PROVE NulFree(encodeScalar(StringData(t)))
  <2>1. ~Is("integer", StringData(t)) /\ StringData(t).string = t  BY DEF Is, StringData
  <2>2. encodeScalar(StringData(t)) = encodeString(t)  BY <2>1 DEF encodeScalar
  <2> QED  BY <1>2, <2>2, StringNulFree
<1> QED  BY <1>1, <1>2

\* A dictionary has none if its values have none.
LEMMA DictNulFree ==
  ASSUME NEW d, NEW enc, \A k \in DOMAIN d : Reads(enc[k], d[k]) /\ NulFree(enc[k])
  PROVE  NulFree(Between("d", EntryPieces(d, enc), "e"))
<1> DEFINE pieces == EntryPieces(d, enc)
<1>1. /\ pieces \in Seq(Seq(Token)) /\ Len(pieces) = 9
      /\ \A n \in 1 .. 9 : pieces[n] = IF <<Keys[n]>> \notin DOMAIN d THEN << >>
                                       ELSE encodeString(<<Keys[n]>>) \o enc[<<Keys[n]>>]
  BY EntryPiece
<1> HIDE DEF pieces
<1>2. ASSUME NEW n \in 1 .. Len(pieces) PROVE NulFree(pieces[n])
  <2> DEFINE K == <<Keys[n]>>
  <2>0. n \in 1 .. 9  BY <1>1
  <2>1. K \in Text /\ NulFree(K)
    <3>1. Keys[n] \in Token /\ Keys[n] # Nul /\ K \in Text  BY <2>0, KeyTokens
    <3> QED  BY <3>1, OneNulFree
  <2>2. pieces[n] = IF K \notin DOMAIN d THEN << >> ELSE encodeString(K) \o enc[K]
    BY <1>1, <2>0
  <2> HIDE DEF K
  <2>3. CASE K \notin DOMAIN d
    <3>1. Len(<< >>) = 0 /\ 1 .. 0 = {}  OBVIOUS
    <3> QED  BY <2>2, <2>3, <3>1 DEF NulFree
  <2>4. CASE K \in DOMAIN d
    <3> DEFINE ks == encodeString(K)
               v  == enc[K]
    <3>1. ks \in Seq(Token) /\ NulFree(ks)  BY <2>1, StringRead, StringNulFree
    <3>2. v \in Seq(Token) /\ NulFree(v)  BY <2>4 DEF Reads
    <3> HIDE DEF ks, v
    <3>3. NulFree(ks \o v)  BY <3>1, <3>2, ConcatNulFree
    <3> QED  BY <2>2, <2>4, <3>3 DEF ks, v
  <2> QED  BY <2>3, <2>4
<1>3. "d" \in Token /\ "d" # Nul /\ "e" \in Token /\ "e" # Nul  BY SpecialTokens
<1>4. pieces \in Seq(Seq(Token))  BY <1>1
<1>5. NulFree(Between("d", pieces, "e"))  BY <1>2, <1>3, <1>4, BetweenNulFree
<1> QED  BY <1>5 DEF pieces

TextsNulFree(row) == NulFree(row.peerId) /\ NulFree(row.ipa)

\* A peer.
LEMMA PeerNulFree ==
  ASSUME NEW row \in Row, TextsNulFree(row)
  PROVE  NulFree(encodePeer(PeerData(row)))
<1> DEFINE d == PeerEntries(row)
<1>1. row.peerId \in Text /\ row.ipa \in Text /\ row.port \in Int  BY RowAssumption
<1>2. /\ PeerData(row) = DictData(d)
      /\ DOMAIN d = {<<"peer_id">>, <<"ip">>, <<"port">>}
      /\ d[<<"peer_id">>] = StringData(row.peerId) /\ d[<<"ip">>] = StringData(row.ipa)
      /\ d[<<"port">>] = IntegerData(row.port)
  BY PeerEntry
<1> HIDE DEF d
<1>3. \A k \in DOMAIN d : Reads(encodeScalar(d[k]), d[k])  BY <1>1, <1>2, ScalarReads
<1>4. \A k \in DOMAIN d : NulFree(encodeScalar(d[k]))
  BY <1>1, <1>2, ScalarNulFree DEF TextsNulFree
<1>5. \A k \in DOMAIN d : Reads(Scalars(d)[k], d[k]) /\ NulFree(Scalars(d)[k])
  BY <1>3, <1>4 DEF Scalars
<1> DEFINE enc == Scalars(d)
<1> HIDE DEF enc
<1>6. NulFree(Between("d", EntryPieces(d, enc), "e"))  BY <1>5, DictNulFree DEF enc
<1> QED  BY <1>2, <1>6, Encoded DEF enc

\* A list of peers.
LEMMA PeerListNulFree ==
  ASSUME NEW peers \in Seq(Row), \A n \in 1 .. Len(peers) : TextsNulFree(peers[n])
  PROVE  NulFree(encodeValue(ListData(PeerList(peers))))
<1> DEFINE l == PeerList(peers)
           pieces == Peers(l)
           N == Len(peers)
           T == Seq(Token)
<1>0. N \in Nat /\ DOMAIN peers = 1 .. N /\ \A n \in 1 .. N : peers[n] \in Row  OBVIOUS
<1>1. DOMAIN l = 1 .. N /\ \A n \in 1 .. N : l[n] = PeerData(peers[n])
  BY <1>0 DEF PeerList
<1> HIDE DEF l
<1>4. /\ DOMAIN pieces = 1 .. N /\ pieces = [n \in 1 .. N |-> pieces[n]]
      /\ \A n \in 1 .. N : pieces[n] = encodePeer(l[n])
  BY <1>1 DEF Peers
<1> HIDE DEF pieces
<1>5. \A n \in 1 .. N : Reads(pieces[n], l[n]) /\ NulFree(pieces[n])
  BY <1>0, <1>1, <1>4, PeerReads, PeerNulFree
<1>6. \A n \in 1 .. N : pieces[n] \in T  BY <1>5 DEF Reads
<1>7. pieces \in [1 .. N -> T]
  <2> HIDE DEF T, N
  <2> QED  BY <1>4, <1>6
<1>8. pieces \in Seq(T) /\ Len(pieces) = N
  <2> HIDE DEF T, N
  <2>1. pieces \in Seq(T)  BY <1>0, <1>7, SeqDef
  <2>2. Len(pieces) = N  BY <1>0, <1>4, <2>1
  <2> QED  BY <2>1, <2>2
<1> HIDE DEF N
<1>9. "l" \in Token /\ "l" # Nul /\ "e" \in Token /\ "e" # Nul  BY SpecialTokens
<1>10. pieces \in Seq(Seq(Token)) /\ \A n \in 1 .. Len(pieces) : NulFree(pieces[n])
  BY <1>5, <1>8
<1>11. NulFree(Between("l", pieces, "e"))  BY <1>9, <1>10, BetweenNulFree
<1> QED  BY <1>11, Encoded DEF l, pieces

\* A torrent.
LEMMA TorrentNulFree ==
  ASSUME NEW t, TorrentRecord(t), \A n \in 1 .. Len(t.peers) : TextsNulFree(t.peers[n])
  PROVE  NulFree(encode(TorrentData(t)))
<1> DEFINE d == TorrentEntries(t)
<1>2. /\ TorrentData(t) = DictData(d)
      /\ DOMAIN d = {<<"tracker_id">>, <<"interval">>, <<"complete">>, <<"incomplete">>, <<"peers">>}
      /\ d[<<"tracker_id">>] = IntegerData(t.trackerId) /\ d[<<"interval">>] = IntegerData(t.interval)
      /\ d[<<"complete">>] = IntegerData(t.seeders) /\ d[<<"incomplete">>] = IntegerData(t.leechers)
      /\ d[<<"peers">>] = ListData(PeerList(t.peers))
  BY TorrentEntry
<1> HIDE DEF d
<1>3. \A n \in Int : /\ Reads(encodeValue(IntegerData(n)), IntegerData(n))
                     /\ NulFree(encodeValue(IntegerData(n)))
  BY ScalarReads, ScalarNulFree, Encoded
<1>4. /\ Reads(encodeValue(ListData(PeerList(t.peers))), ListData(PeerList(t.peers)))
      /\ NulFree(encodeValue(ListData(PeerList(t.peers))))
  BY PeerListReads, PeerListNulFree DEF TorrentRecord
<1>5. \A k \in DOMAIN d : Reads(encodeValue(d[k]), d[k]) /\ NulFree(encodeValue(d[k]))
  BY <1>2, <1>3, <1>4 DEF TorrentRecord
<1>6. \A k \in DOMAIN d : Reads(Values(d)[k], d[k]) /\ NulFree(Values(d)[k])  BY <1>5 DEF Values
<1> DEFINE enc == Values(d)
<1> HIDE DEF enc
<1>7. NulFree(Between("d", EntryPieces(d, enc), "e"))  BY <1>6, DictNulFree DEF enc
<1> QED  BY <1>2, <1>7, Encoded DEF enc

\* A refusal.
LEMMA ErrorNulFree ==
  ASSUME NEW m \in Text, NulFree(m)
  PROVE  NulFree(encode(ErrorData(m)))
<1> DEFINE d == ErrorEntries(m)
<1>2. /\ ErrorData(m) = DictData(d) /\ DOMAIN d = {<<"failure reason">>}
      /\ d[<<"failure reason">>] = StringData(m)
  BY ErrorEntry
<1> HIDE DEF d
<1>3. Reads(encodeValue(StringData(m)), StringData(m)) /\ NulFree(encodeValue(StringData(m)))
  BY ScalarReads, ScalarNulFree, Encoded
<1>4. \A k \in DOMAIN d : Reads(Values(d)[k], d[k]) /\ NulFree(Values(d)[k])
  BY <1>2, <1>3 DEF Values
<1> DEFINE enc == Values(d)
<1> HIDE DEF enc
<1>5. NulFree(Between("d", EntryPieces(d, enc), "e"))  BY <1>4, DictNulFree DEF enc
<1> QED  BY <1>2, <1>5, Encoded DEF enc

----------------------------------------------------------------------------
\* Where a token is first.
LEMMA FirstIn ==
  ASSUME NEW s \in Seq(Token), NEW c
  PROVE  \/ First(s, c) = 0 /\ \A i \in 1 .. Len(s) : s[i] # c
         \/ /\ First(s, c) \in 1 .. Len(s) /\ s[First(s, c)] = c
            /\ \A i \in 1 .. First(s, c) - 1 : s[i] # c
<1> DEFINE places == {n \in DOMAIN s : s[n] = c}
           f == First(s, c)
<1>0. DOMAIN s = 1 .. Len(s) /\ Len(s) \in Nat  OBVIOUS
<1>1. f = IF places = {} THEN 0 ELSE Min(places)  BY DEF First
<1>2. CASE places = {}  BY <1>0, <1>1, <1>2
<1>3. CASE places # {}
  <2>1. places \in SUBSET Nat  BY <1>0
  <2>2. Min(places) \in places /\ \A y \in places : Min(places) <= y
    <3> HIDE DEF places
    <3> QED  BY <1>3, <2>1, MinIn
  <2>3. f = Min(places)  BY <1>1, <1>3
  <2> HIDE DEF f
  <2>4. f \in places /\ \A y \in places : f <= y  BY <2>2, <2>3
  <2>5. f \in 1 .. Len(s) /\ s[f] = c  BY <1>0, <2>4
  <2>6. ASSUME NEW i \in 1 .. f - 1 PROVE s[i] # c
    <3>1. i \in DOMAIN s /\ ~ (f <= i)  BY <1>0, <2>5
    <3> QED  BY <2>4, <3>1
  <2> QED  BY <2>5, <2>6 DEF f
<1> QED  BY <1>2, <1>3

\* Conversely: the place that has the token, and none before it, is the first.
LEMMA FirstIs ==
  ASSUME NEW s \in Seq(Token), NEW c, NEW n \in 1 .. Len(s), s[n] = c,
         \A i \in 1 .. n - 1 : s[i] # c
  PROVE  First(s, c) = n
<1> DEFINE f == First(s, c)
<1>0. Len(s) \in Nat  OBVIOUS
<1>1. \/ f = 0 /\ \A i \in 1 .. Len(s) : s[i] # c
      \/ f \in 1 .. Len(s) /\ s[f] = c /\ \A i \in 1 .. f - 1 : s[i] # c
  BY FirstIn
<1> HIDE DEF f
<1>2. f \in 1 .. Len(s) /\ s[f] = c /\ \A i \in 1 .. f - 1 : s[i] # c  BY <1>1
<1>3. ~ (f < n)
  <2>1. f < n => f \in 1 .. n - 1  BY <1>0, <1>2
  <2> QED  BY <1>2, <2>1
<1>4. ~ (n < f)
  <2>1. n < f => n \in 1 .. f - 1  BY <1>0, <1>2
  <2> QED  BY <1>2, <2>1
<1>5. f = n  BY <1>0, <1>2, <1>3, <1>4
<1> QED  BY <1>5 DEF f

\* A text up to its first 0.
LEMMA CStringOf ==
  ASSUME NEW s \in Seq(Token)
  PROVE  /\ CString(s) \in Seq(Token) /\ Len(CString(s)) \in Nat /\ Len(CString(s)) <= Len(s)
         /\ \A i \in 1 .. Len(CString(s)) : CString(s)[i] = s[i]
         /\ NulFree(s) => CString(s) = s
         /\ NulFree(CString(s))
         /\ Len(CString(s)) < Len(s) => s[Len(CString(s)) + 1] = Nul
<1> DEFINE f == First(s, Nul)
           n == f - 1
           c == CString(s)
<1>0. Len(s) \in Nat  OBVIOUS
<1>1. \/ f = 0 /\ \A i \in 1 .. Len(s) : s[i] # Nul
      \/ f \in 1 .. Len(s) /\ s[f] = Nul /\ \A i \in 1 .. f - 1 : s[i] # Nul
  BY FirstIn
<1>2. c = IF f = 0 THEN s ELSE SubSeq(s, 1, n)  BY DEF CString
<1> HIDE DEF f, c
<1>3. CASE f = 0 /\ \A i \in 1 .. Len(s) : s[i] # Nul
  <2>1. c = s  BY <1>2, <1>3
  <2>2. NulFree(s)  BY <1>3 DEF NulFree
  <2> QED  BY <1>0, <2>1, <2>2 DEF c
<1>4. CASE f \in 1 .. Len(s) /\ s[f] = Nul /\ \A i \in 1 .. f - 1 : s[i] # Nul
  <2>1. n \in 0 .. Len(s) /\ n \in Nat /\ n < Len(s) /\ n + 1 = f /\ f # 0  BY <1>0, <1>4
  <2> HIDE DEF n
  <2>2. c = SubSeq(s, 1, n)  BY <1>2, <2>1
  <2>3. /\ SubSeq(s, 1, n) \in Seq(Token) /\ Len(SubSeq(s, 1, n)) = n
        /\ IsPrefix(SubSeq(s, 1, n), s)
    BY <2>1, PrefixSub
  <2>4. c \in Seq(Token) /\ Len(c) = n /\ IsPrefix(c, s)  BY <2>2, <2>3
  <2>5. \A i \in 1 .. n : c[i] = s[i]  BY <2>4, PrefixAt
  <2>6. ~NulFree(s)
    <3>1. s[f] = Nul /\ f \in 1 .. Len(s)  BY <1>4
    <3> QED  BY <3>1 DEF NulFree
  <2>7. NulFree(c)
    <3>1. \A i \in 1 .. n : s[i] # Nul  BY <1>4, <2>1 DEF n
    <3> QED  BY <2>4, <2>5, <3>1 DEF NulFree
  <2>8. s[n + 1] = Nul  BY <1>4, <2>1
  <2>9. n <= Len(s)  BY <2>1
  <2> QED  BY <2>1, <2>4, <2>5, <2>6, <2>7, <2>8, <2>9 DEF c
<1> QED  BY <1>1, <1>3, <1>4

\* Conversely: what has no 0 and is followed by one or by the end.
LEMMA CStringIs ==
  ASSUME NEW s \in Seq(Token), NEW t \in Seq(Token), NulFree(t), Len(t) <= Len(s),
         \A i \in 1 .. Len(t) : t[i] = s[i],
         Len(t) < Len(s) => s[Len(t) + 1] = Nul
  PROVE  CString(s) = t
<1> DEFINE c == CString(s)
<1>1. /\ c \in Seq(Token) /\ Len(c) \in Nat /\ Len(c) <= Len(s)
      /\ \A i \in 1 .. Len(c) : c[i] = s[i]
      /\ NulFree(c)
      /\ Len(c) < Len(s) => s[Len(c) + 1] = Nul
  BY CStringOf
<1> HIDE DEF c
<1>2. Len(t) \in Nat /\ Len(s) \in Nat  OBVIOUS
<1>3. ~ (Len(c) < Len(t))
  <2> SUFFICES ASSUME Len(c) < Len(t) PROVE FALSE
    OBVIOUS
  <2>1. Len(c) + 1 \in 1 .. Len(t) /\ Len(c) < Len(s)  BY <1>1, <1>2
  <2>2. t[Len(c) + 1] = Nul  BY <1>1, <2>1
  <2> QED  BY <2>1, <2>2 DEF NulFree
<1>4. ~ (Len(t) < Len(c))
  <2> SUFFICES ASSUME Len(t) < Len(c) PROVE FALSE
    OBVIOUS
  <2>1. Len(t) + 1 \in 1 .. Len(c) /\ Len(t) < Len(s)  BY <1>1, <1>2
  <2>2. c[Len(t) + 1] = Nul  BY <1>1, <2>1
  <2> QED  BY <1>1, <2>1, <2>2 DEF NulFree
<1>5. Len(c) = Len(t)  BY <1>1, <1>2, <1>3, <1>4
<1>6. \A i \in 1 .. Len(c) : c[i] = t[i]  BY <1>1, <1>5
<1>7. c = t  BY <1>1, <1>5, <1>6, SeqEqual
<1> QED  BY <1>7 DEF c

\* c_str() of a header without 0 and a body.
LEMMA CStringConcat ==
  ASSUME NEW h \in Seq(Token), NEW b \in Seq(Token), NulFree(h)
  PROVE  CString(h \o b) = h \o CString(b)
<1> DEFINE c == CString(b)
           u == h \o b
           t == h \o c
<1>1. /\ c \in Seq(Token) /\ Len(c) \in Nat /\ Len(c) <= Len(b)
      /\ \A i \in 1 .. Len(c) : c[i] = b[i]
      /\ NulFree(c)
      /\ Len(c) < Len(b) => b[Len(c) + 1] = Nul
  BY CStringOf
<1> HIDE DEF c
<1>2. /\ u \in Seq(Token) /\ Len(u) = Len(h) + Len(b) /\ Len(h) \in Nat /\ Len(b) \in Nat
      /\ (\A i \in 1 .. Len(h) : u[i] = h[i]) /\ \A i \in 1 .. Len(b) : u[Len(h) + i] = b[i]
  BY ConcatAt
<1>3. /\ t \in Seq(Token) /\ Len(t) = Len(h) + Len(c)
      /\ (\A i \in 1 .. Len(h) : t[i] = h[i]) /\ \A i \in 1 .. Len(c) : t[Len(h) + i] = c[i]
  <2>1. c \in Seq(Token)  BY <1>1
  <2> QED  BY <2>1, ConcatAt
<1>4. NulFree(t)  BY <1>1, ConcatNulFree
<1> HIDE DEF u, t
<1>5. Len(t) <= Len(u) /\ Len(t) \in Nat  BY <1>1, <1>2, <1>3
<1>6. ASSUME NEW i \in 1 .. Len(t) PROVE t[i] = u[i]
  <2>1. CASE i <= Len(h)
    <3>1. i \in 1 .. Len(h)  BY <1>2, <2>1
    <3> QED  BY <1>2, <1>3, <3>1
  <2>2. CASE ~ (i <= Len(h))
    <3>1. i - Len(h) \in 1 .. Len(c) /\ Len(h) + (i - Len(h)) = i /\ i - Len(h) \in 1 .. Len(b)
      BY <1>1, <1>2, <1>3, <2>2
    <3>2. t[i] = c[i - Len(h)] /\ u[i] = b[i - Len(h)]  BY <1>2, <1>3, <3>1
    <3> QED  BY <1>1, <3>1, <3>2
  <2> QED  BY <2>1, <2>2
<1>7. Len(t) < Len(u) => u[Len(t) + 1] = Nul
  <2> SUFFICES ASSUME Len(t) < Len(u) PROVE u[Len(t) + 1] = Nul
    OBVIOUS
  <2>1. Len(c) < Len(b) /\ Len(c) + 1 \in 1 .. Len(b) /\ Len(h) + (Len(c) + 1) = Len(t) + 1
    BY <1>1, <1>2, <1>3
  <2>2. u[Len(h) + (Len(c) + 1)] = b[Len(c) + 1]  BY <1>2, <2>1
  <2> QED  BY <1>1, <2>1, <2>2
<1>8. CString(u) = t  BY <1>2, <1>3, <1>4, <1>5, <1>6, <1>7, CStringIs
<1> QED  BY <1>8 DEF u, t, c

\* The header of an answer.
Header(body) ==
  <<"HTTP/1.1 200 OK", "Content-length: ">> \o Decimal(Len(CString(body))) \o <<"\r\n\r\n">>

\* The header has the length of what is left of the body, and ends with its only empty line.
LEMMA HeaderIs ==
  ASSUME NEW body \in Seq(Token)
  PROVE  /\ HttpAnswer(body) = Header(body) \o body
         /\ Header(body) \in Seq(Token) /\ NulFree(Header(body))
         /\ Len(Header(body)) = Len(Decimal(Len(CString(body)))) + 3
         /\ Spells(Decimal(Len(CString(body))), Len(CString(body)))
         /\ \A i \in 1 .. Len(Decimal(Len(CString(body)))) :
              Header(body)[2 + i] = Decimal(Len(CString(body)))[i]
         /\ Header(body)[Len(Header(body))] = "\r\n\r\n"
         /\ \A i \in 1 .. Len(Header(body)) - 1 : Header(body)[i] # "\r\n\r\n"
<1> DEFINE len == Len(CString(body))
           D == Decimal(len)
           x == "HTTP/1.1 200 OK"
           y == "Content-length: "
           z == "\r\n\r\n"
           A == <<x, y>>
           Z == <<z>>
           h == Header(body)
<1>1. len \in Nat  BY CStringOf
<1> HIDE DEF len
<1>2. Spells(D, len)  BY <1>1, NaturalSpelled
<1>3. D \in Seq(Digit) /\ Len(D) \in Nat  BY <1>2 DEF Spells
<1> HIDE DEF D
<1>4. D \in Seq(Token) /\ NulFree(D)  BY <1>3, DigitsNulFree
<1>5. x \in Token /\ x # Nul /\ y \in Token /\ y # Nul /\ z \in Token /\ z # Nul /\ x # z /\ y # z
      /\ z \notin Digit
  BY SpecialTokens
<1> HIDE DEF x, y, z
<1>6. /\ A \in Seq(Token) /\ Len(A) = 2 /\ A[1] = x /\ A[2] = y
      /\ Z \in Seq(Token) /\ Len(Z) = 1 /\ Z[1] = z
  BY <1>5, Tuples
<1>7. NulFree(A)
  <2>1. \A i \in 1 .. 2 : i = 1 \/ i = 2  OBVIOUS
  <2> QED  BY <1>5, <1>6, <2>1 DEF NulFree
<1>8. NulFree(Z)  BY <1>5, OneNulFree
<1>9. h = Three(A, D, Z)  BY DEF Header, Three, D, x, y, z, len
<1> HIDE DEF A, Z, h
<1>10. /\ h \in Seq(Token) /\ Len(h) = Len(A) + Len(D) + Len(Z)
       /\ At(h, 0, A) /\ At(h, Len(A), D) /\ At(h, Len(A) + Len(D), Z)
  <2>1. A \in Seq(Token) /\ D \in Seq(Token) /\ Z \in Seq(Token)  BY <1>4, <1>6
  <2> QED  BY <1>9, <2>1, Around
<1>11. NulFree(h)
  <2> DEFINE AD == A \o D
  <2>1. AD \in Seq(Token) /\ NulFree(AD)  BY <1>4, <1>6, <1>7, ConcatAt, ConcatNulFree
  <2> HIDE DEF AD
  <2>2. NulFree(AD \o Z)  BY <1>6, <1>8, <2>1, ConcatNulFree
  <2> QED  BY <1>9, <2>2 DEF AD, Three
<1>12. Len(h) = Len(D) + 3  BY <1>3, <1>6, <1>10
<1>13. /\ \A i \in 1 .. Len(D) : h[2 + i] = D[i]
       /\ \A i \in 1 .. 1 : h[(2 + Len(D)) + i] = Z[i]
       /\ h[1] = x /\ h[2] = y
  <2>1. \A i \in 1 .. Len(D) : h[2 + i] = D[i]  BY <1>6, <1>10 DEF At
  <2>2. \A i \in 1 .. 1 : h[(2 + Len(D)) + i] = Z[i]  BY <1>6, <1>10 DEF At
  <2>3. 1 \in 1 .. Len(A) /\ 2 \in 1 .. Len(A)  BY <1>6
  <2>4. h[1] = A[1] /\ h[2] = A[2]  BY <1>10, <2>3, AtFirst
  <2> QED  BY <1>6, <2>1, <2>2, <2>4
<1>14. h[Len(h)] = z
  <2>1. 1 \in 1 .. 1 /\ (2 + Len(D)) + 1 = Len(h)  BY <1>3, <1>12
  <2>2. h[(2 + Len(D)) + 1] = Z[1]  BY <1>13, <2>1
  <2> QED  BY <1>6, <2>1, <2>2
<1>15. ASSUME NEW i \in 1 .. Len(h) - 1 PROVE h[i] # z
  <2>1. i = 1 \/ i = 2 \/ (i - 2 \in 1 .. Len(D) /\ 2 + (i - 2) = i)  BY <1>3, <1>12
  <2>2. CASE i = 1  BY <1>5, <1>13, <2>2
  <2>3. CASE i = 2  BY <1>5, <1>13, <2>3
  <2>4. CASE i - 2 \in 1 .. Len(D) /\ 2 + (i - 2) = i
    <3> DEFINE j == i - 2
    <3>1. j \in 1 .. Len(D) /\ 2 + j = i  BY <2>4
    <3> HIDE DEF j
    <3>2. h[i] = D[j]  BY <1>13, <3>1
    <3>3. D[j] \in Digit  BY <1>3, <3>1, ElementOfSeq
    <3> QED  BY <1>5, <3>2, <3>3
  <2> QED  BY <2>1, <2>2, <2>3, <2>4
<1>16. HttpAnswer(body) = h \o body  BY DEF HttpAnswer, Header, h
<1> QED  BY <1>2, <1>10, <1>11, <1>12, <1>13, <1>14, <1>15, <1>16 DEF h, D, z, len

\* The beginning of a sequence.
LEMMA FrontIs ==
  ASSUME NEW S, NEW s \in Seq(S), NEW n \in 0 .. Len(s)
  PROVE  /\ SubSeq(s, 1, n) \in Seq(S) /\ Len(SubSeq(s, 1, n)) = n
         /\ \A i \in 1 .. n : SubSeq(s, 1, n)[i] = s[i]
<1> DEFINE u == SubSeq(s, 1, n)
<1>1. IsPrefix(u, s) /\ u \in Seq(S) /\ Len(u) = n  BY PrefixSub
<1> HIDE DEF u
<1>2. \A i \in 1 .. Len(u) : u[i] = s[i]  BY <1>1, PrefixAt
<1> QED  BY <1>1, <1>2 DEF u

\* What follows the header in a text r.
BodyOf(r) == SubSeq(r, First(r, "\r\n\r\n") + 1, Len(r))

\* If the header came, what follows it is the beginning of the body.
LEMMA BodyCame ==
  ASSUME NEW body \in Seq(Token), NEW n \in 0 .. Len(CString(HttpAnswer(body))),
         NEW r, r = SubSeq(CString(HttpAnswer(body)), 1, n), First(r, "\r\n\r\n") > 0
  PROVE  /\ BodyOf(r) \in Seq(Token) /\ Len(BodyOf(r)) \in Nat
         /\ Len(CString(body)) \in Nat /\ Len(BodyOf(r)) <= Len(CString(body))
         /\ \A i \in 1 .. Len(BodyOf(r)) : BodyOf(r)[i] = CString(body)[i]
         /\ Value(r, 3) = Len(CString(body))
         /\ Len(BodyOf(r)) = Len(CString(body)) <=> r = CString(HttpAnswer(body))
<1> DEFINE h == Header(body)
           c == CString(body)
           a == CString(HttpAnswer(body))
           z == "\r\n\r\n"
           D == Decimal(Len(c))
           k == Len(h)
           f == First(r, z)
           b == BodyOf(r)
<1>1. /\ HttpAnswer(body) = h \o body
      /\ h \in Seq(Token) /\ NulFree(h)
      /\ k = Len(D) + 3
      /\ Spells(D, Len(c))
      /\ \A i \in 1 .. Len(D) : h[2 + i] = D[i]
      /\ h[k] = z
      /\ \A i \in 1 .. k - 1 : h[i] # z
  BY HeaderIs
<1>2. c \in Seq(Token) /\ Len(c) \in Nat  BY CStringOf
<1>3. a = h \o c  BY <1>1, CStringConcat
<1>4. z \in Token /\ z \notin Digit  BY SpecialTokens
<1>5. r = SubSeq(a, 1, n) /\ f > 0 /\ n \in 0 .. Len(a)  OBVIOUS
<1>6. b = SubSeq(r, f + 1, Len(r))  BY DEF BodyOf
<1> HIDE DEF h, c, a, z, b
<1>7. /\ a \in Seq(Token) /\ Len(a) = Len(h) + Len(c) /\ Len(h) \in Nat
      /\ (\A i \in 1 .. Len(h) : a[i] = h[i]) /\ \A i \in 1 .. Len(c) : a[Len(h) + i] = c[i]
  <2>1. h \in Seq(Token) /\ c \in Seq(Token)  BY <1>1, <1>2
  <2> QED  BY <1>3, <2>1, ConcatAt
<1>8. r \in Seq(Token) /\ Len(r) = n /\ \A i \in 1 .. n : r[i] = a[i]
  <2>1. a \in Seq(Token) /\ n \in 0 .. Len(a) /\ r = SubSeq(a, 1, n)  BY <1>5, <1>7
  <2>2. /\ SubSeq(a, 1, n) \in Seq(Token) /\ Len(SubSeq(a, 1, n)) = n
        /\ \A i \in 1 .. n : SubSeq(a, 1, n)[i] = a[i]
    BY <2>1, FrontIs
  <2> QED  BY <2>1, <2>2
<1>9. \A i \in 1 .. n : r[i] = a[i]  BY <1>8
<1>10. n \in Nat /\ n <= Len(a)  BY <1>5, <1>7
<1> HIDE DEF f
<1>11. n >= k
  <2> SUFFICES ASSUME n < k PROVE FALSE
    BY <1>7, <1>10
  <2>1. f \in 1 .. Len(r) /\ r[f] = z
    <3>1. \/ f = 0
          \/ f \in 1 .. Len(r) /\ r[f] = z
      BY <1>8, FirstIn DEF f
    <3> QED  BY <1>5, <3>1
  <2>2. f \in 1 .. n /\ f \in 1 .. k - 1 /\ f \in 1 .. Len(h)  BY <1>7, <1>8, <1>10, <2>1
  <2>3. r[f] = h[f]  BY <1>7, <1>9, <2>2
  <2> QED  BY <1>1, <2>1, <2>2, <2>3
<1>12. f = k
  <2>0. Len(D) \in Nat /\ k \in 1 .. n  BY <1>1, <1>7, <1>10, <1>11 DEF Spells
  <2>1. k \in 1 .. Len(r) /\ k \in 1 .. Len(h)  BY <1>7, <1>8, <2>0
  <2>2. r[k] = z  BY <1>1, <1>7, <1>9, <2>0, <2>1
  <2>3. \A i \in 1 .. k - 1 : i \in 1 .. n /\ i \in 1 .. Len(h)  BY <1>7, <2>0
  <2>4. \A i \in 1 .. k - 1 : r[i] # z  BY <1>1, <1>7, <1>9, <2>3
  <2>5. r \in Seq(Token) /\ k \in 1 .. Len(r)  BY <1>8, <2>1
  <2> HIDE DEF k
  <2>6. First(r, z) = k  BY <2>2, <2>4, <2>5, FirstIs
  <2> QED  BY <2>6 DEF f
<1>13. /\ b \in Seq(Token) /\ Len(b) = n - k
       /\ \A i \in 1 .. n - k : b[i] = c[i]
  <2> DEFINE m == k + 1
  <2>0. m \in Int /\ n \in Int /\ k \in Nat /\ m >= 1  BY <1>7, <1>10
  <2>1. b = SubSeq(r, m, n)  BY <1>6, <1>8, <1>12
  <2>2. \A i \in m .. n : r[i] \in Token
    <3>1. \A i \in m .. n : i \in 1 .. Len(r)  BY <1>8, <2>0
    <3> QED  BY <1>8, <3>1, ElementOfSeq
  <2>3. n - m + 1 = n - k /\ (m <= n <=> n - k > 0) /\ \A i \in 1 .. n - k : m + i - 1 = k + i
    BY <2>0
  <2> HIDE DEF m
  <2>4. /\ SubSeq(r, m, n) \in Seq(Token)
        /\ Len(SubSeq(r, m, n)) = IF m <= n THEN n - m + 1 ELSE 0
        /\ \A i \in 1 .. n - m + 1 : SubSeq(r, m, n)[i] = r[m + i - 1]
    BY <2>0, <2>2, SubSeqProperties
  <2>5. b \in Seq(Token) /\ Len(b) = IF m <= n THEN n - m + 1 ELSE 0  BY <2>1, <2>4
  <2>6. Len(b) = n - k  BY <1>11, <2>0, <2>3, <2>5
  <2>7. \A i \in 1 .. n - k : b[i] = r[k + i]  BY <2>1, <2>3, <2>4
  <2>8. \A i \in 1 .. n - k : k + i \in 1 .. n /\ i \in 1 .. Len(c)
    BY <1>2, <1>7, <1>10, <2>0
  <2>9. \A i \in 1 .. n - k : r[k + i] = a[Len(h) + i]  BY <1>9, <2>8
  <2> QED  BY <1>7, <2>5, <2>6, <2>7, <2>8, <2>9
<1>14. Value(r, 3) = Len(c)
  <2>0. /\ Len(D) \in Nat /\ 2 + Len(D) + 1 = k /\ 2 + Len(D) <= n /\ 2 \in Nat /\ 2 + 1 = 3
        /\ k \in 1 .. Len(h) /\ k \in 1 .. n
        /\ \A i \in 1 .. Len(D) : 2 + i \in 1 .. n /\ 2 + i \in 1 .. Len(h)
    <3>1. Len(D) \in Nat  BY <1>1 DEF Spells
    <3> QED  BY <1>1, <1>7, <1>11, <3>1
  <2>1. Agrees(r, 2, D)  BY <1>1, <1>7, <1>9, <2>0 DEF Agrees
  <2>2. r[2 + Len(D) + 1] = z  BY <1>1, <1>7, <1>9, <2>0
  <2>3. r[2 + Len(D) + 1] \notin Digit  BY <1>4, <2>2
  <2>4. 2 + Len(D) <= Len(r)  BY <1>8, <2>0
  <2>5. r \in Seq(Token) /\ Spells(D, Len(c))  BY <1>1, <1>8
  <2> HIDE DEF D, k
  <2> DEFINE len == Len(c)
             o == 2
  <2>6. o \in Nat /\ Spells(D, len) /\ Agrees(r, o, D) /\ r[o + Len(D) + 1] \notin Digit
        /\ o + Len(D) <= Len(r)
    BY <2>0, <2>1, <2>3, <2>4, <2>5
  <2> HIDE DEF len, o
  <2>7. Value(r, o + 1) = len  BY <2>5, <2>6, DigitsRead
  <2>8. Value(r, 2 + 1) = Len(c)  BY <2>7 DEF len, o
  <2> QED  BY <2>0, <2>8
<1>15. Len(b) = Len(c) <=> r = a
  <2>1. ASSUME Len(b) = Len(c) PROVE r = a
    <3>1. Len(r) = Len(a)  BY <1>2, <1>7, <1>8, <1>10, <1>13, <2>1
    <3>2. \A i \in 1 .. Len(r) : r[i] = a[i]  BY <1>8, <1>9
    <3> QED  BY <1>7, <1>8, <3>1, <3>2, SeqEqual
  <2>2. ASSUME r = a PROVE Len(b) = Len(c)
    <3>1. n = Len(a)  BY <1>8, <2>2
    <3> QED  BY <1>2, <1>7, <1>13, <3>1
  <2> QED  BY <2>1, <2>2
<1>16. Len(b) \in Nat /\ Len(b) <= Len(c)  BY <1>2, <1>7, <1>10, <1>11, <1>13
<1>17. \A i \in 1 .. Len(b) : b[i] = c[i]  BY <1>13
<1> QED  BY <1>2, <1>13, <1>14, <1>15, <1>16, <1>17 DEF a, b, c

\* What a client makes of as much of an answer as it received.
Received(E, r) == \E n \in 0 .. Len(CString(HttpAnswer(E))) : r = SubSeq(CString(HttpAnswer(E)), 1, n)

Understood(E, v, r) ==
  /\ \/ Threw(decode(BodyOf(r)))
     \/ decode(BodyOf(r)).value = v /\ decode(BodyOf(r)).begin = Len(BodyOf(r)) + 1
  /\ r = CString(HttpAnswer(E)) /\ NulFree(E) =>
       ~Threw(decode(BodyOf(r))) /\ decode(BodyOf(r)).value = v
  /\ Len(BodyOf(r)) = Value(r, 3) <=> r = CString(HttpAnswer(E))

\* A client that has received the header understands the body, or knows that it is cut.
LEMMA AnswerRead ==
  ASSUME NEW E, NEW v, NEW r, Reads(E, v), Received(E, r), First(r, "\r\n\r\n") > 0
  PROVE  Understood(E, v, r)
<1> DEFINE c == CString(E)
           b == BodyOf(r)
           a == CString(HttpAnswer(E))
<1>1. E \in Seq(Token) /\ Len(E) \in Nat  BY DEF Reads
<1>2. /\ b \in Seq(Token) /\ Len(b) \in Nat /\ Len(c) \in Nat /\ Len(b) <= Len(c)
      /\ \A i \in 1 .. Len(b) : b[i] = c[i]
      /\ Value(r, 3) = Len(c)
      /\ Len(b) = Len(c) <=> r = a
  <2>1. PICK n \in 0 .. Len(CString(HttpAnswer(E))) : r = SubSeq(CString(HttpAnswer(E)), 1, n)
    BY DEF Received
  <2> QED  BY <1>1, <2>1, BodyCame
<1>3. /\ Len(c) <= Len(E)
      /\ \A i \in 1 .. Len(c) : c[i] = E[i]
      /\ NulFree(E) => c = E
  BY <1>1, CStringOf
<1> HIDE DEF a, b, c
<1>4. decode(b) = IF Len(E) <= Len(b) THEN Decoded(v, Len(E) + 1) ELSE Invalid
  <2> DEFINE o == 0
  <2>1. \A i \in 1 .. Len(E) : o + i <= Len(b) => b[o + i] = E[i]
    <3>1. ASSUME NEW i \in 1 .. Len(E), o + i <= Len(b) PROVE b[o + i] = E[i]
      <4>1. o + i = i /\ i \in 1 .. Len(b) /\ i \in 1 .. Len(c)  BY <1>1, <1>2, <3>1
      <4>2. b[i] = c[i] /\ c[i] = E[i]  BY <1>2, <1>3, <4>1
      <4> QED  BY <4>1, <4>2
    <3> QED  BY <3>1
  <2>2. o \in Nat /\ o <= Len(b) /\ o + 1 = 1 /\ o + Len(E) = Len(E)  BY <1>1, <1>2
  <2> HIDE DEF o
  <2>3. Agrees(b, o, E)  BY <2>1 DEF Agrees
  <2>4. decode_data(b, Loops(b), o + 1) =
          IF o + Len(E) <= Len(b) THEN Decoded(v, o + Len(E) + 1) ELSE Invalid
    BY <1>2, <2>2, <2>3 DEF Reads
  <2> QED  BY <2>2, <2>4 DEF decode
<1>5. CASE Len(E) <= Len(b)
  <2>1. Len(E) = Len(b)  BY <1>1, <1>2, <1>3, <1>5
  <2>2. decode(b) = Decoded(v, Len(b) + 1)  BY <1>4, <1>5, <2>1
  <2>3. decode(b).value = v /\ decode(b).begin = Len(b) + 1  BY <2>2 DEF Decoded
  <2>4. ~Threw(decode(b))  BY <1>2, <2>3 DEF Threw
  <2> QED  BY <1>2, <2>3, <2>4 DEF a, b, Understood
<1>6. CASE ~ (Len(E) <= Len(b))
  <2>1. Threw(decode(b))  BY <1>4, <1>6 DEF Invalid, Threw
  <2>2. ~ (r = a /\ NulFree(E))
    <3> SUFFICES ASSUME r = a, NulFree(E) PROVE FALSE
      OBVIOUS
    <3>1. Len(b) = Len(E)  BY <1>2, <1>3
    <3> QED  BY <1>1, <1>6, <3>1
  <2> QED  BY <1>2, <2>1, <2>2 DEF a, b, Understood
<1> QED  BY <1>5, <1>6

----------------------------------------------------------------------------
\* What is true in every state: what has been fetched, and what is made of it.
Said == IF infoHash THEN TorrentData(torrent) ELSE ErrorData(message)

FetchInv ==
  /\ infoHash \in BOOLEAN /\ message \in Text /\ result \in Seq(Row)
  /\ torrent \in [trackerId : Int, interval : Int, seeders : Int, leechers : Int, peers : Seq(Row)]
  /\ Len(torrent.peers) <= Len(result)
  /\ torrent.peers = SubSeq(result, 1, Len(torrent.peers))

SayInv ==
  /\ pc \in {"getTorrentData", "getPeers", "buildDictionary"} => infoHash
  /\ pc = "buildErrorDict" => ~infoHash
  /\ pc \in {"write", "closed"} => answer = HttpAnswer(encode(Said))
  /\ pc = "closed" => \E n \in 0 .. Len(CString(answer)) : received = SubSeq(CString(answer), 1, n)

AnswerInv == FetchInv /\ SayInv

\* It holds in the beginning.
LEMMA AnswerInit == Init => AnswerInv
<1> SUFFICES ASSUME Init PROVE AnswerInv
  OBVIOUS
<1>1. infoHash \in BOOLEAN /\ pc = IF infoHash THEN "getTorrentData" ELSE "buildErrorDict"
  BY DEF Init
<1>2. message \in Text  BY TokenAssumption DEF Init
<1>3. result \in Seq(Row)
  <2>1. result \in BoundedSeq(Row, MaxRows)  BY DEF Init
  <2>2. \A m \in 0 .. MaxRows : m \in Nat  BY RowAssumption
  <2>3. PICK m \in 0 .. MaxRows : result \in [1 .. m -> Row]  BY <2>1 DEF BoundedSeq, SeqOf
  <2>4. m \in Nat  BY <2>2
  <2> QED  BY <2>3, <2>4, SeqDef
<1>4. /\ torrent.peers = << >>
      /\ torrent \in [trackerId : Int, interval : Int, seeders : Int, leechers : Int, peers : Seq(Row)]
  <2>1. << >> \in Seq(Row)  BY EmptySeq
  <2> QED  BY <2>1 DEF Init
<1>5. Len(torrent.peers) = 0 /\ Len(result) \in Nat  BY <1>3, <1>4
<1>6. SubSeq(result, 1, 0) = << >>  BY SubSeqEmpty
<1>7. FetchInv  BY <1>1, <1>2, <1>3, <1>4, <1>5, <1>6 DEF FetchInv
<1>8. SayInv  BY <1>1 DEF SayInv
<1> QED  BY <1>7, <1>8 DEF AnswerInv

\* A row fetched is the next of the result.
LEMMA FetchPeerStep ==
  ASSUME FetchInv, FetchPeer
  PROVE  FetchInv'
<1> DEFINE p == torrent.peers
           m == Len(p)
           q == Append(p, result[m + 1])
<1>1. p \in Seq(Row) /\ result \in Seq(Row) /\ m < Len(result) /\ p = SubSeq(result, 1, m)
      /\ m \in Nat /\ Len(result) \in Nat
  BY DEF FetchInv, FetchPeer
<1>2. torrent' = [torrent EXCEPT !.peers = q]  BY DEF FetchPeer
<1>3. /\ torrent'.trackerId = torrent.trackerId /\ torrent'.interval = torrent.interval
      /\ torrent'.seeders = torrent.seeders /\ torrent'.leechers = torrent.leechers
      /\ torrent'.peers = q
  BY <1>2 DEF FetchInv
<1> HIDE DEF p
<1>4. m + 1 \in 1 .. Len(result) /\ result[m + 1] \in Row
  <2>1. m + 1 \in 1 .. Len(result)  BY <1>1
  <2> QED  BY <1>1, <2>1, ElementOfSeq
<1>5. q \in Seq(Row) /\ Len(q) = m + 1  BY <1>1, <1>4, AppendProperties
<1>6. q = SubSeq(result, 1, m + 1)
  <2> HIDE DEF m
  <2>1. 1 \in Nat \ {0} /\ 1 - 1 <= m /\ m \in Nat  BY <1>1
  <2>2. Append(SubSeq(result, 1, m), result[m + 1]) = SubSeq(result, 1, m + 1)
    BY <1>1, <2>1, SubSeqGrows
  <2> QED  BY <1>1, <2>2
<1>7. torrent' \in [trackerId : Int, interval : Int, seeders : Int, leechers : Int, peers : Seq(Row)]
  <2> HIDE DEF q
  <2> QED  BY <1>2, <1>5 DEF FetchInv
<1>8. Len(q) <= Len(result) /\ q = SubSeq(result, 1, Len(q))
  <2>1. m + 1 <= Len(result)  BY <1>1
  <2> HIDE DEF q
  <2> QED  BY <1>5, <1>6, <2>1
<1>9. infoHash' = infoHash /\ message' = message /\ result' = result  BY DEF FetchPeer
<1>10. Len(torrent'.peers) <= Len(result') /\ torrent'.peers = SubSeq(result', 1, Len(torrent'.peers))
  <2> HIDE DEF q
  <2> QED  BY <1>3, <1>8, <1>9
<1> QED  BY <1>7, <1>9, <1>10 DEF FetchInv

\* Each action keeps it.
LEMMA AnswerStep == AnswerInv /\ [Next]_vars => AnswerInv'
<1> SUFFICES ASSUME AnswerInv, [Next]_vars PROVE AnswerInv'
  OBVIOUS
<1>0. FetchInv /\ SayInv  BY DEF AnswerInv
<1>1. CASE GetTorrentData
  <2>1. PICK seeders \in Count, leechers \in Count :
          torrent' = [torrent EXCEPT !.seeders = seeders, !.leechers = leechers]
    BY <1>1 DEF GetTorrentData
  <2>2. seeders \in Int /\ leechers \in Int  BY RowAssumption
  <2>3. /\ torrent'.peers = torrent.peers
        /\ torrent' \in [trackerId : Int, interval : Int, seeders : Int, leechers : Int, peers : Seq(Row)]
    BY <1>0, <2>1, <2>2 DEF FetchInv
  <2>4. infoHash' = infoHash /\ message' = message /\ result' = result  BY <1>1 DEF GetTorrentData
  <2>5. FetchInv'  BY <1>0, <2>3, <2>4 DEF FetchInv
  <2>6. SayInv'  BY <1>0, <1>1 DEF SayInv, GetTorrentData
  <2> QED  BY <2>5, <2>6 DEF AnswerInv
<1>2. CASE FetchPeer
  <2>1. FetchInv'  BY <1>0, <1>2, FetchPeerStep
  <2>2. pc' = "getPeers" /\ infoHash' = infoHash /\ infoHash  BY <1>0, <1>2 DEF SayInv, FetchPeer
  <2>3. SayInv'  BY <2>2 DEF SayInv
  <2> QED  BY <2>1, <2>3 DEF AnswerInv
<1>3. CASE ReturnPeers
  <2>1. FetchInv'  BY <1>0, <1>3 DEF FetchInv, ReturnPeers
  <2>2. SayInv'  BY <1>0, <1>3 DEF SayInv, ReturnPeers
  <2> QED  BY <2>1, <2>2 DEF AnswerInv
<1>4. CASE BuildDictionary
  <2>1. FetchInv'  BY <1>0, <1>4 DEF FetchInv, BuildDictionary
  <2>2. /\ pc' = "write" /\ infoHash' = infoHash /\ torrent' = torrent
        /\ answer' = HttpAnswer(encode(TorrentData(torrent))) /\ infoHash
    BY <1>0, <1>4 DEF SayInv, BuildDictionary
  <2>3. answer' = HttpAnswer(encode(Said))'  BY <2>2 DEF Said
  <2>4. SayInv'  BY <2>2, <2>3 DEF SayInv
  <2> QED  BY <2>1, <2>4 DEF AnswerInv
<1>5. CASE BuildErrorDict
  <2>1. FetchInv'  BY <1>0, <1>5 DEF FetchInv, BuildErrorDict
  <2>2. /\ pc' = "write" /\ infoHash' = infoHash /\ message' = message
        /\ answer' = HttpAnswer(encode(ErrorData(message))) /\ ~infoHash
    BY <1>0, <1>5 DEF SayInv, BuildErrorDict
  <2>3. answer' = HttpAnswer(encode(Said))'  BY <2>2 DEF Said
  <2>4. SayInv'  BY <2>2, <2>3 DEF SayInv
  <2> QED  BY <2>1, <2>4 DEF AnswerInv
<1>6. ASSUME NEW n \in 0 .. Len(CString(answer)), Write(n) PROVE AnswerInv'
  <2>1. FetchInv'  BY <1>0, <1>6 DEF FetchInv, Write
  <2>2. /\ pc = "write" /\ pc' = "closed" /\ infoHash' = infoHash /\ torrent' = torrent
        /\ message' = message /\ answer' = answer
        /\ received' = SubSeq(CString(answer), 1, n)
    BY <1>6 DEF Write
  <2>3. Said' = Said  BY <2>2 DEF Said
  <2>4. answer' = HttpAnswer(encode(Said'))  BY <1>0, <2>2, <2>3 DEF SayInv
  <2>5. \E i \in 0 .. Len(CString(answer')) : received' = SubSeq(CString(answer'), 1, i)  BY <2>2
  <2>6. SayInv'  BY <2>2, <2>4, <2>5 DEF SayInv
  <2> QED  BY <2>1, <2>6 DEF AnswerInv
<1>7. CASE UNCHANGED vars
  <2>1. FetchInv'  BY <1>0, <1>7 DEF FetchInv, vars
  <2>2. SayInv'  BY <1>0, <1>7 DEF SayInv, Said, vars
  <2> QED  BY <2>1, <2>2 DEF AnswerInv
<1> QED  BY <1>1, <1>2, <1>3, <1>4, <1>5, <1>6, <1>7 DEF Next, Closed

\* So it holds always.
LEMMA AnswerAlways == Spec => []AnswerInv
BY AnswerInit, AnswerStep, PTL DEF Spec

\* What was fetched are the first rows of the result: what is said is what is meant.
LEMMA SaidIsMeant ==
  ASSUME FetchInv
  PROVE  /\ Meant = Said /\ Reads(encode(Meant), Meant)
         /\ (\A s \in Texts : Nul \notin ToSet(s)) => NulFree(encode(Meant))
<1>1. \A s \in Text : Nul \notin ToSet(s) => NulFree(s)  BY DEF ToSet, Text, NulFree
<1>2. CASE ~infoHash
  <2>1. Meant = ErrorData(message) /\ Said = ErrorData(message)  BY <1>2 DEF Meant, Said
  <2>2. message \in Text  BY DEF FetchInv
  <2>3. Reads(encode(Meant), Meant)  BY <2>1, <2>2, ErrorReads
  <2>4. ASSUME \A s \in Texts : Nul \notin ToSet(s) PROVE NulFree(encode(Meant))
    <3>1. message \in Texts  BY <1>2 DEF Texts
    <3>2. NulFree(message)  BY <1>1, <2>2, <2>4, <3>1
    <3> QED  BY <2>1, <2>2, <3>2, ErrorNulFree
  <2> QED  BY <2>1, <2>3, <2>4
<1>3. CASE infoHash
  <2> DEFINE p == torrent.peers
             m == Len(p)
  <2>1. /\ p \in Seq(Row) /\ result \in Seq(Row) /\ m <= Len(result) /\ p = SubSeq(result, 1, m)
        /\ m \in Nat /\ Len(result) \in Nat
    BY DEF FetchInv
  <2>2. [torrent EXCEPT !.peers = p] = torrent  BY DEF FetchInv
  <2>3. Meant = TorrentData(torrent) /\ Said = TorrentData(torrent)
    BY <1>3, <2>1, <2>2 DEF Meant, Said
  <2>4. TorrentRecord(torrent)  BY DEF FetchInv, TorrentRecord
  <2>5. Reads(encode(Meant), Meant)  BY <2>3, <2>4, TorrentReads
  <2>6. ASSUME \A s \in Texts : Nul \notin ToSet(s) PROVE NulFree(encode(Meant))
    <3>1. ASSUME NEW n \in 1 .. m PROVE TextsNulFree(p[n])
      <4>1. m \in 0 .. Len(result) /\ n \in 1 .. Len(result)  BY <2>1
      <4> HIDE DEF m, p
      <4>2. SubSeq(result, 1, m)[n] = result[n]  BY <2>1, <4>1, FrontIs
      <4>3. p[n] = result[n]  BY <2>1, <4>2
      <4>4. n \in DOMAIN result /\ result[n] \in Row  BY <2>1, <4>1, ElementOfSeq
      <4>5. result[n].peerId \in Texts /\ result[n].ipa \in Texts  BY <1>3, <4>4 DEF Texts
      <4>6. result[n].peerId \in Text /\ result[n].ipa \in Text  BY <4>4, RowAssumption
      <4>7. NulFree(result[n].peerId) /\ NulFree(result[n].ipa)  BY <1>1, <2>6, <4>5, <4>6
      <4> QED  BY <4>3, <4>7 DEF TextsNulFree
    <3> QED  BY <2>3, <2>4, <3>1, TorrentNulFree
  <2> QED  BY <2>3, <2>5, <2>6
<1> QED  BY <1>2, <1>3 DEF FetchInv

\* What a client has received, once the header came.
LEMMA AnswerCame ==
  ASSUME AnswerInv, HeaderCame
  PROVE  /\ answer = HttpAnswer(encode(Meant))
         /\ \E n \in 0 .. Len(CString(answer)) : received = SubSeq(CString(answer), 1, n)
         /\ First(received, "\r\n\r\n") > 0 /\ Body = BodyOf(received) /\ ContentLength = Value(received, 3)
<1>1. pc = "closed" /\ FetchInv /\ SayInv  BY DEF HeaderCame, AnswerInv
<1>2. Meant = Said  BY <1>1, SaidIsMeant
<1>3. answer = HttpAnswer(encode(Said))  BY <1>1 DEF SayInv
<1>4. \E n \in 0 .. Len(CString(answer)) : received = SubSeq(CString(answer), 1, n)
  BY <1>1 DEF SayInv
<1>5. First(received, "\r\n\r\n") > 0 /\ Body = BodyOf(received) /\ ContentLength = Value(received, 3)
  BY DEF HeaderCame, HeaderEnd, Body, BodyOf, ContentLength
<1> QED  BY <1>2, <1>3, <1>4, <1>5

\* The three properties follow.
LEMMA AnswerMeans == AnswerInv => NeverMisread /\ WholeAnswerRead /\ LengthTells
<1> SUFFICES ASSUME AnswerInv, HeaderCame
             PROVE  /\ \/ Threw(decode(Body))
                       \/ decode(Body).value = Meant /\ decode(Body).begin = Len(Body) + 1
                    /\ received = CString(answer) /\ (\A s \in Texts : Nul \notin ToSet(s)) =>
                         ~Threw(decode(Body)) /\ decode(Body).value = Meant
                    /\ Len(Body) = ContentLength <=> received = CString(answer)
  BY DEF NeverMisread, WholeAnswerRead, LengthTells
<1> DEFINE E == encode(Meant)
           v == Meant
           r == received
<1>1. Reads(E, v) /\ ((\A s \in Texts : Nul \notin ToSet(s)) => NulFree(E))
  BY SaidIsMeant DEF AnswerInv
<1>2. answer = HttpAnswer(E)  BY AnswerCame
<1>3. \E n \in 0 .. Len(CString(answer)) : r = SubSeq(CString(answer), 1, n)  BY AnswerCame
<1>4. First(r, "\r\n\r\n") > 0 /\ Body = BodyOf(r) /\ ContentLength = Value(r, 3)  BY AnswerCame
<1> HIDE DEF E, v, r
<1>5. Received(E, r)  BY <1>2, <1>3 DEF Received
<1>6. Understood(E, v, r)  BY <1>1, <1>4, <1>5, AnswerRead
<1> QED  BY <1>1, <1>2, <1>4, <1>6, Zenon DEF v, r, Understood

\* Whatever the peer ids hold, wherever the answer is cut off and whichever row of
\* getPeers raised an exception, a client's decode of the body makes of it what the
\* tracker meant, or throws.
THEOREM MisreadNever == Spec => []NeverMisread
BY AnswerAlways, AnswerMeans, PTL

\* A client that received all that handle_client wrote decodes it to what the tracker
\* meant, unless a text in the answer has a character 0.
THEOREM WholeRead == Spec => []WholeAnswerRead
BY AnswerAlways, AnswerMeans, PTL

\* The Content-length of the header, by which a client knows whether it has the whole
\* answer, is the length of what strlen left of the body.
THEOREM LengthTrue == Spec => []LengthTells
BY AnswerAlways, AnswerMeans, PTL

=============================================================================
