---------------------------- MODULE ClientMockProofs ----------------------------
(***************************************************************************)
(* What ClientMock hands to the test, for every number of lines, commands  *)
(* and calls: its order, the answers a synchronized call captures, and the *)
(* channel it implements.                                                  *)
(***************************************************************************)
EXTENDS DisconnectionProofs, BoundedInduction

-----------------------------------------------------------------------------
(* Sequences. *)

LEMMA ConcatRegroup ==
    ASSUME NEW s \in Seq(Message), NEW t \in Seq(Message), NEW u \in Seq(Message)
    PROVE  (s \o t) \o u = s \o (t \o u)
BY ConcatAssociative

LEMMA AppendToConcat ==
    ASSUME NEW s \in Seq(Message), NEW t \in Seq(Message), NEW m \in Message
    PROVE  Append(s \o t, m) = s \o Append(t, m)
<1>1. s \o t \in Seq(Message)  BY ConcatProperties
<1>2. Append(s \o t, m) = (s \o t) \o <<m>> /\ Append(t, m) = t \o <<m>>
  BY <1>1, AppendIsConcat
<1>3. <<m>> \in Seq(Message)  OBVIOUS
<1> QED  BY <1>2, <1>3, ConcatAssociative

\* A part of a sequence, and the element that follows it.
LEMMA GrownByOne ==
    ASSUME NEW S, NEW s \in Seq(S), NEW m \in Nat \ {0}, NEW k \in Nat,
           m <= k + 1, k + 1 <= Len(s)
    PROVE  Append(SubSeq(s, m, k), s[k + 1]) = SubSeq(s, m, k + 1)
<1>1. Len(s) \in Nat /\ \A i \in 1..Len(s) : s[i] \in S  BY LenProperties, ElementOfSeq
<1>2. k + 1 \in 1..Len(s) /\ \A i \in m..(k + 1) : s[i] \in S  BY <1>1
<1>3. CASE m = k + 1
  <2>1. SubSeq(s, m, k) = <<>>  BY <1>3, SubSeqEmpty
  <2>2. /\ SubSeq(s, m, k + 1) \in Seq(S) /\ Len(SubSeq(s, m, k + 1)) = 1
        /\ SubSeq(s, m, k + 1)[1] = s[k + 1]
    BY <1>2, <1>3, SubSeqProperties
  <2>3. /\ Append(<<>>, s[k + 1]) \in Seq(S) /\ Len(Append(<<>>, s[k + 1])) = 1
        /\ Append(<<>>, s[k + 1])[1] = s[k + 1]
    BY <1>2
  <2> QED  BY <2>1, <2>2, <2>3, SeqEqual
<1>4. CASE m < k + 1
  <2>1. m \in 1..Len(s) /\ k + 1 \in m..Len(s) /\ (k + 1) - 1 = k  BY <1>1, <1>4
  <2>2. SubSeq(s, m, k + 1) = SubSeq(s, m, k) \o <<s[k + 1]>>
    BY <2>1, SubSeqRecursiveSecond
  <2>3. SubSeq(s, m, k) \in Seq(S)
    <3>1. \A i \in m..k : s[i] \in S  BY <1>2
    <3> QED  BY <3>1, SubSeqProperties
  <2> QED  BY <2>2, <2>3, <1>2, AppendIsConcat
<1> QED  BY <1>3, <1>4

-----------------------------------------------------------------------------
(* The order of lines: sequences with increasing ids, and sets of ids. *)

Increasing(s) == \A i, j \in 1..Len(s) : i < j => s[i].id < s[j].id

Precede(A, B) == \A a \in A, b \in B : a < b

LEMMA IdsOf ==
    ASSUME NEW s \in Seq(Message)
    PROVE  /\ Ids(s) \subseteq Nat
           /\ \A i \in 1..Len(s) : s[i].id \in Ids(s)
<1>1. \A i \in 1..Len(s) : s[i] \in Message  BY ElementOfSeq
<1> QED  BY <1>1 DEF Ids, Message

LEMMA NoIds == Ids(<<>>) = {} /\ Increasing(<<>>)
BY DEF Ids, Increasing

LEMMA OrderOfConcat ==
    ASSUME NEW s \in Seq(Message), NEW t \in Seq(Message)
    PROVE  /\ s \o t \in Seq(Message)
           /\ Ids(s \o t) = Ids(s) \cup Ids(t)
           /\ Increasing(s) /\ Increasing(t) /\ Precede(Ids(s), Ids(t))
              => Increasing(s \o t)
<1> DEFINE c == s \o t
<1>1. Len(s) \in Nat /\ Len(t) \in Nat  BY LenProperties
<1>2. /\ c \in Seq(Message) /\ Len(c) = Len(s) + Len(t)
      /\ \A i \in 1..(Len(s) + Len(t)) : c[i] = IF i <= Len(s) THEN s[i] ELSE t[i - Len(s)]
  BY ConcatProperties
<1> HIDE DEF c
<1>3. \A i \in 1..Len(s) : i \in 1..Len(c) /\ c[i] = s[i]  BY <1>1, <1>2
<1>4. \A i \in 1..Len(t) : Len(s) + i \in 1..Len(c) /\ c[Len(s) + i] = t[i]
  <2> SUFFICES ASSUME NEW i \in 1..Len(t)
               PROVE  Len(s) + i \in 1..Len(c) /\ c[Len(s) + i] = t[i]
    OBVIOUS
  <2>1. Len(s) + i \in 1..(Len(s) + Len(t)) /\ ~(Len(s) + i <= Len(s))
        /\ (Len(s) + i) - Len(s) = i
    BY <1>1
  <2> QED  BY <2>1, <1>2
<1>5. \A i \in 1..Len(c) : \/ i \in 1..Len(s) /\ c[i] = s[i]
                           \/ /\ i > Len(s) /\ i - Len(s) \in 1..Len(t)
                              /\ c[i] = t[i - Len(s)]
  BY <1>1, <1>2
<1>6. Ids(c) = Ids(s) \cup Ids(t)
  <2>1. ASSUME NEW x \in Ids(c) PROVE x \in Ids(s) \cup Ids(t)
    <3> PICK i \in 1..Len(c) : x = c[i].id  BY DEF Ids
    <3> QED  BY <1>5, IdsOf
  <2>2. ASSUME NEW x \in Ids(s) PROVE x \in Ids(c)
    <3> PICK i \in 1..Len(s) : x = s[i].id  BY DEF Ids
    <3> QED  BY <1>2, <1>3, IdsOf
  <2>3. ASSUME NEW x \in Ids(t) PROVE x \in Ids(c)
    <3> PICK i \in 1..Len(t) : x = t[i].id  BY DEF Ids
    <3> QED  BY <1>2, <1>4, IdsOf
  <2> QED  BY <2>1, <2>2, <2>3
<1>7. ASSUME Increasing(s), Increasing(t), Precede(Ids(s), Ids(t)) PROVE Increasing(c)
  <2> SUFFICES ASSUME NEW i \in 1..Len(c), NEW j \in 1..Len(c), i < j
               PROVE  c[i].id < c[j].id
    BY DEF Increasing
  <2>1. CASE i \in 1..Len(s) /\ j \in 1..Len(s)
    BY <2>1, <1>3, <1>7 DEF Increasing
  <2>2. CASE i \in 1..Len(s) /\ j > Len(s)
    <3>1. c[i].id \in Ids(s)  BY <2>2, <1>3, IdsOf
    <3>2. c[j].id \in Ids(t)  BY <2>2, <1>5, IdsOf
    <3> QED  BY <3>1, <3>2, <1>7 DEF Precede
  <2>3. CASE i > Len(s) /\ j > Len(s)
    <3>1. /\ i - Len(s) \in 1..Len(t) /\ j - Len(s) \in 1..Len(t)
          /\ c[i] = t[i - Len(s)] /\ c[j] = t[j - Len(s)]
      BY <2>3, <1>5
    <3>2. i - Len(s) < j - Len(s)  BY <1>1, <1>2
    <3> QED  BY <3>1, <3>2, <1>7 DEF Increasing
  <2> QED  BY <2>1, <2>2, <2>3, <1>1, <1>2
<1> QED  BY <1>2, <1>6, <1>7 DEF c

LEMMA OrderOfAppend ==
    ASSUME NEW s \in Seq(Message), NEW m \in Message
    PROVE  /\ Append(s, m) \in Seq(Message)
           /\ Ids(Append(s, m)) = Ids(s) \cup {m.id}
           /\ Increasing(s) /\ Precede(Ids(s), {m.id}) => Increasing(Append(s, m))
<1>1. /\ Append(s, m) \in Seq(Message)
      /\ Len(Append(s, m)) = Len(s) + 1
      /\ \A i \in 1..Len(s) : Append(s, m)[i] = s[i]
      /\ Append(s, m)[Len(s) + 1] = m
  BY AppendProperties
<1>2. Len(s) \in Nat  BY LenProperties
<1>3. Ids(Append(s, m)) = Ids(s) \cup {m.id}  BY <1>1, <1>2 DEF Ids
<1>4. ASSUME Increasing(s), Precede(Ids(s), {m.id}) PROVE Increasing(Append(s, m))
  BY <1>1, <1>2, <1>4, IdsOf DEF Increasing, Precede
<1> QED  BY <1>1, <1>3, <1>4

\* Cutting a sequence: what recv() returns of the socket, and what it leaves.
LEMMA OrderOfCut ==
    ASSUME NEW s \in Seq(Message), NEW n \in 0..Len(s)
    PROVE  LET front == SubSeq(s, 1, n)
               rest == SubSeq(s, n + 1, Len(s))
           IN  /\ front \in Seq(Message) /\ rest \in Seq(Message)
               /\ front \o rest = s
               /\ Ids(s) = Ids(front) \cup Ids(rest)
               /\ Increasing(s) => /\ Increasing(front) /\ Increasing(rest)
                                   /\ Precede(Ids(front), Ids(rest))
<1> DEFINE front == SubSeq(s, 1, n)
           rest == SubSeq(s, n + 1, Len(s))
<1>1. Len(s) \in Nat /\ n \in Nat /\ n <= Len(s)  BY LenProperties
<1>2. front \in Seq(Message) /\ Len(front) = n /\ \A i \in 1..n : front[i] = s[i]
  BY StartOf
<1>3. /\ rest \in Seq(Message) /\ Len(rest) = Len(s) - n
      /\ \A i \in 1..(Len(s) - n) : rest[i] = s[n + i]
  BY RestOf
<1> HIDE DEF front, rest
<1>4. front \o rest = s
  <2>1. /\ front \o rest \in Seq(Message) /\ Len(front \o rest) = Len(s)
        /\ \A i \in 1..Len(s) :
              (front \o rest)[i] = IF i <= n THEN front[i] ELSE rest[i - n]
    BY <1>1, <1>2, <1>3, ConcatProperties
  <2>2. ASSUME NEW i \in 1..Len(s) PROVE (front \o rest)[i] = s[i]
    <3>1. CASE i <= n  BY <3>1, <2>1, <1>1, <1>2
    <3>2. CASE i > n
      <4>1. i - n \in 1..(Len(s) - n) /\ n + (i - n) = i /\ ~(i <= n)  BY <3>2, <1>1
      <4>2. (front \o rest)[i] = rest[i - n]  BY <4>1, <2>1
      <4>3. rest[i - n] = s[n + (i - n)]  BY <4>1, <1>3
      <4> QED  BY <4>1, <4>2, <4>3
    <3>3. i <= n \/ i > n  BY <1>1
    <3> QED  BY <3>1, <3>2, <3>3
  <2> QED  BY <2>1, <2>2, SeqEqual
<1>5. Ids(s) = Ids(front) \cup Ids(rest)  BY <1>2, <1>3, <1>4, OrderOfConcat
<1>6. ASSUME Increasing(s)
      PROVE  Increasing(front) /\ Increasing(rest) /\ Precede(Ids(front), Ids(rest))
  <2>1. Increasing(front)  BY <1>1, <1>2, <1>6 DEF Increasing
  <2>2. Increasing(rest)
    <3> SUFFICES ASSUME NEW i \in 1..Len(rest), NEW j \in 1..Len(rest), i < j
                 PROVE  rest[i].id < rest[j].id
      BY DEF Increasing
    <3>1. n + i \in 1..Len(s) /\ n + j \in 1..Len(s) /\ n + i < n + j  BY <1>1, <1>3
    <3> QED  BY <3>1, <1>3, <1>6 DEF Increasing
  <2>3. ASSUME NEW a \in Ids(front), NEW b \in Ids(rest) PROVE a < b
    <3> PICK i \in 1..n : a = s[i].id  BY <1>2 DEF Ids
    <3> PICK j \in 1..(Len(s) - n) : b = s[n + j].id  BY <1>3 DEF Ids
    <3>1. i \in 1..Len(s) /\ n + j \in 1..Len(s) /\ i < n + j  BY <1>1
    <3> QED  BY <3>1, <1>6 DEF Increasing
  <2> QED  BY <2>1, <2>2, <2>3 DEF Precede
<1> QED  BY <1>2, <1>3, <1>4, <1>5, <1>6 DEF front, rest

LEMMA OrderOfTail ==
    ASSUME NEW s \in Seq(Message), s # <<>>
    PROVE  /\ Head(s) \in Message /\ Tail(s) \in Seq(Message)
           /\ s = <<Head(s)>> \o Tail(s)
           /\ Ids(s) = {Head(s).id} \cup Ids(Tail(s))
           /\ Increasing(s) => /\ Increasing(Tail(s))
                               /\ Precede({Head(s).id}, Ids(Tail(s)))
<1>1. Len(s) \in Nat \ {0}  BY EmptySeq
<1>2. /\ Head(s) \in Message /\ Head(s) = s[1]
      /\ Tail(s) = SubSeq(s, 2, Len(s)) /\ 1 \in 1..Len(s)
  BY <1>1, HeadTailProperties, TailIsSubSeq
<1>3. <<s[1]>> \in Seq(Message) /\ Len(<<s[1]>>) = 1 /\ <<s[1]>>[1] = s[1]
  BY <1>2
<1>4. SubSeq(s, 1, 1) = <<s[1]>>
  <2>1. SubSeq(s, 1, 0) = <<>>  BY SubSeqEmpty
  <2>2. Append(SubSeq(s, 1, 0), s[0 + 1]) = SubSeq(s, 1, 0 + 1)  BY <1>1, GrownByOne
  <2>3. 0 + 1 = 1 /\ Append(<<>>, s[1]) = <<s[1]>>  OBVIOUS
  <2> QED  BY <2>1, <2>2, <2>3
<1>5. Ids(<<s[1]>>) = {s[1].id}  BY <1>3 DEF Ids
<1>6. /\ SubSeq(s, 2, Len(s)) \in Seq(Message)
      /\ <<s[1]>> \o SubSeq(s, 2, Len(s)) = s
      /\ Ids(s) = Ids(<<s[1]>>) \cup Ids(SubSeq(s, 2, Len(s)))
      /\ Increasing(s) => /\ Increasing(SubSeq(s, 2, Len(s)))
                          /\ Precede(Ids(<<s[1]>>), Ids(SubSeq(s, 2, Len(s))))
  <2> DEFINE n == 1
  <2>1. n \in 0..Len(s) /\ n + 1 = 2  BY <1>1
  <2> HIDE DEF n
  <2>2. /\ SubSeq(s, n + 1, Len(s)) \in Seq(Message)
        /\ SubSeq(s, 1, n) \o SubSeq(s, n + 1, Len(s)) = s
        /\ Ids(s) = Ids(SubSeq(s, 1, n)) \cup Ids(SubSeq(s, n + 1, Len(s)))
        /\ Increasing(s) => /\ Increasing(SubSeq(s, n + 1, Len(s)))
                            /\ Precede(Ids(SubSeq(s, 1, n)), Ids(SubSeq(s, n + 1, Len(s))))
    BY <2>1, OrderOfCut
  <2>3. n = 1  BY DEF n
  <2> QED  BY <2>1, <2>2, <2>3, <1>4
<1> QED  BY <1>2, <1>5, <1>6

-----------------------------------------------------------------------------
(* The loop over the lines of `data`. *)

\* What is in `messages` after the first k lines.
KeptUpTo(kept, lines, k) ==
    /\ kept[0] = <<>>
    /\ \A n \in 1..k :
          kept[n] = IF IsOwnPong(lines[n]) THEN kept[n - 1]
                    ELSE Append(kept[n - 1], lines[n])

LEMMA ParsedUnfolds ==
    ASSUME NEW lines \in Seq(Message)
    PROVE  \E kept : /\ KeptUpTo(kept, lines, Len(lines))
                     /\ Parsed(lines) = kept[Len(lines)]
<1> DEFINE Body(g, n) == IF n = 0 THEN <<>>
                         ELSE IF IsOwnPong(lines[n]) THEN g[n - 1]
                         ELSE Append(g[n - 1], lines[n])
           P == {k \in Nat : \E g : g = [n \in 0..k |-> Body(g, n)]}
           kept == CHOOSE g : g = [n \in 0..Len(lines) |-> Body(g, n)]
<1>1. Len(lines) \in Nat  BY LenProperties
<1>2. 0 \in P
  <2> DEFINE g == [n \in 0..0 |-> <<>>]
  <2>1. g = [n \in 0..0 |-> Body(g, n)]  OBVIOUS
  <2> QED  BY <2>1
<1>3. ASSUME NEW k \in Nat, k \in P PROVE k + 1 \in P
  <2> PICK g : g = [n \in 0..k |-> Body(g, n)]  BY <1>3
  <2> DEFINE h == [n \in 0..(k + 1) |-> IF n = k + 1 THEN Body(g, n) ELSE g[n]]
  <2>1. ASSUME NEW n \in 0..(k + 1) PROVE h[n] = Body(h, n)
    <3>1. n # 0 => n - 1 \in 0..k /\ h[n - 1] = g[n - 1]  OBVIOUS
    <3>2. Body(h, n) = Body(g, n)  BY <3>1
    <3>3. n \in 0..k => g[n] = Body(g, n)  OBVIOUS
    <3> QED  BY <3>2, <3>3
  <2> HIDE DEF Body
  <2>2. h = [n \in 0..(k + 1) |-> Body(h, n)]  BY <2>1
  <2>3. k + 1 \in Nat  OBVIOUS
  <2> HIDE DEF h
  <2> QED  BY <2>2, <2>3
<1>4. Len(lines) \in P
  <2> HIDE DEF P
  <2> QED  BY <1>1, <1>2, <1>3, SetInduction
<1>5. kept = [n \in 0..Len(lines) |-> Body(kept, n)]
  <2> HIDE DEF Body
  <2>1. \E g : g = [n \in 0..Len(lines) |-> Body(g, n)]  BY <1>4
  <2> QED  BY <2>1
<1>6. Parsed(lines) = kept[Len(lines)]  BY DEF Parsed
<1>7. KeptUpTo(kept, lines, Len(lines))
  <2> HIDE DEF kept, Body
  <2>1. \A n \in 0..Len(lines) : kept[n] = Body(kept, n)  BY <1>5
  <2>2. kept[0] = Body(kept, 0)  BY <1>1, <2>1
  <2>3. \A n \in 1..Len(lines) : n # 0 /\ kept[n] = Body(kept, n)  BY <1>1, <2>1
  <2> QED  BY <2>2, <2>3 DEF KeptUpTo, Body
<1> QED  BY <1>6, <1>7

\* Every line kept is one of the lines, and none overtakes another.
LEMMA OrderOfParsed ==
    ASSUME NEW lines \in Seq(Message)
    PROVE  /\ Parsed(lines) \in Seq(Message)
           /\ Ids(Parsed(lines)) \subseteq Ids(lines)
           /\ Increasing(lines) => Increasing(Parsed(lines))
<1> PICK kept : KeptUpTo(kept, lines, Len(lines)) /\ Parsed(lines) = kept[Len(lines)]
  BY ParsedUnfolds
<1> DEFINE Of(k) == {lines[i].id : i \in 1..k}
           P == {k \in Nat : k <= Len(lines) =>
                    /\ kept[k] \in Seq(Message)
                    /\ Ids(kept[k]) \subseteq Of(k)
                    /\ Increasing(lines) => Increasing(kept[k])}
<1>1. Len(lines) \in Nat /\ \A i \in 1..Len(lines) : lines[i] \in Message
  BY LenProperties, ElementOfSeq
<1>2. 0 \in P  BY EmptySeq, NoIds DEF KeptUpTo
<1>3. ASSUME NEW k \in Nat, k \in P PROVE k + 1 \in P
  <2> SUFFICES ASSUME k + 1 <= Len(lines)
               PROVE  /\ kept[k + 1] \in Seq(Message)
                      /\ Ids(kept[k + 1]) \subseteq Of(k + 1)
                      /\ Increasing(lines) => Increasing(kept[k + 1])
    OBVIOUS
  <2>1. k <= Len(lines) /\ k + 1 \in 1..Len(lines) /\ lines[k + 1] \in Message
    BY <1>1
  <2>2. /\ kept[k] \in Seq(Message) /\ Ids(kept[k]) \subseteq Of(k)
        /\ Increasing(lines) => Increasing(kept[k])
    BY <1>3, <2>1
  <2>3. kept[k + 1] = IF IsOwnPong(lines[k + 1]) THEN kept[k]
                      ELSE Append(kept[k], lines[k + 1])
    BY <2>1 DEF KeptUpTo
  <2>4. Of(k + 1) = Of(k) \cup {lines[k + 1].id}  OBVIOUS
  <2>5. Increasing(lines) => Precede(Of(k), {lines[k + 1].id})
    BY <2>1, <1>1 DEF Increasing, Precede
  <2> HIDE DEF Of
  <2>6. CASE IsOwnPong(lines[k + 1])  BY <2>2, <2>3, <2>4, <2>6
  <2>7. CASE ~IsOwnPong(lines[k + 1])
    <3>1. Increasing(lines) => Precede(Ids(kept[k]), {lines[k + 1].id})
      BY <2>2, <2>5 DEF Precede
    <3> QED  BY <3>1, <2>1, <2>2, <2>3, <2>4, <2>7, OrderOfAppend
  <2> QED  BY <2>6, <2>7
<1>4. Len(lines) \in P
  <2> HIDE DEF P
  <2> QED  BY <1>1, <1>2, <1>3, SetInduction
<1>5. Of(Len(lines)) = Ids(lines)  BY DEF Ids
<1> QED  BY <1>1, <1>4, <1>5

\* A chunk without an own PONG is kept as it is.
LEMMA ParsedWithoutPong ==
    ASSUME NEW lines \in Seq(Message), ~GotPong(lines)
    PROVE  Parsed(lines) = lines
<1> PICK kept : KeptUpTo(kept, lines, Len(lines)) /\ Parsed(lines) = kept[Len(lines)]
  BY ParsedUnfolds
<1> DEFINE P == {k \in Nat : k <= Len(lines) => kept[k] = SubSeq(lines, 1, k)}
<1>1. Len(lines) \in Nat  BY LenProperties
<1>2. 0 \in P
  <2>1. SubSeq(lines, 1, 0) = <<>>  BY SubSeqEmpty
  <2> QED  BY <2>1 DEF KeptUpTo
<1>3. ASSUME NEW k \in Nat, k \in P PROVE k + 1 \in P
  <2> SUFFICES ASSUME k + 1 <= Len(lines) PROVE kept[k + 1] = SubSeq(lines, 1, k + 1)
    OBVIOUS
  <2>1. k + 1 \in 1..Len(lines) /\ kept[k] = SubSeq(lines, 1, k)  BY <1>1, <1>3
  <2>2. kept[k + 1] = Append(SubSeq(lines, 1, k), lines[k + 1])
    <3>1. ~IsOwnPong(lines[k + 1])  BY <2>1 DEF GotPong
    <3>2. (k + 1) - 1 = k  OBVIOUS
    <3> QED  BY <2>1, <3>1, <3>2 DEF KeptUpTo
  <2> QED  BY <2>1, <2>2, <1>1, GrownByOne
<1>4. Len(lines) \in P
  <2> HIDE DEF P
  <2> QED  BY <1>1, <1>2, <1>3, SetInduction
<1> QED  BY <1>1, <1>4, SubSeqFull

\* The only own PONG of a chunk is cut out of it.
LEMMA ParsedWithPong ==
    ASSUME NEW lines \in Seq(Message), NEW i \in 1..Len(lines), IsOwnPong(lines[i]),
           \A j \in 1..Len(lines) : IsOwnPong(lines[j]) => j = i
    PROVE  Parsed(lines) = SubSeq(lines, 1, i - 1) \o SubSeq(lines, i + 1, Len(lines))
<1> PICK kept : KeptUpTo(kept, lines, Len(lines)) /\ Parsed(lines) = kept[Len(lines)]
  BY ParsedUnfolds
<1> DEFINE Before(k) == SubSeq(lines, 1, k)
           After(k) == SubSeq(lines, i + 1, k)
           P == {k \in Nat : k <= Len(lines) =>
                    /\ k < i => kept[k] = Before(k)
                    /\ k >= i => kept[k] = Before(i - 1) \o After(k)}
<1>1. Len(lines) \in Nat /\ i - 1 \in 0..Len(lines) /\ i \in Nat  BY LenProperties
<1>2. 0 \in P
  <2>1. SubSeq(lines, 1, 0) = <<>> /\ ~(0 >= i)  BY <1>1, SubSeqEmpty
  <2> QED  BY <2>1 DEF KeptUpTo
<1>3. ASSUME NEW k \in Nat, k \in P PROVE k + 1 \in P
  <2> SUFFICES ASSUME k + 1 <= Len(lines)
               PROVE  /\ k + 1 < i => kept[k + 1] = Before(k + 1)
                      /\ k + 1 >= i => kept[k + 1] = Before(i - 1) \o After(k + 1)
    OBVIOUS
  <2>1. /\ k + 1 \in 1..Len(lines)
        /\ k < i => kept[k] = Before(k)
        /\ k >= i => kept[k] = Before(i - 1) \o After(k)
    BY <1>1, <1>3
  <2>2. kept[k + 1] = IF IsOwnPong(lines[k + 1]) THEN kept[k]
                      ELSE Append(kept[k], lines[k + 1])
    <3>1. (k + 1) - 1 = k  OBVIOUS
    <3> QED  BY <2>1, <3>1 DEF KeptUpTo
  <2>3. CASE k + 1 < i
    <3>1. k + 1 # i /\ k < i /\ ~(k + 1 >= i)  BY <2>3, <1>1
    <3>2. kept[k + 1] = Append(Before(k), lines[k + 1])  BY <3>1, <2>1, <2>2
    <3> QED  BY <3>1, <3>2, <2>1, <1>1, GrownByOne
  <2>4. CASE k + 1 = i
    <3>1. ~(k + 1 < i) /\ k < i /\ k = i - 1  BY <2>4, <1>1
    <3>2. kept[k + 1] = Before(i - 1)  BY <2>1, <2>2, <2>4, <3>1
    <3>3. After(k + 1) = <<>>  BY <2>4, <1>1, SubSeqEmpty
    <3>4. Before(i - 1) \in Seq(Message)  BY <1>1, StartOf
    <3> HIDE DEF Before, After
    <3> QED  BY <3>1, <3>2, <3>3, <3>4, ConcatEmptySeq
  <2>5. CASE k + 1 > i
    <3>1. ~(k + 1 < i) /\ k >= i /\ k + 1 # i  BY <2>5, <1>1
    <3>2. kept[k + 1] = Append(Before(i - 1) \o After(k), lines[k + 1])
      BY <3>1, <2>1, <2>2
    <3>3. Append(After(k), lines[k + 1]) = After(k + 1)
      BY <3>1, <2>1, <1>1, GrownByOne
    <3>4. Before(i - 1) \in Seq(Message)  BY <1>1, StartOf
    <3>5. After(k) \in Seq(Message) /\ lines[k + 1] \in Message
      <4>1. \A j \in (i + 1)..k : lines[j] \in Message
        BY <1>1, <2>1, ElementOfSeq
      <4>2. After(k) \in Seq(Message)  BY <4>1, <1>1, SubSeqProperties
      <4> QED  BY <4>2, <2>1, ElementOfSeq
    <3> HIDE DEF Before, After
    <3>6. Append(Before(i - 1) \o After(k), lines[k + 1])
            = Before(i - 1) \o Append(After(k), lines[k + 1])
      <4> DEFINE b == Before(i - 1)
                 a == After(k)
                 m == lines[k + 1]
      <4>1. b \in Seq(Message) /\ a \in Seq(Message) /\ m \in Message  BY <3>4, <3>5
      <4> HIDE DEF a, b, m
      <4>2. Append(b \o a, m) = b \o Append(a, m)  BY <4>1, AppendToConcat
      <4> QED  BY <4>2 DEF a, b, m
    <3> QED  BY <3>1, <3>2, <3>3, <3>6
  <2> QED  BY <2>3, <2>4, <2>5, <1>1
<1>4. Len(lines) \in P
  <2> HIDE DEF P
  <2> QED  BY <1>1, <1>2, <1>3, SetInduction
<1>5. Len(lines) >= i /\ Len(lines) <= Len(lines)  BY <1>1
<1> QED  BY <1>4, <1>5

-----------------------------------------------------------------------------
(* Types and order. *)

\* inbuffer and `messages` take turns: the running call has what was buffered.
CallInv ==
    /\ call.at = "recv" => inbuffer = <<>>
    /\ call.at # "recv" => messages = <<>> /\ data = <<>>

\* The lines a test did not get yet, and how far each is.
OrderInv ==
    /\ /\ Increasing(delivered) /\ Increasing(inbuffer) /\ Increasing(messages)
       /\ Increasing(data) /\ Increasing(net)
    /\ Precede(Ids(delivered), Ids(inbuffer) \cup Ids(messages) \cup Ids(data) \cup Ids(net))
    /\ Precede(Ids(inbuffer) \cup Ids(messages), Ids(data) \cup Ids(net))
    /\ Precede(Ids(data), Ids(net))
    /\ Ids(delivered) \cup Ids(inbuffer) \cup Ids(messages) \cup Ids(data) \cup Ids(net)
          \subseteq 1..Len(sent)

MockInv == IInv /\ TypeOKRoutine /\ CallInv /\ OrderInv

LEMMA InitMockInv == InitRoutine => MockInv
<1> SUFFICES ASSUME InitRoutine PROVE MockInv  OBVIOUS
<1> USE DEF InitRoutine, Init, NoCall
<1>1. TypeOKRoutine
  <2>1. TypeOK  BY DEF TypeOK, Cuts
  <2>2. {closedBefore, endSeen} \subseteq BOOLEAN  OBVIOUS
  <2> QED  BY <2>1, <2>2 DEF TypeOKRoutine
<1>2. CallInv  BY DEF CallInv
<1>3. OrderInv
  <2>1. Precede({}, {})  BY DEF Precede
  <2> QED  BY <2>1, NoIds DEF OrderInv
<1> QED  BY <1>1, <1>2, <1>3, InitIInv DEF MockInv

\* A line the server writes comes after all others.
LEMMA WritesKeeps ==
    ASSUME TypeOK, CallInv, OrderInv, NEW kind, NEW token, Writes(kind, token),
           [kind |-> kind, id |-> Len(sent) + 1, token |-> token] \in Message,
           UNCHANGED clientVars
    PROVE  net' \in Seq(Message) /\ sent' \in Seq(Message) /\ CallInv' /\ OrderInv'
<1> DEFINE line == [kind |-> kind, id |-> Len(sent) + 1, token |-> token]
<1>1. line \in Message /\ line.id = Len(sent) + 1  OBVIOUS
<1>2. sent' = Append(sent, line) /\ net' = Append(net, line)  BY DEF Writes
<1>3. sent \in Seq(Message) /\ net \in Seq(Message)  BY DEF TypeOK
<1> HIDE DEF line
<1>4. Len(sent) \in Nat /\ sent' \in Seq(Message) /\ Len(sent') = Len(sent) + 1
  BY <1>1, <1>2, <1>3, LenProperties, AppendProperties
<1>5. /\ net' \in Seq(Message) /\ Ids(net') = Ids(net) \cup {Len(sent) + 1}
      /\ Increasing(net) /\ Precede(Ids(net), {Len(sent) + 1}) => Increasing(net')
  BY <1>1, <1>2, <1>3, OrderOfAppend
<1>6. CallInv'  BY DEF CallInv, clientVars
<1>7. OrderInv'
  <2> DEFINE All == Ids(delivered) \cup Ids(inbuffer) \cup Ids(messages) \cup Ids(data) \cup Ids(net)
  <2>1. All \subseteq 1..Len(sent)  BY DEF OrderInv
  <2>2. \A a \in All : a < Len(sent) + 1  BY <2>1, <1>4
  <2>3. UNCHANGED <<Ids(delivered), Ids(inbuffer), Ids(messages), Ids(data)>>
    BY DEF clientVars, Ids
  <2>4. Increasing(net')  BY <1>5, <2>2 DEF OrderInv, Precede
  <2>5. /\ Increasing(delivered)' /\ Increasing(inbuffer)' /\ Increasing(messages)'
        /\ Increasing(data)'
    BY DEF OrderInv, clientVars, Increasing
  <2>6. Precede(Ids(delivered), Ids(inbuffer) \cup Ids(messages) \cup Ids(data) \cup Ids(net))'
    BY <1>5, <2>2, <2>3 DEF OrderInv, Precede
  <2>7. Precede(Ids(inbuffer) \cup Ids(messages), Ids(data) \cup Ids(net))'
    BY <1>5, <2>2, <2>3 DEF OrderInv, Precede
  <2>8. Precede(Ids(data), Ids(net))'
    BY <1>5, <2>2, <2>3 DEF OrderInv, Precede
  <2>9. (Ids(delivered) \cup Ids(inbuffer) \cup Ids(messages) \cup Ids(data) \cup Ids(net))'
           \subseteq 1..Len(sent')
    BY <1>4, <1>5, <2>1, <2>3
  <2> QED  BY <2>4, <2>5, <2>6, <2>7, <2>8, <2>9 DEF OrderInv
<1> QED  BY <1>4, <1>5, <1>6, <1>7

\* A call that ends or goes on with what it parsed: `msgs` are some of the
\* lines it had, and those it leaves in the socket follow them.
LEMMA TakingKeeps ==
    ASSUME TypeOK, CallInv, OrderInv, call.at = "recv",
           NEW msgs \in Seq(Message), Increasing(msgs),
           Ids(msgs) \subseteq Ids(messages) \cup Ids(data) \cup Ids(net),
           net' \in Seq(Message), Increasing(net'), Ids(net') \subseteq Ids(net),
           Precede(Ids(msgs), Ids(net')), sent' = sent,
           \/ Returns(msgs)
           \/ /\ messages' = msgs /\ data' = <<>>
              /\ UNCHANGED <<inbuffer, call, result, delivered>>
    PROVE  /\ inbuffer' \in Seq(Message) /\ messages' \in Seq(Message)
           /\ data' \in Seq(Message) /\ delivered' \in Seq(Message)
           /\ CallInv' /\ OrderInv'
<1>1. inbuffer = <<>> /\ <<>> \in Seq(Message) /\ data' = <<>>
  BY DEF CallInv, Returns
<1>2. /\ delivered \in Seq(Message) /\ Increasing(delivered) /\ Increasing(<<>>)
      /\ Ids(<<>>) = {} /\ Ids(inbuffer) = {}
  BY <1>1, NoIds DEF TypeOK, OrderInv
<1>3. /\ Precede(Ids(delivered), Ids(msgs)) /\ Precede(Ids(delivered), Ids(net'))
      /\ Ids(delivered) \subseteq 1..Len(sent') /\ Ids(msgs) \subseteq 1..Len(sent')
      /\ Ids(net') \subseteq 1..Len(sent')
  BY DEF OrderInv, Precede
<1>4. CASE messages' = msgs /\ UNCHANGED <<inbuffer, call, delivered>>
  <2>1. CallInv'  BY <1>1, <1>4 DEF CallInv
  <2>2. OrderInv'
    BY <1>1, <1>2, <1>3, <1>4 DEF OrderInv, Precede
  <2> QED  BY <1>1, <1>2, <1>4, <2>1, <2>2
<1>5. CASE Returns(msgs) /\ call.single
  <2>1. /\ messages' = <<>> /\ inbuffer' = msgs /\ delivered' = delivered
        /\ call'.at = "filled"
    BY <1>5 DEF Returns, TypeOK
  <2>2. CallInv'  BY <1>1, <2>1 DEF CallInv
  <2>3. OrderInv'
    BY <1>1, <1>2, <1>3, <2>1 DEF OrderInv, Precede
  <2> QED  BY <1>1, <1>2, <2>1, <2>2, <2>3
<1>6. CASE Returns(msgs) /\ ~call.single
  <2>1. /\ messages' = <<>> /\ inbuffer' = <<>> /\ delivered' = delivered \o msgs
        /\ call'.at = "idle"
    BY <1>1, <1>6 DEF Returns, NoCall
  <2>2. /\ delivered' \in Seq(Message) /\ Increasing(delivered')
        /\ Ids(delivered') = Ids(delivered) \cup Ids(msgs)
    BY <1>2, <1>3, <2>1, OrderOfConcat
  <2>3. CallInv'  BY <1>1, <2>1 DEF CallInv
  <2>4. OrderInv'
    BY <1>1, <1>2, <1>3, <2>1, <2>2 DEF OrderInv, Precede
  <2> QED  BY <1>1, <2>1, <2>2, <2>3, <2>4
<1> QED  BY <1>4, <1>5, <1>6

LEMMA EnteringKeepsOrder ==
    ASSUME TypeOK, CallInv, OrderInv, call.at # "recv",
           NEW single, NEW sync, EntersReceiveLoop(single, sync),
           UNCHANGED <<data, delivered, net, sent>>
    PROVE  /\ inbuffer' \in Seq(Message) /\ messages' \in Seq(Message)
           /\ result' \in Exceptions \cup {"none", "returned"}
           /\ peer' \in {"open", "closed", "reset"}
           /\ CallInv' /\ OrderInv'
<1>1. messages = <<>> /\ data = <<>>  BY DEF CallInv
<1>2. inbuffer \in Seq(Message) /\ peer \in {"open", "closed", "reset"}  BY DEF TypeOK
<1>3. Ids(<<>>) = {} /\ Increasing(<<>>)  BY NoIds
<1>4. CASE call'.at = "recv" /\ messages' = inbuffer /\ inbuffer' = <<>> /\ result' = "none"
  <2>1. peer' \in {"open", "closed", "reset"}
    BY <1>2, <1>4 DEF EntersReceiveLoop, Sends, NoCall
  <2>2. CallInv'  BY <1>4 DEF CallInv
  <2>3. OrderInv'  BY <1>1, <1>3, <1>4 DEF OrderInv, Precede
  <2> QED  BY <1>2, <1>4, <2>1, <2>2, <2>3
<1>5. CASE /\ SendFails /\ call' = NoCall /\ UNCHANGED <<peer, messages, inbuffer>>
           /\ result' \in {"ConnectionClosed", "ConnectionResetError"}
  <2>1. CallInv'  BY <1>1, <1>5 DEF CallInv, NoCall
  <2>2. OrderInv'  BY <1>5 DEF OrderInv
  <2> QED  BY <1>1, <1>2, <1>5, <2>1, <2>2 DEF Exceptions
<1> QED  BY <1>4, <1>5 DEF EntersReceiveLoop, BufferedAtStart, InbufferAtStart

LEMMA ServerKeepsOrder ==
    ASSUME MockInv, Server \/ ServerWrites \/ ServerCloses, UNCHANGED routineVars
    PROVE  MockInv'
<1> USE DEF MockInv
<1>1. IInv'  BY ServerKeeps
<1>2. TypeOK  BY DEF TypeOKRoutine
<1>3. /\ UNCHANGED clientVars /\ UNCHANGED <<cut, pings, commands, calls>>
      /\ peer' \in {"open", "closed", "reset"}
  BY <1>2 DEF Server, ServerAnswersPing, ServerHandlesCommand, ServerWrites, ServerCloses, TypeOK
<1>4. /\ net' \in Seq(Message) /\ sent' \in Seq(Message) /\ requests' \in Seq(Nat)
  BY <1>1 DEF IInv, TypeInv
<1>5. TypeOKRoutine'
  <2>1. TypeOK'  BY <1>2, <1>3, <1>4 DEF TypeOK, clientVars
  <2> QED  BY <2>1 DEF TypeOKRoutine, routineVars, histVars
<1>6. CallInv' /\ OrderInv'
  <2>1. CASE UNCHANGED <<sent, net>>
    BY <1>3, <2>1 DEF CallInv, OrderInv, clientVars
  <2>2. CASE \E kind \in {"reply", "async", "pong", "451", "garbled"}, token \in Nat :
                Writes(kind, token)
    <3> PICK kind \in {"reply", "async", "pong", "451", "garbled"}, token \in Nat :
                Writes(kind, token)
      BY <2>2
    <3>1. Len(sent) + 1 \in Nat
      <4>1. sent \in Seq(Message)  BY <1>2 DEF TypeOK
      <4> QED  BY <4>1, LenProperties
    <3>2. [kind |-> kind, id |-> Len(sent) + 1, token |-> token] \in Message
      BY <3>1 DEF Message
    <3> QED  BY <3>2, <1>2, <1>3, WritesKeeps
  <2>3. CASE ServerAnswersPing
    <3>1. Head(requests) \in Nat
      BY <1>2, <2>3, HeadTailProperties DEF ServerAnswersPing, TypeOK
    <3> QED  BY <3>1, <2>2, <2>3 DEF ServerAnswersPing
  <2>4. CASE ServerHandlesCommand
    BY <2>1, <2>2, <2>4 DEF ServerHandlesCommand, LineKinds
  <2>5. CASE ServerWrites
    BY <2>2, <2>5 DEF ServerWrites, LineKinds
  <2>6. CASE ServerCloses
    BY <2>1, <2>6 DEF ServerCloses
  <2> QED  BY <2>3, <2>4, <2>5, <2>6 DEF Server
<1> QED  BY <1>1, <1>5, <1>6

\* What is kept when a call raises: the lines it had are lost.
LEMMA RaisingKeeps ==
    ASSUME TypeOK, CallInv, OrderInv, NEW e \in Exceptions, Raises(e),
           net' \in Seq(Message), Increasing(net'), Ids(net') \subseteq Ids(net), sent' = sent
    PROVE  /\ inbuffer' \in Seq(Message) /\ messages' \in Seq(Message)
           /\ data' \in Seq(Message) /\ delivered' \in Seq(Message)
           /\ CallInv' /\ OrderInv'
<1>1. Ids(<<>>) = {} /\ Increasing(<<>>)  BY NoIds
<1>2. messages' = <<>> /\ data' = <<>> /\ UNCHANGED <<inbuffer, delivered>> /\ call' = NoCall
  BY DEF Raises
<1>3. inbuffer \in Seq(Message) /\ delivered \in Seq(Message)  BY DEF TypeOK
<1>4. CallInv'  BY <1>2 DEF CallInv, NoCall
<1>5. OrderInv'  BY <1>1, <1>2 DEF OrderInv, Precede
<1> QED  BY <1>2, <1>3, <1>4, <1>5

\* What recv() returned, added to what `data` holds, and what it left.
LEMMA OrderOfReceived ==
    ASSUME TypeOK, OrderInv, NEW n \in 0..Len(net), NEW c, Receives(n, c)
    PROVE  LET lines == data \o SubSeq(net, 1, n)
           IN  /\ lines \in Seq(Message) /\ net' \in Seq(Message)
               /\ Increasing(lines) /\ Increasing(net')
               /\ Ids(lines) \cup Ids(net') = Ids(data) \cup Ids(net)
               /\ Ids(net') \subseteq Ids(net)
               /\ Precede(Ids(lines), Ids(net'))
               /\ lines \o net' = data \o net
<1> DEFINE front == SubSeq(net, 1, n)
           lines == data \o front
<1>1. net \in Seq(Message) /\ data \in Seq(Message) /\ Increasing(net)
  BY DEF TypeOK, OrderInv
<1>2. net' = SubSeq(net, n + 1, Len(net))  BY DEF Receives
<1>3. /\ front \in Seq(Message) /\ net' \in Seq(Message)
      /\ front \o net' = net
      /\ Ids(net) = Ids(front) \cup Ids(net')
      /\ Increasing(front) /\ Increasing(net') /\ Precede(Ids(front), Ids(net'))
  BY <1>1, <1>2, OrderOfCut
<1> HIDE DEF front
<1>4. Increasing(data) /\ Precede(Ids(data), Ids(front)) /\ Precede(Ids(data), Ids(net'))
  BY <1>3 DEF OrderInv, Precede
<1>5. lines \in Seq(Message) /\ Ids(lines) = Ids(data) \cup Ids(front) /\ Increasing(lines)
  BY <1>1, <1>3, <1>4, OrderOfConcat
<1>6. lines \o net' = data \o net
  <2>1. (data \o front) \o net' = data \o (front \o net')
    BY <1>1, <1>3, ConcatRegroup
  <2> QED  BY <2>1, <1>3
<1>7. Precede(Ids(lines), Ids(net'))  BY <1>3, <1>4, <1>5 DEF Precede
<1> QED  BY <1>3, <1>5, <1>6, <1>7 DEF front

LEMMA ClientKeepsOrder ==
    ASSUME MockInv, Client, endSeen' = (endSeen \/ MeetsEnd),
           UNCHANGED <<routine, outcome, closedBefore>>
    PROVE  MockInv'
<1> USE DEF MockInv
<1>1. IInv'  BY ClientKeeps
<1>2. TypeOK /\ TypeOKRoutine  BY DEF TypeOKRoutine
<1>3. /\ data' \in Seq(Message) /\ net' \in Seq(Message) /\ sent' \in Seq(Message)
      /\ requests' \in Seq(Nat) /\ pings' \in Nat
      /\ call' \in [at : {"idle", "loop", "recv", "filled"},
                    single : BOOLEAN, sync : BOOLEAN, token : Nat]
  BY <1>1 DEF IInv, TypeInv
<1>4. ASSUME inbuffer' \in Seq(Message), messages' \in Seq(Message), delivered' \in Seq(Message),
             result' \in Exceptions \cup {"none", "returned"}, cut' \in Cuts,
             peer' \in {"open", "closed", "reset"}, UNCHANGED <<commands, calls>>
      PROVE  TypeOKRoutine'
  <2>1. TypeOK'  BY <1>2, <1>3, <1>4 DEF TypeOK
  <2>2. {closedBefore', endSeen'} \subseteq BOOLEAN  BY <1>2 DEF TypeOKRoutine
  <2> QED  BY <2>1, <2>2 DEF TypeOKRoutine
<1>5. CASE ReceivePart
  <2> PICK n \in 0..Len(net), c \in Cuts :
          /\ Receives(n, c)
          /\ data' = data \o SubSeq(net, 1, n)
          /\ UNCHANGED <<inbuffer, call, messages, result, delivered>>
    BY <1>5 DEF ReceivePart
  <2>1. /\ data' \in Seq(Message) /\ Increasing(data') /\ Increasing(net')
        /\ Ids(data') \cup Ids(net') = Ids(data) \cup Ids(net)
        /\ Precede(Ids(data'), Ids(net'))
    BY <1>2, OrderOfReceived
  <2>2. UNCHANGED serverVars /\ UNCHANGED calls /\ cut' = c /\ call.at = "recv"
    BY DEF Receives
  <2>3. TypeOKRoutine'  BY <1>2, <1>4, <2>2 DEF TypeOK, serverVars
  <2>4. CallInv'  BY <2>2 DEF CallInv
  <2>5. OrderInv'  BY <2>1, <2>2 DEF OrderInv, Precede, serverVars
  <2> QED  BY <1>1, <2>3, <2>4, <2>5
<1>6. CASE ReceiveChunk
  <2> PICK n \in 0..Len(net) :
          /\ Receives(n, "none")
          /\ LET lines == data \o SubSeq(net, 1, n)
                 parsed == messages \o Parsed(lines)
             IN  \/ \E e \in {"UnicodeDecodeError", "ValueError"} : Raises(e)
                 \/ Returns(parsed)
                 \/ /\ messages' = parsed /\ data' = <<>>
                    /\ UNCHANGED <<inbuffer, call, result, delivered>>
    BY <1>6 DEF ReceiveChunk
  <2> DEFINE lines == data \o SubSeq(net, 1, n)
             parsed == messages \o Parsed(lines)
  <2>1. /\ lines \in Seq(Message) /\ Increasing(lines) /\ Increasing(net')
        /\ Ids(lines) \cup Ids(net') = Ids(data) \cup Ids(net)
        /\ Ids(net') \subseteq Ids(net)
        /\ Precede(Ids(lines), Ids(net'))
    BY <1>2, OrderOfReceived
  <2>2. UNCHANGED serverVars /\ UNCHANGED calls /\ cut' = "none" /\ call.at = "recv"
    BY DEF Receives
  <2> HIDE DEF lines
  <2>3. /\ Parsed(lines) \in Seq(Message) /\ Increasing(Parsed(lines))
        /\ Ids(Parsed(lines)) \subseteq Ids(lines)
    BY <2>1, OrderOfParsed
  <2>4. /\ messages \in Seq(Message) /\ Increasing(messages)
        /\ Precede(Ids(messages), Ids(Parsed(lines)))
        /\ Precede(Ids(messages), Ids(net'))
    BY <1>2, <2>1, <2>3 DEF TypeOK, OrderInv, Precede
  <2>5. /\ parsed \in Seq(Message) /\ Increasing(parsed)
        /\ Ids(parsed) = Ids(messages) \cup Ids(Parsed(lines))
    BY <2>3, <2>4, OrderOfConcat
  <2>6. /\ Ids(parsed) \subseteq Ids(messages) \cup Ids(data) \cup Ids(net)
        /\ Precede(Ids(parsed), Ids(net'))
    BY <2>1, <2>3, <2>4, <2>5 DEF Precede
  <2> HIDE DEF parsed
  <2>7. \/ \E e \in {"UnicodeDecodeError", "ValueError"} : Raises(e)
        \/ Returns(parsed)
        \/ /\ messages' = parsed /\ data' = <<>>
           /\ UNCHANGED <<inbuffer, call, result, delivered>>
    BY DEF parsed, lines
  <2>8. /\ inbuffer' \in Seq(Message) /\ messages' \in Seq(Message)
        /\ delivered' \in Seq(Message) /\ CallInv' /\ OrderInv'
    <3>1. CASE \E e \in {"UnicodeDecodeError", "ValueError"} : Raises(e)
      <4> PICK e \in {"UnicodeDecodeError", "ValueError"} : Raises(e)  BY <3>1
      <4>1. e \in Exceptions  BY DEF Exceptions
      <4> QED  BY <4>1, <1>2, <1>3, <2>1, <2>2, RaisingKeeps DEF serverVars
    <3>2. CASE ~ \E e \in {"UnicodeDecodeError", "ValueError"} : Raises(e)
      <4>1. \/ Returns(parsed)
            \/ /\ messages' = parsed /\ data' = <<>>
               /\ UNCHANGED <<inbuffer, call, result, delivered>>
        BY <3>2, <2>7
      <4>2. sent' = sent  BY <2>2 DEF serverVars
      <4> QED  BY <4>1, <4>2, <1>2, <1>3, <2>1, <2>2, <2>5, <2>6, TakingKeeps
    <3> QED  BY <3>1, <3>2
  <2>9. result' \in Exceptions \cup {"none", "returned"}
    BY <1>2, <2>7 DEF TypeOK, Raises, Returns, Exceptions
  <2>10. TypeOKRoutine'
    BY <1>2, <1>4, <2>2, <2>8, <2>9 DEF TypeOK, serverVars, Cuts
  <2> QED  BY <1>1, <2>8, <2>10
<1>7. CASE ReceiveTimeout
  <2>1. /\ Returns(<<>>) /\ call.at = "recv"
        /\ UNCHANGED <<net, cut, serverVars, calls>>
    BY <1>7 DEF ReceiveTimeout
  <2>2. <<>> \in Seq(Message) /\ Increasing(<<>>) /\ Ids(<<>>) = {}  BY NoIds
  <2>3. Precede({}, Ids(net'))  BY DEF Precede
  <2>4. /\ inbuffer' \in Seq(Message) /\ messages' \in Seq(Message)
        /\ delivered' \in Seq(Message) /\ CallInv' /\ OrderInv'
    BY <1>2, <1>3, <2>1, <2>2, <2>3, TakingKeeps DEF OrderInv, serverVars
  <2>5. result' \in Exceptions \cup {"none", "returned"}
    BY <1>2, <2>1 DEF TypeOK, Returns
  <2>6. TypeOKRoutine'  BY <1>2, <1>4, <2>1, <2>4, <2>5 DEF TypeOK, serverVars
  <2> QED  BY <1>1, <2>4, <2>6
<1>8. CASE ReceiveEnd
  <2>1. /\ call.at = "recv" /\ UNCHANGED <<net, cut, serverVars, calls>>
        /\ Returns(messages) \/ Raises("ConnectionClosed")
    BY <1>8 DEF ReceiveEnd
  <2>2. /\ messages \in Seq(Message) /\ Increasing(messages)
        /\ Precede(Ids(messages), Ids(net')) /\ Increasing(net')
    BY <1>2, <2>1 DEF TypeOK, OrderInv, Precede
  <2>3. /\ inbuffer' \in Seq(Message) /\ messages' \in Seq(Message)
        /\ delivered' \in Seq(Message) /\ CallInv' /\ OrderInv'
    <3>1. CASE Returns(messages)
      BY <3>1, <1>2, <1>3, <2>1, <2>2, TakingKeeps DEF serverVars
    <3>2. CASE Raises("ConnectionClosed")
      <4>1. "ConnectionClosed" \in Exceptions  BY DEF Exceptions
      <4> QED  BY <4>1, <3>2, <1>2, <1>3, <2>1, <2>2, RaisingKeeps DEF serverVars
    <3> QED  BY <2>1, <3>1, <3>2
  <2>4. result' \in Exceptions \cup {"none", "returned"}
    BY <1>2, <2>1 DEF TypeOK, Returns, Raises, Exceptions
  <2>5. TypeOKRoutine'  BY <1>2, <1>4, <2>1, <2>3, <2>4 DEF TypeOK, serverVars
  <2> QED  BY <1>1, <2>3, <2>5
<1>9. CASE GetMessageRefills
  <2>1. /\ EntersReceiveLoop(TRUE, call.sync) /\ call.at # "recv"
        /\ UNCHANGED <<data, delivered, net, cut, sent, commands, calls>>
    BY <1>9 DEF GetMessageRefills
  <2>2. /\ inbuffer' \in Seq(Message) /\ messages' \in Seq(Message)
        /\ result' \in Exceptions \cup {"none", "returned"}
        /\ peer' \in {"open", "closed", "reset"}
        /\ CallInv' /\ OrderInv'
    BY <1>2, <2>1, EnteringKeepsOrder
  <2>3. TypeOKRoutine'  BY <1>2, <1>4, <2>1, <2>2 DEF TypeOK
  <2> QED  BY <1>1, <2>2, <2>3
<1>10. CASE GetMessagePops
  <2>1. /\ call.at # "recv" /\ call'.at # "recv" /\ inbuffer # <<>>
        /\ inbuffer' = Tail(inbuffer) /\ delivered' = Append(delivered, Head(inbuffer))
        /\ result' \in {"returned", result}
        /\ UNCHANGED <<messages, data, net, cut, serverVars, calls>>
    BY <1>2, <1>10 DEF GetMessagePops, NoCall, TypeOK
  <2>2. inbuffer \in Seq(Message) /\ delivered \in Seq(Message)  BY <1>2 DEF TypeOK
  <2>3. /\ Head(inbuffer) \in Message /\ inbuffer' \in Seq(Message)
        /\ Ids(inbuffer) = {Head(inbuffer).id} \cup Ids(inbuffer')
        /\ Increasing(inbuffer') /\ Precede({Head(inbuffer).id}, Ids(inbuffer'))
    BY <2>1, <2>2, OrderOfTail DEF OrderInv
  <2>4. Precede(Ids(delivered), {Head(inbuffer).id})
    BY <2>3 DEF OrderInv, Precede
  <2>5. /\ delivered' \in Seq(Message) /\ Increasing(delivered')
        /\ Ids(delivered') = Ids(delivered) \cup {Head(inbuffer).id}
    BY <2>1, <2>2, <2>3, <2>4, OrderOfAppend DEF OrderInv
  <2>6. CallInv'  BY <2>1 DEF CallInv
  <2>7. OrderInv'
    <3>1. UNCHANGED <<Ids(messages), Ids(data), Ids(net), sent>>
      BY <2>1 DEF Ids, serverVars
    <3>2. Increasing(messages)' /\ Increasing(data)' /\ Increasing(net)'
      BY <2>1 DEF OrderInv, Increasing
    <3>3. Precede(Ids(delivered'), Ids(inbuffer') \cup Ids(messages) \cup Ids(data) \cup Ids(net))
      <4>1. Ids(messages) = {}  BY <2>1, NoIds DEF CallInv
      <4> QED  BY <4>1, <2>3, <2>5 DEF OrderInv, Precede
    <3>4. Precede(Ids(inbuffer') \cup Ids(messages), Ids(data) \cup Ids(net))
      BY <2>3 DEF OrderInv, Precede
    <3>5. Ids(delivered') \cup Ids(inbuffer') \cup Ids(messages) \cup Ids(data) \cup Ids(net)
             \subseteq 1..Len(sent)
      BY <2>3, <2>5 DEF OrderInv
    <3> QED  BY <2>3, <2>5, <3>1, <3>2, <3>3, <3>4, <3>5 DEF OrderInv
  <2>8. TypeOKRoutine'  BY <1>2, <1>4, <2>1, <2>3, <2>5 DEF TypeOK, serverVars
  <2> QED  BY <1>1, <2>6, <2>7, <2>8
<1>11. CASE GetMessageFails
  <2>1. Raises("NoMessageException") /\ UNCHANGED <<net, cut, serverVars, calls>>
    BY <1>11 DEF GetMessageFails
  <2>2. "NoMessageException" \in Exceptions  BY DEF Exceptions
  <2>3. /\ inbuffer' \in Seq(Message) /\ messages' \in Seq(Message)
        /\ delivered' \in Seq(Message) /\ CallInv' /\ OrderInv'
    BY <1>2, <1>3, <2>1, <2>2, RaisingKeeps DEF OrderInv, serverVars
  <2>4. TypeOKRoutine'
    BY <1>2, <1>4, <2>1, <2>2, <2>3 DEF TypeOK, Raises, serverVars
  <2> QED  BY <1>1, <2>3, <2>4
<1> QED  BY <1>5, <1>6, <1>7, <1>8, <1>9, <1>10, <1>11 DEF Client

LEMMA TestKeepsOrder ==
    ASSUME MockInv, SendLine \/ CallGetMessages \/ CallGetMessage,
           routine = "none", UNCHANGED routineVars
    PROVE  MockInv'
<1> USE DEF MockInv
<1>1. IInv'  BY TestKeeps
<1>2. TypeOK /\ TypeOKRoutine  BY DEF TypeOKRoutine
<1>3. /\ data' \in Seq(Message) /\ net' \in Seq(Message) /\ sent' \in Seq(Message)
      /\ requests' \in Seq(Nat) /\ pings' \in Nat
      /\ call' \in [at : {"idle", "loop", "recv", "filled"},
                    single : BOOLEAN, sync : BOOLEAN, token : Nat]
  BY <1>1 DEF IInv, TypeInv
<1>4. ASSUME inbuffer' \in Seq(Message), messages' \in Seq(Message), delivered' \in Seq(Message),
             result' \in Exceptions \cup {"none", "returned"}, cut' \in Cuts,
             peer' \in {"open", "closed", "reset"}, {commands', calls'} \subseteq Nat
      PROVE  TypeOKRoutine'
  <2>1. TypeOK'  BY <1>3, <1>4 DEF TypeOK
  <2> QED  BY <1>2, <2>1 DEF TypeOKRoutine, routineVars, histVars
<1>5. CASE SendLine
  <2>1. /\ UNCHANGED <<inbuffer, call, messages, data, delivered, net, cut, sent, calls>>
        /\ commands' = commands + 1
        /\ peer' \in {"open", "closed", "reset"}
        /\ result' \in Exceptions \cup {"none", "returned"}
    BY <1>2, <1>5 DEF SendLine, Sends, TypeOK, Exceptions
  <2>2. TypeOKRoutine'  BY <1>2, <1>4, <2>1 DEF TypeOK
  <2> QED  BY <1>1, <2>1, <2>2 DEF CallInv, OrderInv
<1>6. CASE CallGetMessages
  <2> PICK sync \in BOOLEAN : EntersReceiveLoop(FALSE, sync)
    BY <1>6 DEF CallGetMessages
  <2>1. /\ call.at # "recv" /\ calls' = calls + 1
        /\ UNCHANGED <<data, delivered, net, cut, sent, commands>>
    BY <1>6 DEF CallGetMessages
  <2>2. /\ inbuffer' \in Seq(Message) /\ messages' \in Seq(Message)
        /\ result' \in Exceptions \cup {"none", "returned"}
        /\ peer' \in {"open", "closed", "reset"}
        /\ CallInv' /\ OrderInv'
    BY <1>2, <2>1, EnteringKeepsOrder
  <2>3. TypeOKRoutine'  BY <1>2, <1>4, <2>1, <2>2 DEF TypeOK
  <2> QED  BY <1>1, <2>2, <2>3
<1>7. CASE CallGetMessage
  <2>1. /\ call.at # "recv" /\ call'.at = "loop" /\ calls' = calls + 1 /\ result' = "none"
        /\ UNCHANGED <<inbuffer, messages, data, delivered, net, cut, serverVars>>
    BY <1>7 DEF CallGetMessage
  <2>2. TypeOKRoutine'  BY <1>2, <1>4, <2>1 DEF TypeOK, serverVars
  <2> QED  BY <1>1, <2>1, <2>2 DEF CallInv, OrderInv, serverVars
<1> QED  BY <1>5, <1>6, <1>7

LEMMA RoutineKeepsOrder ==
    ASSUME MockInv,
           \/ CallAssertDisconnected \/ FirstCallReturned
           \/ SecondCallReturned \/ CallRaised
    PROVE  MockInv'
<1> USE DEF MockInv
<1>1. IInv'  BY RoutineKeeps
<1>2. TypeOK /\ TypeOKRoutine  BY DEF TypeOKRoutine
<1>3. /\ data' \in Seq(Message) /\ net' \in Seq(Message) /\ sent' \in Seq(Message)
      /\ requests' \in Seq(Nat) /\ pings' \in Nat
      /\ call' \in [at : {"idle", "loop", "recv", "filled"},
                    single : BOOLEAN, sync : BOOLEAN, token : Nat]
      /\ outcome' \in {"none", "disconnected", "AssertionError", "error"}
  BY <1>1 DEF IInv, TypeInv, OutcomeInv
<1>4. /\ routine' \in {"none", "first", "second", "over"}
      /\ {closedBefore', endSeen'} \subseteq BOOLEAN
  BY <1>2
  DEF CallAssertDisconnected, FirstCallReturned, SecondCallReturned, CallRaised,
      histVars, TypeOKRoutine
<1>5. CASE CallAssertDisconnected \/ FirstCallReturned
  <2>1. /\ EntersReceiveLoop(FALSE, TRUE) /\ call.at # "recv"
        /\ UNCHANGED <<data, delivered, net, cut, sent, commands, calls>>
    BY <1>5 DEF CallAssertDisconnected, FirstCallReturned, RoutineGetsMessages
  <2>2. /\ inbuffer' \in Seq(Message) /\ messages' \in Seq(Message)
        /\ result' \in Exceptions \cup {"none", "returned"}
        /\ peer' \in {"open", "closed", "reset"}
        /\ CallInv' /\ OrderInv'
    BY <1>2, <2>1, EnteringKeepsOrder
  <2>3. TypeOK'  BY <1>2, <1>3, <2>1, <2>2 DEF TypeOK
  <2> QED  BY <1>1, <1>3, <1>4, <2>2, <2>3 DEF TypeOKRoutine
<1>6. CASE SecondCallReturned \/ CallRaised
  <2>1. UNCHANGED vars  BY <1>6 DEF SecondCallReturned, CallRaised
  <2>2. TypeOK'
    BY <1>2, <2>1 DEF TypeOK, vars, clientVars, serverVars
  <2>3. CallInv' /\ OrderInv'
    BY <2>1 DEF CallInv, OrderInv, vars, clientVars, serverVars
  <2> QED  BY <1>1, <1>3, <1>4, <2>2, <2>3 DEF TypeOKRoutine
<1> QED  BY <1>5, <1>6

LEMMA StepMockInv == MockInv /\ [NextRoutine]_allVars => MockInv'
<1> SUFFICES ASSUME MockInv, [NextRoutine]_allVars PROVE MockInv'  OBVIOUS
<1>1. CASE (Server \/ ServerWrites \/ ServerCloses) /\ UNCHANGED routineVars
  BY <1>1, ServerKeepsOrder
<1>2. CASE /\ Client /\ endSeen' = (endSeen \/ MeetsEnd)
           /\ UNCHANGED <<routine, outcome, closedBefore>>
  BY <1>2, ClientKeepsOrder
<1>3. CASE /\ routine = "none" /\ UNCHANGED routineVars
           /\ SendLine \/ CallGetMessages \/ CallGetMessage
  BY <1>3, TestKeepsOrder
<1>4. CASE CallAssertDisconnected \/ FirstCallReturned \/ SecondCallReturned \/ CallRaised
  BY <1>4, RoutineKeepsOrder
<1>5. CASE UNCHANGED allVars
  <2>1. IInv'  BY <1>5, StepIInv DEF MockInv
  <2>2. TypeOKRoutine'
    BY <1>5 DEF MockInv, TypeOKRoutine, TypeOK,
       allVars, vars, clientVars, serverVars, routineVars, histVars
  <2>3. CallInv' /\ OrderInv'
    BY <1>5 DEF MockInv, CallInv, OrderInv, allVars, vars, clientVars, serverVars
  <2> QED  BY <2>1, <2>2, <2>3 DEF MockInv
<1> QED  BY <1>1, <1>2, <1>3, <1>4, <1>5 DEF NextRoutine

LEMMA MockInvariant == SpecRoutine => []MockInv
BY InitMockInv, StepMockInv, PTL DEF SpecRoutine

\* Every variable of the client, the server and assertDisconnected() keeps its type.
THEOREM TypeCorrect == SpecRoutine => []TypeOKRoutine
<1>1. MockInv => TypeOKRoutine  BY DEF MockInv
<1> QED  BY <1>1, MockInvariant, PTL

\* Whatever fails, and however recv() cuts the stream, getMessages() and
\* getMessage() never hand a line to the test twice, nor after a later one.
THEOREM InOrder == SpecRoutine => []DeliveredInOrder
<1>1. MockInv => DeliveredInOrder
  BY DEF MockInv, OrderInv, Increasing, DeliveredInOrder
<1> QED  BY <1>1, MockInvariant, PTL

-----------------------------------------------------------------------------
(* Answers to PINGs. *)

Written == {sent[i] : i \in 1..Len(sent)}

AllIn(s, T) == \A i \in 1..Len(s) : s[i] \in T

\* A PING is answered at most once, and an answer keeps its token.
AnswersInv ==
    /\ \A i \in 1..Len(sent) :
          /\ sent[i].id = i
          /\ sent[i].token <= pings
          /\ sent[i].token # 0 <=> sent[i].kind \in {"pong", "451"}
    /\ \A i, j \in 1..Len(sent) :
          sent[i].token = sent[j].token => sent[i].token = 0 \/ i = j
    /\ \A i, j \in 1..Len(requests) :
          requests[i] = requests[j] => requests[i] = 0 \/ i = j
    /\ \A i \in 1..Len(requests), j \in 1..Len(sent) :
          requests[i] = sent[j].token => requests[i] = 0
    /\ AllIn(data, Written) /\ AllIn(net, Written)

\* The answer to the running call is on its way, and no reply follows it.
Answered ==
    \E i \in Ids(data) \cup Ids(net) :
        /\ sent[i].token = call.token
        /\ \A j \in Ids(net) : j > i => sent[j].kind # "reply"

\* The PING of a synchronized call is the last request of the client.
WaitInv ==
    call.at = "recv" =>
        /\ ~call.sync => call.token = 0
        /\ call.sync =>
              /\ call.token = pings /\ pings # 0
              /\ peer = "open" =>
                    \/ requests # <<>> /\ requests[Len(requests)] = call.token
                    \/ requests = <<>> /\ Answered

SyncInv == MockInv /\ AnswersInv /\ WaitInv

LEMMA InitSyncInv == InitRoutine => SyncInv
<1> SUFFICES ASSUME InitRoutine PROVE SyncInv  OBVIOUS
<1>1. AnswersInv
  BY DEF InitRoutine, Init, AnswersInv, AllIn
<1>2. WaitInv  BY DEF InitRoutine, Init, NoCall, WaitInv
<1> QED  BY <1>1, <1>2, InitMockInv DEF SyncInv

\* A line of the server, and what is known of the ones before.
LEMMA WritesAnswer ==
    ASSUME SyncInv, NEW kind \in {"reply", "async", "pong", "451", "garbled"},
           NEW token \in 0..pings, Writes(kind, token), UNCHANGED clientVars,
           token # 0 <=> kind \in {"pong", "451"},
           \A i \in 1..Len(sent) : sent[i].token = token => token = 0,
           pings' = pings, requests' \in Seq(Nat),
           \A i \in 1..Len(requests') : \E k \in 1..Len(requests) :
              requests'[i] = requests[k] /\ (requests[k] = token => token = 0),
           \A i, j \in 1..Len(requests') :
              requests'[i] = requests'[j] => requests'[i] = 0 \/ i = j
    PROVE  /\ AnswersInv'
           /\ Len(sent') = Len(sent) + 1 /\ sent'[Len(sent) + 1].token = token
           /\ sent'[Len(sent) + 1].kind = kind
           /\ \A i \in 1..Len(sent) : sent'[i] = sent[i]
           /\ Ids(net') = Ids(net) \cup {Len(sent) + 1}
<1> DEFINE line == [kind |-> kind, id |-> Len(sent) + 1, token |-> token]
<1>1. /\ sent \in Seq(Message) /\ net \in Seq(Message) /\ data \in Seq(Message)
      /\ pings \in Nat /\ requests \in Seq(Nat)
  BY DEF SyncInv, MockInv, TypeOKRoutine, TypeOK
<1>2. Len(sent) \in Nat /\ Len(net) \in Nat /\ Len(requests) \in Nat /\ token \in Nat /\ token <= pings
  BY <1>1, LenProperties
<1>3. /\ line \in Message /\ line.id = Len(sent) + 1 /\ line.token = token /\ line.kind = kind
  BY <1>2 DEF Message
<1>4. sent' = Append(sent, line) /\ net' = Append(net, line)  BY DEF Writes
<1> HIDE DEF line
<1>5. /\ Len(sent') = Len(sent) + 1 /\ sent'[Len(sent) + 1] = line
      /\ \A i \in 1..Len(sent) : sent'[i] = sent[i]
  BY <1>1, <1>3, <1>4, AppendProperties
<1>6. /\ Len(net') = Len(net) + 1 /\ net'[Len(net) + 1] = line
      /\ \A i \in 1..Len(net) : net'[i] = net[i]
  BY <1>1, <1>3, <1>4, AppendProperties
<1>7. Ids(net') = Ids(net) \cup {Len(sent) + 1}
  BY <1>1, <1>3, <1>4, OrderOfAppend
<1>8. \A i \in 1..Len(sent') : i \in 1..Len(sent) \/ i = Len(sent) + 1
  BY <1>2, <1>5
<1>9. Written \subseteq Written' /\ line \in Written'
  <2>1. ASSUME NEW i \in 1..Len(sent) PROVE sent[i] \in Written'
    <3>1. i \in 1..Len(sent') /\ sent[i] = sent'[i]  BY <1>2, <1>5
    <3> QED  BY <3>1 DEF Written
  <2>2. Len(sent) + 1 \in 1..Len(sent')  BY <1>2, <1>5
  <2> QED  BY <2>1, <2>2, <1>5 DEF Written
<1>10. AllIn(data, Written)' /\ AllIn(net, Written)'
  <2>1. data' = data  BY DEF clientVars
  <2>2. AllIn(data, Written) /\ AllIn(net, Written)  BY DEF SyncInv, AnswersInv
  <2>3. \A i \in 1..Len(net') : i \in 1..Len(net) \/ i = Len(net) + 1  BY <1>2, <1>6
  <2>4. AllIn(data, Written)'  BY <1>9, <2>1, <2>2 DEF AllIn
  <2>5. AllIn(net, Written)'  BY <1>6, <1>9, <2>2, <2>3 DEF AllIn
  <2> QED  BY <2>4, <2>5
<1>11. \A i \in 1..Len(sent') : /\ sent'[i].id = i
                                /\ sent'[i].token <= pings'
                                /\ sent'[i].token # 0 <=> sent'[i].kind \in {"pong", "451"}
  <2>1. \A i \in 1..Len(sent) : /\ sent[i].id = i
                                /\ sent[i].token <= pings
                                /\ sent[i].token # 0 <=> sent[i].kind \in {"pong", "451"}
    BY DEF SyncInv, AnswersInv
  <2> QED  BY SMTT(30), <2>1, <1>2, <1>3, <1>5, <1>8
<1>12. \A i, j \in 1..Len(sent') :
          sent'[i].token = sent'[j].token => sent'[i].token = 0 \/ i = j
  <2>1. \A i, j \in 1..Len(sent) :
          sent[i].token = sent[j].token => sent[i].token = 0 \/ i = j
    BY DEF SyncInv, AnswersInv
  <2> QED  BY SMTT(30), <2>1, <1>3, <1>5, <1>8
<1>13. \A i \in 1..Len(requests'), j \in 1..Len(sent') :
          requests'[i] = sent'[j].token => requests'[i] = 0
  <2> SUFFICES ASSUME NEW i \in 1..Len(requests'), NEW j \in 1..Len(sent'),
                      requests'[i] = sent'[j].token
               PROVE  requests'[i] = 0
    OBVIOUS
  <2> PICK k \in 1..Len(requests) :
           requests'[i] = requests[k] /\ (requests[k] = token => token = 0)
    OBVIOUS
  <2>1. CASE j \in 1..Len(sent)
    BY <2>1, <1>5 DEF SyncInv, AnswersInv
  <2>2. CASE j = Len(sent) + 1
    BY <2>2, <1>3, <1>5
  <2> QED  BY <2>1, <2>2, <1>8
<1>14. AnswersInv'  BY <1>10, <1>11, <1>12, <1>13 DEF AnswersInv
<1> QED  BY <1>3, <1>5, <1>7, <1>14

LEMMA ServerKeepsSync ==
    ASSUME SyncInv, Server \/ ServerWrites \/ ServerCloses, UNCHANGED routineVars
    PROVE  SyncInv'
<1> USE DEF SyncInv
<1>1. MockInv'  BY ServerKeepsOrder
<1>2. /\ peer = "open" /\ UNCHANGED clientVars /\ pings' = pings
  BY DEF Server, ServerAnswersPing, ServerHandlesCommand, ServerWrites, ServerCloses
<1>3. /\ requests \in Seq(Nat) /\ pings \in Nat /\ sent \in Seq(Message)
      /\ data \in Seq(Message) /\ net \in Seq(Message) /\ requests' \in Seq(Nat)
      /\ net' \in Seq(Message) /\ call.token \in Nat
  BY <1>1 DEF MockInv, TypeOKRoutine, TypeOK
<1>4. Len(requests) \in Nat /\ Len(sent) \in Nat  BY <1>3, LenProperties
<1>5. \A i \in 1..Len(requests) : requests[i] \in Nat /\ requests[i] <= pings
  BY <1>3, ElementOfSeq DEF MockInv, IInv, TokenInv
<1>6. Ids(data') = Ids(data) /\ Ids(data) \cup Ids(net) \subseteq 1..Len(sent)
  BY <1>2 DEF clientVars, MockInv, OrderInv
<1>7. CASE Server
  <2>0. requests # <<>> /\ requests' = Tail(requests)
    BY <1>7 DEF Server, ServerAnswersPing, ServerHandlesCommand
  <2>1. /\ Head(requests) = requests[1] /\ 1 \in 1..Len(requests)
        /\ Len(requests') = Len(requests) - 1 /\ Len(requests) > 0
        /\ \A i \in 1..Len(requests') : requests'[i] = requests[i + 1] /\ i + 1 \in 1..Len(requests)
    <3>1. Len(requests) > 0  BY <1>3, <2>0, EmptySeq
    <3> QED  BY <3>1, <1>3, <1>4, <2>0, HeadTailProperties
  <2>2. \A i, j \in 1..Len(requests') :
              requests'[i] = requests'[j] => requests'[i] = 0 \/ i = j
    <3> SUFFICES ASSUME NEW i \in 1..Len(requests'), NEW j \in 1..Len(requests'),
                        requests'[i] = requests'[j], requests'[i] # 0
                 PROVE  i = j
      OBVIOUS
    <3>1. i + 1 = j + 1  BY <2>1 DEF AnswersInv
    <3> QED  BY <3>1
  <2>3. \A i \in 1..Len(requests') : \E k \in 1..Len(requests) :
              requests'[i] = requests[k] /\ (requests[k] = requests[1] => requests[1] = 0)
    <3> SUFFICES ASSUME NEW i \in 1..Len(requests')
                 PROVE  requests[i + 1] = requests[1] => requests[1] = 0
      BY <2>1
    <3>1. i + 1 # 1  OBVIOUS
    <3> QED  BY <2>1, <3>1 DEF AnswersInv
  <2>4. requests' = <<>> => Len(requests) = 1  BY <1>3, <1>4, <2>1, EmptySeq
  <2>5. requests' # <<>> => /\ Len(requests') \in 1..Len(requests')
                            /\ requests'[Len(requests')] = requests[Len(requests)]
    <3> SUFFICES ASSUME requests' # <<>>
                 PROVE  /\ Len(requests') \in 1..Len(requests')
                        /\ requests'[Len(requests')] = requests[Len(requests)]
      OBVIOUS
    <3>1. Len(requests') \in Nat \ {0}  BY <1>3, EmptySeq
    <3>2. Len(requests') \in 1..Len(requests') /\ Len(requests') + 1 = Len(requests)
      BY <3>1, <2>1, <1>4
    <3> QED  BY <3>2, <2>1
  <2>6. CASE ServerAnswersPing
    <3> PICK kind \in {"pong", "451"} : Writes(kind, requests[1])
      BY <2>1, <2>6 DEF ServerAnswersPing
    <3>1. requests[1] # 0 /\ requests[1] \in 0..pings
      BY <2>1, <2>6, <1>3, <1>5 DEF ServerAnswersPing
    <3>2. \A i \in 1..Len(sent) : sent[i].token = requests[1] => requests[1] = 0
      BY <2>1 DEF AnswersInv
    <3>3. /\ AnswersInv'
          /\ Len(sent') = Len(sent) + 1 /\ sent'[Len(sent) + 1].token = requests[1]
          /\ \A i \in 1..Len(sent) : sent'[i] = sent[i]
          /\ Ids(net') = Ids(net) \cup {Len(sent) + 1}
      BY <3>1, <3>2, <1>2, <1>3, <2>2, <2>3, WritesAnswer
    <3>4. ASSUME call.at = "recv", call.sync
          PROVE  \/ requests' # <<>> /\ requests'[Len(requests')] = call.token
                 \/ requests' = <<>> /\ Answered'
      <4>1. requests[Len(requests)] = call.token  BY <3>4, <1>2, <2>0 DEF WaitInv
      <4>2. CASE requests' # <<>>  BY <4>1, <4>2, <2>5
      <4>3. CASE requests' = <<>>
        <5>1. requests[1] = call.token  BY <4>1, <4>3, <2>4
        <5>2. \A j \in Ids(net') : ~(j > Len(sent) + 1)
          BY <3>3, <1>6, <1>4
        <5>3. call' = call  BY <1>2 DEF clientVars
        <5>4. Answered'  BY <5>1, <5>2, <5>3, <3>3 DEF Answered
        <5> QED  BY <4>3, <5>4
      <4> QED  BY <4>2, <4>3
    <3>5. WaitInv'  BY <3>4, <1>2 DEF WaitInv, clientVars
    <3> QED  BY <1>1, <3>3, <3>5
  <2>7. CASE ServerHandlesCommand
    <3>1. requests[1] = 0  BY <2>1, <2>7 DEF ServerHandlesCommand
    <3>2. ASSUME call.at = "recv", call.sync
          PROVE  requests' # <<>> /\ requests'[Len(requests')] = call.token
      <4>1. requests[Len(requests)] = call.token /\ call.token # 0
        BY <3>2, <1>2, <2>0 DEF WaitInv
      <4> QED  BY <3>1, <4>1, <2>4, <2>5
    <3>3. WaitInv'  BY <3>2, <1>2 DEF WaitInv, clientVars
    <3>4. CASE \E kind \in LineKinds("reply") : Writes(kind, 0)
      <4> PICK kind \in {"reply", "garbled"} : Writes(kind, 0)  BY <3>4 DEF LineKinds
      <4>1. 0 \in 0..pings  BY <1>3
      <4>2. \A i \in 1..Len(requests') : \E k \in 1..Len(requests) :
              requests'[i] = requests[k] /\ (requests[k] = 0 => 0 = 0)
        BY <2>1
      <4>3. AnswersInv'  BY <4>1, <4>2, <1>2, <1>3, <2>2, WritesAnswer
      <4> QED  BY <1>1, <3>3, <4>3
    <3>5. CASE UNCHANGED <<sent, net>>
      <4>1. \A i \in 1..Len(requests'), j \in 1..Len(sent) :
                requests'[i] = sent[j].token => requests'[i] = 0
        BY SMTT(30), <2>1 DEF AnswersInv
      <4>2. AnswersInv'
        BY <4>1, <1>2, <2>2, <3>5 DEF AnswersInv, AllIn, Written, clientVars
      <4> QED  BY <1>1, <3>3, <4>2
    <3> QED  BY <2>7, <3>4, <3>5 DEF ServerHandlesCommand
  <2> QED  BY <1>7, <2>6, <2>7 DEF Server
<1>8. CASE ServerWrites
  <2> PICK kind \in {"async", "garbled"} : Writes(kind, 0)
    BY <1>8 DEF ServerWrites, LineKinds
  <2>1. requests' = requests  BY <1>8 DEF ServerWrites
  <2>2. /\ AnswersInv'
        /\ sent'[Len(sent) + 1].kind = kind
        /\ \A i \in 1..Len(sent) : sent'[i] = sent[i]
        /\ Ids(net') = Ids(net) \cup {Len(sent) + 1}
    <3>1. 0 \in 0..pings  BY <1>3
    <3>2. \A i, j \in 1..Len(requests') :
              requests'[i] = requests'[j] => requests'[i] = 0 \/ i = j
      BY <2>1 DEF AnswersInv
    <3> QED  BY <3>1, <3>2, <1>2, <1>3, <2>1, WritesAnswer
  <2>3. ASSUME Answered PROVE Answered'
    <3> PICK i \in Ids(data) \cup Ids(net) :
            /\ sent[i].token = call.token
            /\ \A j \in Ids(net) : j > i => sent[j].kind # "reply"
      BY <2>3 DEF Answered
    <3>1. i \in Ids(data') \cup Ids(net') /\ sent'[i].token = call'.token
      BY <1>2, <1>6, <2>2 DEF clientVars
    <3>2. \A j \in Ids(net') : j > i => sent'[j].kind # "reply"
      BY <1>6, <2>2
    <3> QED  BY <3>1, <3>2 DEF Answered
  <2>4. WaitInv'  BY <1>2, <2>1, <2>3 DEF WaitInv, clientVars
  <2> QED  BY <1>1, <2>2, <2>4
<1>9. CASE ServerCloses
  <2>1. peer' = "closed" /\ requests' = <<>> /\ UNCHANGED <<sent, net>>
    BY <1>9 DEF ServerCloses
  <2>2. AnswersInv'
    BY <1>2, <2>1 DEF AnswersInv, AllIn, Written, clientVars
  <2>3. WaitInv'  BY <1>2, <2>1 DEF WaitInv, clientVars
  <2> QED  BY <1>1, <2>2, <2>3
<1> QED  BY <1>7, <1>8, <1>9

\* A request the client sends is a PING of its own, or no PING.
LEMMA SendingKeepsAnswers ==
    ASSUME TypeOK, TokenInv, AnswersInv, NEW r \in {0, pings + 1}, Sends(r),
           pings' \in {pings, pings + 1}, r # 0 => pings' = r,
           UNCHANGED <<data, net, sent>>
    PROVE  /\ AnswersInv'
           /\ peer' = "open" => requests' # <<>> /\ requests'[Len(requests')] = r
<1>1. requests \in Seq(Nat) /\ pings \in Nat /\ sent \in Seq(Message)  BY DEF TypeOK
<1>2. Len(requests) \in Nat /\ r \in Nat  BY <1>1, LenProperties
<1>3. \A i \in 1..Len(requests) : requests[i] \in Nat /\ requests[i] <= pings
  BY <1>1, ElementOfSeq DEF TokenInv
<1>4. \A i \in 1..Len(sent) : sent[i].token \in Nat /\ sent[i].token <= pings
  BY <1>1, TokenOfLine DEF AnswersInv
<1>5. /\ \A i \in 1..Len(sent) :
            /\ sent[i].id = i
            /\ sent[i].token <= pings'
            /\ sent[i].token # 0 <=> sent[i].kind \in {"pong", "451"}
      /\ (AllIn(data, Written) /\ AllIn(net, Written))'
  BY <1>1, <1>4 DEF AnswersInv, AllIn, Written
<1>6. CASE requests' = requests /\ peer # "open" /\ peer' # "open"
  BY <1>5, <1>6 DEF AnswersInv
<1>7. CASE requests' = Append(requests, r)
  <2>1. /\ Len(requests') = Len(requests) + 1 /\ requests' # <<>>
        /\ \A i \in 1..Len(requests) : requests'[i] = requests[i]
        /\ requests'[Len(requests) + 1] = r
    BY <1>1, <1>2, <1>7, AppendProperties
  <2>2. \A i \in 1..Len(requests') : i \in 1..Len(requests) \/ i = Len(requests) + 1
    BY <1>2, <2>1
  <2>3. \A i \in 1..Len(requests) : requests[i] = r => r = 0  BY <1>1, <1>3
  <2>4. \A i, j \in 1..Len(requests') :
            requests'[i] = requests'[j] => requests'[i] = 0 \/ i = j
    BY <2>1, <2>2, <2>3 DEF AnswersInv
  <2>5. \A i \in 1..Len(requests'), j \in 1..Len(sent) :
            requests'[i] = sent[j].token => requests'[i] = 0
    <3>1. \A j \in 1..Len(sent) : r = sent[j].token => r = 0  BY <1>1, <1>4
    <3> QED  BY <2>1, <2>2, <3>1 DEF AnswersInv
  <2>6. AnswersInv'  BY <1>5, <2>4, <2>5 DEF AnswersInv
  <2> QED  BY <2>1, <2>6
<1> QED  BY <1>6, <1>7, SendingKeepsClosed

LEMMA EnteringKeepsSync ==
    ASSUME TypeOK, TokenInv, AnswersInv, WaitInv, call.at # "recv",
           NEW single, NEW sync \in BOOLEAN, EntersReceiveLoop(single, sync),
           UNCHANGED <<data, net, sent>>
    PROVE  AnswersInv' /\ WaitInv'
<1>1. CASE /\ sync /\ Sends(pings + 1) /\ pings' = pings + 1
           /\ call' = [at |-> "recv", single |-> single, sync |-> TRUE, token |-> pings + 1]
  <2>1. pings \in Nat  BY DEF TypeOK
  <2>2. /\ AnswersInv'
        /\ peer' = "open" => requests' # <<>> /\ requests'[Len(requests')] = pings + 1
    BY <1>1, SendingKeepsAnswers
  <2>3. WaitInv'  BY <1>1, <2>1, <2>2 DEF WaitInv
  <2> QED  BY <2>2, <2>3
<1>2. CASE /\ call' = [at |-> "recv", single |-> single, sync |-> FALSE, token |-> 0]
           /\ UNCHANGED <<peer, requests, pings>>
  BY <1>2 DEF AnswersInv, AllIn, Written, WaitInv
<1>3. CASE call' = NoCall /\ UNCHANGED <<peer, requests, pings>>
  BY <1>3 DEF AnswersInv, AllIn, Written, WaitInv, NoCall
<1> QED  BY <1>1, <1>2, <1>3 DEF EntersReceiveLoop

\* What recv() returned was written by the server.
LEMMA ReceivedWritten ==
    ASSUME TypeOK, AnswersInv, NEW n \in 0..Len(net), NEW c, Receives(n, c)
    PROVE  /\ AllIn(data \o SubSeq(net, 1, n), Written)
           /\ AllIn(net', Written)
<1>1. net \in Seq(Message) /\ data \in Seq(Message)  BY DEF TypeOK
<1>2. net' = SubSeq(net, n + 1, Len(net))  BY DEF Receives
<1>3. /\ \A i \in 1..Len(net) : net[i] \in Written
      /\ \A i \in 1..Len(data) : data[i] \in Written
  BY DEF AnswersInv, AllIn
<1> QED  BY <1>1, <1>2, <1>3, ReceivedKeeps DEF AllIn

\* A line with the token of the running call, among those it received.
LEMMA AnswerAmong ==
    ASSUME AnswersInv, NEW lines, AllIn(lines, Written), NEW i \in Ids(lines)
    PROVE  \E k \in 1..Len(lines) : lines[k] = sent[i] /\ i \in 1..Len(sent)
<1> PICK k \in 1..Len(lines) : i = lines[k].id  BY DEF Ids
<1> PICK j \in 1..Len(sent) : lines[k] = sent[j]  BY DEF AllIn, Written
<1>1. j = i  BY DEF AnswersInv
<1> QED  BY <1>1

\* The end of a synchronized call on an open connection: the chunk has its
\* PONG, so nothing was left to answer, and no reply is left in the socket.
LEMMA PongIsLast ==
    ASSUME SyncInv, NEW n \in 0..Len(net), Receives(n, "none"),
           GotPong(data \o SubSeq(net, 1, n)), call.sync, peer = "open"
    PROVE  /\ requests = <<>>
           /\ \A i \in 1..Len(net') : net'[i].kind # "reply"
<1> DEFINE lines == data \o SubSeq(net, 1, n)
<1>1. TypeOK /\ OrderInv /\ AnswersInv /\ call.at = "recv"
  BY DEF SyncInv, MockInv, TypeOKRoutine, Receives
<1>2. /\ lines \in Seq(Message) /\ net' \in Seq(Message)
      /\ Ids(lines) \cup Ids(net') = Ids(data) \cup Ids(net)
      /\ Ids(net') \subseteq Ids(net) /\ Precede(Ids(lines), Ids(net'))
  BY <1>1, OrderOfReceived
<1>3. AllIn(lines, Written) /\ AllIn(net', Written)  BY <1>1, ReceivedWritten
<1> HIDE DEF lines
<1>4. PICK p \in 1..Len(lines) : lines[p].token = call.token
  BY DEF lines, GotPong, IsOwnPong
<1>5. PICK k \in 1..Len(sent) : lines[p] = sent[k]  BY <1>3 DEF AllIn, Written
<1>6. sent[k].id = k /\ k \in Ids(lines)
  <2>1. sent[k].id = k  BY <1>1 DEF AnswersInv
  <2> QED  BY <2>1, <1>5 DEF Ids
<1>7. call.token # 0 /\ pings # 0  BY <1>1 DEF SyncInv, WaitInv
<1>8. \/ requests # <<>> /\ requests[Len(requests)] = call.token
      \/ requests = <<>> /\ Answered
  BY <1>1 DEF SyncInv, WaitInv
<1>9. ~(requests # <<>> /\ requests[Len(requests)] = call.token)
  <2> SUFFICES ASSUME requests # <<>>, requests[Len(requests)] = call.token PROVE FALSE
    OBVIOUS
  <2>1. requests \in Seq(Nat)  BY <1>1 DEF TypeOK
  <2>2. Len(requests) \in 1..Len(requests)  BY <2>1, EmptySeq
  <2> QED  BY <2>2, <1>1, <1>4, <1>5, <1>7 DEF AnswersInv
<1>10. PICK i \in Ids(data) \cup Ids(net) :
          /\ sent[i].token = call.token
          /\ \A j \in Ids(net) : j > i => sent[j].kind # "reply"
  BY <1>8, <1>9 DEF Answered
<1>11. i \in 1..Len(sent)  BY <1>1 DEF OrderInv
<1>12. i = k  BY <1>1, <1>4, <1>5, <1>7, <1>10, <1>11 DEF AnswersInv
<1>13. ASSUME NEW j \in 1..Len(net') PROVE net'[j].kind # "reply"
  <2>1. PICK l \in 1..Len(sent) : net'[j] = sent[l]  BY <1>3 DEF AllIn, Written
  <2>2. sent[l].id = l /\ l \in Ids(net')
    <3>1. sent[l].id = l  BY <1>1 DEF AnswersInv
    <3> QED  BY <3>1, <2>1 DEF Ids
  <2>3. k < l  BY <1>2, <1>6, <2>2 DEF Precede
  <2> QED  BY <1>2, <1>10, <1>12, <2>1, <2>2, <2>3
<1> QED  BY <1>8, <1>9, <1>13

LEMMA AnswersStay ==
    ASSUME AnswersInv, UNCHANGED <<sent, requests, pings>>,
           AllIn(data', Written), AllIn(net', Written)
    PROVE  AnswersInv'
<1>1. Written' = Written  BY DEF Written
<1>2. AllIn(data, Written)' /\ AllIn(net, Written)'  BY <1>1 DEF AllIn
<1> QED  BY <1>2 DEF AnswersInv

LEMMA ClientKeepsSync ==
    ASSUME SyncInv, Client, endSeen' = (endSeen \/ MeetsEnd),
           UNCHANGED <<routine, outcome, closedBefore>>
    PROVE  SyncInv'
<1> USE DEF SyncInv
<1>1. MockInv'  BY ClientKeepsOrder
<1>2. TypeOK /\ TokenInv /\ OrderInv  BY DEF MockInv, TypeOKRoutine, IInv
<1>3. CASE ReceivePart
  <2> PICK n \in 0..Len(net), c \in Cuts :
          /\ Receives(n, c)
          /\ data' = data \o SubSeq(net, 1, n)
          /\ UNCHANGED <<inbuffer, call, messages, result, delivered>>
    BY <1>3 DEF ReceivePart
  <2>1. UNCHANGED serverVars  BY DEF Receives
  <2>2. AllIn(data', Written) /\ AllIn(net', Written)  BY <1>2, ReceivedWritten
  <2>3. AnswersInv'  BY <2>1, <2>2, AnswersStay DEF serverVars
  <2>4. /\ Ids(data') \cup Ids(net') = Ids(data) \cup Ids(net)
        /\ Ids(net') \subseteq Ids(net)
    BY <1>2, OrderOfReceived
  <2>5. Answered => Answered'  BY <2>1, <2>4 DEF Answered, serverVars
  <2>6. WaitInv'  BY <2>1, <2>5 DEF WaitInv, serverVars
  <2> QED  BY <1>1, <2>3, <2>6
<1>4. CASE ReceiveChunk
  <2> PICK n \in 0..Len(net) :
          /\ Receives(n, "none")
          /\ data' = <<>>
          /\ \/ call'.at # "recv"
             \/ /\ call.sync /\ ~GotPong(data \o SubSeq(net, 1, n))
                /\ ~HasKind(data \o SubSeq(net, 1, n), "451")
                /\ UNCHANGED <<inbuffer, call, result, delivered>>
    BY <1>2, <1>4 DEF ReceiveChunk, Returns, Raises, NoCall, TypeOK
  <2> DEFINE lines == data \o SubSeq(net, 1, n)
  <2>1. UNCHANGED serverVars  BY DEF Receives
  <2>2. AllIn(lines, Written) /\ AllIn(net', Written)  BY <1>2, ReceivedWritten
  <2>3. AnswersInv'
    <3>1. AllIn(data', Written)  BY DEF AllIn
    <3> QED  BY <2>1, <2>2, <3>1, AnswersStay DEF serverVars
  <2>4. CASE call'.at # "recv"  BY <1>1, <2>3, <2>4 DEF WaitInv
  <2>5. CASE /\ call.sync /\ ~GotPong(lines) /\ ~HasKind(lines, "451") /\ call' = call
    <3>1. /\ Ids(lines) \cup Ids(net') = Ids(data) \cup Ids(net)
          /\ Ids(net') \subseteq Ids(net)
      BY <1>2, OrderOfReceived
    <3>2. call.at = "recv" /\ call.token # 0  BY <1>2, <2>5 DEF Receives, WaitInv, TypeOK
    <3> HIDE DEF lines
    <3>3. ASSUME NEW i \in Ids(lines), sent[i].token = call.token PROVE FALSE
      <4> PICK k \in 1..Len(lines) : lines[k] = sent[i] /\ i \in 1..Len(sent)
        BY <2>2, AnswerAmong
      <4>1. sent[i].kind \in {"pong", "451"}  BY <3>2, <3>3 DEF AnswersInv
      <4> QED  BY <4>1, <2>5, <3>3 DEF GotPong, IsOwnPong, HasKind
    <3>4. ASSUME Answered PROVE Answered'
      <4> PICK i \in Ids(data) \cup Ids(net) :
              /\ sent[i].token = call.token
              /\ \A j \in Ids(net) : j > i => sent[j].kind # "reply"
        BY <3>4 DEF Answered
      <4>1. i \in Ids(net')  BY <3>1, <3>3
      <4> QED  BY <4>1, <2>1, <2>5, <3>1 DEF Answered, serverVars
    <3>5. WaitInv'  BY <2>1, <2>5, <3>4 DEF WaitInv, serverVars
    <3> QED  BY <1>1, <2>3, <3>5
  <2> QED  BY <2>4, <2>5
<1>5. CASE ReceiveTimeout \/ ReceiveEnd
  <2>1. UNCHANGED <<net, serverVars>> /\ data' = <<>> /\ call'.at # "recv"
    BY <1>2, <1>5 DEF ReceiveTimeout, ReceiveEnd, Returns, Raises, NoCall, TypeOK
  <2>2. AnswersInv'  BY <2>1 DEF AnswersInv, AllIn, Written, serverVars
  <2> QED  BY <1>1, <2>1, <2>2 DEF WaitInv
<1>6. CASE GetMessageRefills
  <2>1. /\ call.at # "recv" /\ call.sync \in BOOLEAN /\ EntersReceiveLoop(TRUE, call.sync)
        /\ UNCHANGED <<data, net, sent>>
    BY <1>2, <1>6 DEF GetMessageRefills, TypeOK
  <2> QED  BY <1>1, <1>2, <2>1, EnteringKeepsSync
<1>7. CASE GetMessagePops \/ GetMessageFails
  <2>1. UNCHANGED <<net, serverVars>> /\ data' \in {data, <<>>} /\ call'.at # "recv"
    BY <1>2, <1>7 DEF GetMessagePops, GetMessageFails, Raises, NoCall, TypeOK
  <2>2. AnswersInv'  BY <2>1 DEF AnswersInv, AllIn, Written, serverVars
  <2> QED  BY <1>1, <2>1, <2>2 DEF WaitInv
<1> QED  BY <1>3, <1>4, <1>5, <1>6, <1>7 DEF Client

LEMMA StepSyncInv == SyncInv /\ [NextRoutine]_allVars => SyncInv'
<1> SUFFICES ASSUME SyncInv, [NextRoutine]_allVars PROVE SyncInv'  OBVIOUS
<1>1. MockInv'  BY StepMockInv DEF SyncInv
<1>2. TypeOK /\ TokenInv /\ AnswersInv /\ WaitInv
  BY DEF SyncInv, MockInv, TypeOKRoutine, IInv
<1>3. CASE (Server \/ ServerWrites \/ ServerCloses) /\ UNCHANGED routineVars
  BY <1>3, ServerKeepsSync
<1>4. CASE /\ Client /\ endSeen' = (endSeen \/ MeetsEnd)
           /\ UNCHANGED <<routine, outcome, closedBefore>>
  BY <1>4, ClientKeepsSync
<1>5. CASE SendLine
  <2>1. call.at = "idle" /\ UNCHANGED <<call, data, net, sent, pings>>
    BY <1>5 DEF SendLine
  <2>2. AnswersInv'
    <3>1. CASE Sends(0)  BY <3>1, <1>2, <2>1, SendingKeepsAnswers
    <3>2. CASE UNCHANGED <<peer, requests>>
      BY <3>2, <1>2, <2>1 DEF AnswersInv, AllIn, Written
    <3> QED  BY <1>5, <3>1, <3>2 DEF SendLine
  <2> QED  BY <1>1, <2>1, <2>2 DEF WaitInv, SyncInv
<1>6. CASE CallGetMessages
  <2> PICK sync \in BOOLEAN : EntersReceiveLoop(FALSE, sync)
    BY <1>6 DEF CallGetMessages
  <2>1. call.at # "recv" /\ UNCHANGED <<data, net, sent>>  BY <1>6 DEF CallGetMessages
  <2> QED  BY <1>1, <1>2, <2>1, EnteringKeepsSync DEF SyncInv
<1>7. CASE CallAssertDisconnected \/ FirstCallReturned
  <2>1. /\ call.at # "recv" /\ EntersReceiveLoop(FALSE, TRUE)
        /\ UNCHANGED <<data, net, sent>>
    BY <1>7 DEF CallAssertDisconnected, FirstCallReturned, RoutineGetsMessages
  <2> QED  BY <1>1, <1>2, <2>1, EnteringKeepsSync DEF SyncInv
<1>8. CASE CallGetMessage \/ SecondCallReturned \/ CallRaised
  <2>1. /\ call'.at # "recv"
        /\ UNCHANGED <<data, net, sent, requests, pings>>
    BY <1>8 DEF CallGetMessage, SecondCallReturned, CallRaised, vars, clientVars, serverVars
  <2>2. AnswersInv'  BY <1>2, <2>1 DEF AnswersInv, AllIn, Written
  <2> QED  BY <1>1, <2>1, <2>2 DEF WaitInv, SyncInv
<1>9. CASE UNCHANGED allVars
  <2>1. UNCHANGED <<call, data, net, sent, requests, pings, peer>>
    BY <1>9 DEF allVars, vars, clientVars, serverVars
  <2>2. AnswersInv'  BY <1>2, <2>1 DEF AnswersInv, AllIn, Written
  <2>3. Answered => Answered'  BY <2>1 DEF Answered, Ids
  <2>4. WaitInv'  BY <1>2, <2>1, <2>3 DEF WaitInv
  <2> QED  BY <1>1, <2>2, <2>4 DEF SyncInv
<1> QED  BY <1>3, <1>4, <1>5, <1>6, <1>7, <1>8, <1>9 DEF NextRoutine

LEMMA SyncInvariant == SpecRoutine => []SyncInv
BY InitSyncInv, StepSyncInv, PTL DEF SpecRoutine

\* A synchronized call on a connection that is up ends with every request
\* answered and no answer left in the socket, for any number of requests.
THEOREM SyncCaptures == SpecRoutine => SyncCapturesReplies
<1> DEFINE A == call.at = "recv" /\ call.sync /\ call'.at \in {"idle", "filled"}
                /\ result' \notin Exceptions /\ peer = "open"
                => /\ requests = <<>>
                   /\ \A i \in 1..Len(net') : net'[i].kind # "reply"
<1>1. ASSUME SyncInv, [NextRoutine]_allVars PROVE [A]_vars
  <2> SUFFICES ASSUME call.at = "recv", call.sync, call'.at \in {"idle", "filled"},
                      result' \notin Exceptions, peer = "open"
               PROVE  /\ requests = <<>>
                      /\ \A i \in 1..Len(net') : net'[i].kind # "reply"
    OBVIOUS
  <2>1. TypeOK  BY <1>1 DEF SyncInv, MockInv, TypeOKRoutine
  <2>2. Client
    <3>1. ~(Server \/ ServerWrites \/ ServerCloses \/ UNCHANGED allVars)
      BY DEF Server, ServerAnswersPing, ServerHandlesCommand, ServerWrites, ServerCloses,
         clientVars, allVars, vars
    <3>2. ~(SendLine \/ CallGetMessages \/ CallGetMessage)
      BY DEF SendLine, CallGetMessages, CallGetMessage
    <3>3. ~(CallAssertDisconnected \/ FirstCallReturned \/ SecondCallReturned \/ CallRaised)
      BY DEF CallAssertDisconnected, FirstCallReturned, SecondCallReturned, CallRaised
    <3> QED  BY <1>1, <3>1, <3>2, <3>3 DEF NextRoutine
  <2>3. ReceiveChunk
    <3>1. ~ReceivePart  BY DEF ReceivePart
    <3>2. ~ReceiveTimeout  BY DEF ReceiveTimeout
    <3>3. ~ReceiveEnd  BY DEF ReceiveEnd, AtEnd
    <3>4. ~(GetMessageRefills \/ GetMessagePops \/ GetMessageFails)
      BY DEF GetMessageRefills, GetMessagePops, GetMessageFails
    <3> QED  BY <2>2, <3>1, <3>2, <3>3, <3>4 DEF Client
  <2>4. PICK n \in 0..Len(net) :
            Receives(n, "none") /\ GotPong(data \o SubSeq(net, 1, n))
    <3>1. ~Raises("UnicodeDecodeError") /\ ~Raises("ValueError")
      BY DEF Raises, Exceptions
    <3> QED  BY <2>3, <3>1 DEF ReceiveChunk
  <2> QED  BY <1>1, <2>4, PongIsLast
<1>2. SpecRoutine => [][A]_vars  BY <1>1, SyncInvariant, PTL DEF SpecRoutine
<1> QED  BY <1>2 DEF SyncCapturesReplies

-----------------------------------------------------------------------------
(* The waits of the receive loop, as long as no chunk ends between CR and LF. *)

\* What recv() returned ends with a line, or within one that has more to come.
CutInv ==
    /\ cut \in {"none", "body"}
    /\ net = <<>> => cut = "none"
    /\ cut = "none" => data = <<>>

LEMMA StepCutInv ==
    ASSUME ~SplitCRLF, TypeOK, CutInv, [NextRoutine]_allVars
    PROVE  CutInv'
<1>1. sent \in Seq(Message) /\ net \in Seq(Message) /\ Len(net) \in Nat
  BY LenProperties DEF TypeOK
<1>2. ASSUME NEW kind, NEW token, Writes(kind, token), UNCHANGED <<cut, clientVars>>
      PROVE  CutInv'
  <2>1. net' # <<>>
    <3> DEFINE line == [kind |-> kind, id |-> Len(sent) + 1, token |-> token]
    <3>1. net' = Append(net, line)  BY <1>2 DEF Writes
    <3> HIDE DEF line
    <3>2. Len(Append(net, line)) = Len(net) + 1  BY <1>1
    <3> QED  BY <1>1, <3>1, <3>2
  <2> QED  BY <1>2, <2>1 DEF CutInv, clientVars
<1>3. CASE Server \/ ServerWrites \/ ServerCloses
  <2>1. UNCHANGED <<cut, clientVars>> /\ (UNCHANGED net \/ \E kind, token : Writes(kind, token))
    BY <1>3 DEF Server, ServerAnswersPing, ServerHandlesCommand, ServerWrites, ServerCloses
  <2>2. CASE UNCHANGED net  BY <2>1, <2>2 DEF CutInv, clientVars
  <2> QED  BY <1>2, <2>1, <2>2
<1>4. CASE ReceivePart
  <2> PICK n \in 0..Len(net), c \in Cuts : Receives(n, c) /\ ~Terminated(n, c)
    BY <1>4 DEF ReceivePart
  <2>1. c = "body" /\ n # Len(net)  BY DEF Receives, Terminated, CutInv, Cuts
  <2>2. net' # <<>>
    <3>1. Len(net') = Len(net) - n  BY <1>1, RestOf DEF Receives
    <3> QED  BY <1>1, <2>1, <3>1
  <2>3. cut' = "body"  BY <2>1 DEF Receives
  <2> QED  BY <2>2, <2>3 DEF CutInv
<1>5. CASE ReceiveChunk
  <2>1. cut' = "none" /\ data' = <<>>
    BY <1>5 DEF ReceiveChunk, Receives, Returns, Raises
  <2> QED  BY <2>1 DEF CutInv
<1>6. CASE ~(Server \/ ServerWrites \/ ServerCloses \/ ReceivePart \/ ReceiveChunk)
  <2>1. UNCHANGED <<net, cut>> /\ data' \in {data, <<>>}
    <3>1. CASE ReceiveTimeout \/ ReceiveEnd \/ GetMessageRefills \/ GetMessagePops \/ GetMessageFails
      BY <3>1 DEF ReceiveTimeout, ReceiveEnd, GetMessageRefills, GetMessagePops, GetMessageFails,
         Returns, Raises
    <3>2. CASE \/ SendLine \/ CallGetMessages \/ CallGetMessage \/ CallAssertDisconnected
               \/ FirstCallReturned \/ SecondCallReturned \/ CallRaised \/ UNCHANGED allVars
      BY <3>2 DEF SendLine, CallGetMessages, CallGetMessage, CallAssertDisconnected, FirstCallReturned,
         SecondCallReturned, CallRaised, RoutineGetsMessages, allVars, vars, clientVars
    <3> QED  BY <1>6, <3>1, <3>2 DEF NextRoutine, Client
  <2> QED  BY <2>1 DEF CutInv
<1> QED  BY <1>3, <1>4, <1>5, <1>6

LEMMA CutInvariant == ASSUME ~SplitCRLF PROVE SpecRoutine => [](SyncInv /\ CutInv)
<1>1. InitRoutine => CutInv  BY DEF InitRoutine, Init, CutInv
<1>2. SyncInv /\ CutInv /\ [NextRoutine]_allVars => CutInv'
  BY StepCutInv DEF SyncInv, MockInv, TypeOKRoutine
<1> QED  BY <1>1, <1>2, InitSyncInv, StepSyncInv, PTL DEF SpecRoutine

\* Calls that have a reason to end: all but an unsynchronized getMessage().
Limited == call.at = "recv" /\ (call.sync \/ ~call.single)

\* Such a call does not wait for nothing: recv() has something to return, or
\* the server has its PING, or the socket has a timeout that ends the call.
SomethingIsDue ==
    Limited => \/ net # <<>>
               \/ peer # "open"
               \/ call.sync /\ requests # <<>> /\ requests[Len(requests)] = call.token
               \/ ~call.sync /\ data = <<>> /\ cut = "none"

\* A call that may end is never left waiting for a PONG it already has, nor for
\* one that nobody will send: recv(), the server or the timeout has a step.
THEOREM CallsAreAnswered == ASSUME ~SplitCRLF PROVE SpecRoutine => []SomethingIsDue
<1>1. ASSUME SyncInv, CutInv PROVE SomethingIsDue
  <2> SUFFICES ASSUME Limited, net = <<>>, peer = "open"
               PROVE  \/ call.sync /\ requests # <<>> /\ requests[Len(requests)] = call.token
                      \/ ~call.sync /\ data = <<>> /\ cut = "none"
    BY DEF SomethingIsDue
  <2>1. data = <<>> /\ cut = "none"  BY <1>1 DEF CutInv
  <2>2. ~Answered  BY <2>1, NoIds DEF Answered
  <2>3. call.sync \in BOOLEAN  BY <1>1 DEF SyncInv, MockInv, TypeOKRoutine, TypeOK
  <2> QED  BY <1>1, <2>1, <2>2, <2>3 DEF SyncInv, WaitInv, Limited
<1> QED  BY <1>1, CutInvariant, PTL

\* Steps of the server and of recv(), at most, until nothing is left to answer
\* and to read.
LeftToRead(asked, lines, c) == 3 * Len(asked) + 2 * Len(lines) - (IF c = "body" THEN 1 ELSE 0)

\* While a call receives, each step of the server or of the client ends it or
\* takes one from what is left.  Only a line nobody asked for adds to it.
ReadingShrinks ==
    call.at = "recv" =>
        /\ LeftToRead(requests, net, cut) \in Nat
        /\ Server \/ Client =>
              \/ call'.at # "recv"
              \/ LeftToRead(requests', net', cut') < LeftToRead(requests, net, cut)
        /\ ServerWrites =>
              LeftToRead(requests', net', cut') = LeftToRead(requests, net, cut) + 2
        /\ ~ServerWrites =>
              LeftToRead(requests', net', cut') <= LeftToRead(requests, net, cut)

LEMMA Lengths ==
    TypeOK => /\ Len(requests) \in Nat /\ Len(net) \in Nat
              /\ requests # <<>> => Len(Tail(requests)) = Len(requests) - 1 /\ Len(requests) > 0
              /\ net # <<>> => Len(net) > 0
<1> SUFFICES ASSUME TypeOK
             PROVE  /\ Len(requests) \in Nat /\ Len(net) \in Nat
                    /\ requests # <<>> => Len(Tail(requests)) = Len(requests) - 1 /\ Len(requests) > 0
                    /\ net # <<>> => Len(net) > 0
  OBVIOUS
<1>1. requests \in Seq(Nat) /\ net \in Seq(Message)  BY DEF TypeOK
<1>2. Len(requests) \in Nat /\ Len(net) \in Nat  BY <1>1, LenProperties
<1>3. (requests # <<>> => Len(requests) > 0) /\ (net # <<>> => Len(net) > 0)
  BY <1>1, <1>2, EmptySeq
<1>4. requests # <<>> => Len(Tail(requests)) = Len(requests) - 1  BY <1>1, HeadTailProperties
<1> QED  BY <1>2, <1>3, <1>4

\* A line that is written is one more to read.
LEMMA WritesOne ==
    ASSUME TypeOK, NEW kind, NEW token, Writes(kind, token)
    PROVE  Len(net') = Len(net) + 1
<1> DEFINE line == [kind |-> kind, id |-> Len(sent) + 1, token |-> token]
<1>1. net' = Append(net, line)  BY DEF Writes
<1>2. net \in Seq(Message)  BY DEF TypeOK
<1> HIDE DEF line
<1>3. Len(Append(net, line)) = Len(net) + 1  BY <1>2
<1> QED  BY <1>1, <1>3

LEMMA ReceivingShortens ==
    ASSUME ~SplitCRLF, TypeOK, CutInv, NEW n \in 0..Len(net), NEW c \in Cuts, Receives(n, c)
    PROVE  /\ LeftToRead(requests', net', cut') < LeftToRead(requests, net, cut)
           /\ LeftToRead(requests', net', cut') <= LeftToRead(requests, net, cut)
<1>1. Len(net) \in Nat /\ Len(requests) \in Nat /\ net \in Seq(Message)
  BY Lengths DEF TypeOK
<1>2. requests' = requests /\ cut' = c  BY DEF Receives, serverVars
<1>3. Len(net') = Len(net) - n  BY <1>1, RestOf DEF Receives
<1>4. c \in {"none", "body"} /\ cut \in {"none", "body"}  BY DEF Receives, Cuts, CutInv
<1>5. n = 0 => cut = "none" /\ c = "body"  BY <1>4 DEF Receives
<1> QED  BY <1>1, <1>2, <1>3, <1>4, <1>5 DEF LeftToRead

\* What a call has to read shrinks with each step of it and of the server that
\* answers: with SomethingIsDue, the receive loop ends unless the server goes
\* on for ever with lines nobody asked for.
THEOREM ReadingIsShort == ASSUME ~SplitCRLF PROVE SpecRoutine => [][ReadingShrinks]_allVars
<1>1. ASSUME SyncInv, CutInv, [NextRoutine]_allVars PROVE [ReadingShrinks]_allVars
  <2> SUFFICES ASSUME call.at = "recv", NextRoutine PROVE ReadingShrinks
    BY <1>1 DEF ReadingShrinks
  <2> DEFINE before == LeftToRead(requests, net, cut)
             after == LeftToRead(requests', net', cut')
  <2>1. TypeOK  BY <1>1 DEF SyncInv, MockInv, TypeOKRoutine
  <2>2. /\ Len(requests) \in Nat /\ Len(net) \in Nat
        /\ requests # <<>> => Len(Tail(requests)) = Len(requests) - 1 /\ Len(requests) > 0
        /\ net # <<>> => Len(net) > 0
    BY <2>1, Lengths
  <2>3. before \in Nat
    <3>1. cut = "body" => Len(net) > 0  BY <1>1, <2>2 DEF CutInv
    <3> QED  BY <2>2, <3>1 DEF LeftToRead
  <2>4. CASE Server
    <3>1. requests # <<>> /\ requests' = Tail(requests) /\ cut' = cut
          /\ (net' = net \/ \E kind, token : Writes(kind, token))
      BY <2>4 DEF Server, ServerAnswersPing, ServerHandlesCommand
    <3>2. Len(net') \in {Len(net), Len(net) + 1}  BY <2>1, <3>1, WritesOne
    <3>3. after < before  BY <2>2, <3>1, <3>2 DEF LeftToRead
    <3>4. ~ServerWrites  BY <2>2, <3>1 DEF ServerWrites
    <3>5. after <= before  BY <2>2, <2>3, <3>1, <3>2 DEF LeftToRead
    <3> QED  BY <2>3, <3>3, <3>4, <3>5 DEF ReadingShrinks
  <2>5. CASE ServerWrites
    <3>1. requests' = requests /\ cut' = cut /\ \E kind, token : Writes(kind, token)
      BY <2>5 DEF ServerWrites
    <3>2. Len(net') = Len(net) + 1  BY <2>1, <3>1, WritesOne
    <3>3. after = before + 2  BY <2>2, <3>1, <3>2 DEF LeftToRead
    <3>4. ~Server
      BY <2>2, <3>1 DEF Server, ServerAnswersPing, ServerHandlesCommand
    <3>5. ~Client
      <4>1. ~(ReceivePart \/ ReceiveChunk \/ ReceiveTimeout \/ ReceiveEnd)
        <5>1. ~\E n \in 0..Len(net) : \E c : Receives(n, c)
          <6> SUFFICES ASSUME NEW n \in 0..Len(net), NEW c, Receives(n, c) PROVE FALSE
            OBVIOUS
          <6>1. Len(net') = Len(net) - n  BY <2>1, <2>2, RestOf DEF Receives, TypeOK
          <6> QED  BY <2>2, <3>2, <6>1
        <5>2. net' # net  BY <2>2, <3>2
        <5> QED  BY <5>1, <5>2 DEF ReceivePart, ReceiveChunk, ReceiveTimeout, ReceiveEnd
      <4> QED  BY <4>1 DEF Client, GetMessageRefills, GetMessagePops, GetMessageFails
    <3> QED  BY <2>3, <2>5, <3>3, <3>4, <3>5 DEF ReadingShrinks
  <2>6. CASE ServerCloses
    <3>1. requests' = <<>> /\ UNCHANGED <<net, cut, clientVars>>  BY <2>6 DEF ServerCloses
    <3>2. after <= before  BY <2>2, <2>3, <3>1 DEF LeftToRead
    <3>3. ~Server /\ ~Client /\ ~ServerWrites
      <4>1. peer' # peer /\ peer' = "closed"  BY <2>6 DEF ServerCloses
      <4>2. ~Server /\ ~ServerWrites
        BY <4>1 DEF Server, ServerAnswersPing, ServerHandlesCommand, ServerWrites
      <4>3. ~(ReceivePart \/ ReceiveChunk \/ ReceiveTimeout \/ ReceiveEnd)
        BY <4>1 DEF ReceivePart, ReceiveChunk, ReceiveTimeout, ReceiveEnd, Receives, serverVars
      <4> QED  BY <4>2, <4>3 DEF Client, GetMessageRefills, GetMessagePops, GetMessageFails
    <3> QED  BY <2>3, <3>2, <3>3 DEF ReadingShrinks
  <2>7. CASE Client
    <3>1. ~ServerWrites
      <4> SUFFICES ASSUME ServerWrites PROVE FALSE  OBVIOUS
      <4>1. Len(net') = Len(net) + 1  BY <2>1, WritesOne DEF ServerWrites
      <4>2. CASE ReceiveTimeout \/ ReceiveEnd  BY <2>2, <4>1, <4>2 DEF ReceiveTimeout, ReceiveEnd
      <4>3. ASSUME NEW n \in 0..Len(net), NEW c, Receives(n, c) PROVE FALSE
        <5>1. Len(net') = Len(net) - n  BY <2>1, <2>2, <4>3, RestOf DEF Receives, TypeOK
        <5> QED  BY <2>2, <4>1, <5>1
      <4> QED  BY <2>7, <4>2, <4>3 DEF Client, ReceivePart, ReceiveChunk, GetMessageRefills,
                  GetMessagePops, GetMessageFails
    <3>2. CASE ReceivePart \/ ReceiveChunk
      <4>1. \E n \in 0..Len(net), c \in Cuts : Receives(n, c)
        BY <3>2 DEF ReceivePart, ReceiveChunk, Cuts
      <4>2. after < before /\ after <= before  BY <1>1, <2>1, <4>1, ReceivingShortens
      <4> QED  BY <2>3, <3>1, <4>2 DEF ReadingShrinks
    <3>3. CASE ReceiveTimeout \/ ReceiveEnd
      <4>1. UNCHANGED <<net, cut, requests>> /\ call'.at # "recv"
        BY <2>1, <3>3 DEF ReceiveTimeout, ReceiveEnd, Returns, Raises, NoCall, TypeOK, serverVars
      <4>2. after <= before  BY <2>3, <4>1
      <4> QED  BY <2>3, <3>1, <4>1, <4>2 DEF ReadingShrinks
    <3> QED  BY <2>7, <3>2, <3>3 DEF Client, GetMessageRefills, GetMessagePops, GetMessageFails
  <2> QED
    BY <2>4, <2>5, <2>6, <2>7 DEF NextRoutine, SendLine, CallGetMessages, CallGetMessage,
       CallAssertDisconnected, FirstCallReturned, SecondCallReturned, CallRaised
<1> QED  BY <1>1, CutInvariant, PTL DEF SpecRoutine

-----------------------------------------------------------------------------
(* The channel. *)

\* What the channel asks of the server, of recv(), and of the test.
Regular == CarefulCallers /\ ~SplitCRLF /\ ~Garbled /\ ~Unregistered

\* Under it no line is a cause to raise, and an unsynchronized getMessages()
\* has nothing to forget.
RegularInv ==
    /\ \A i \in 1..Len(sent) : sent[i].kind \notin {"garbled", "451"}
    /\ CutInv
    /\ call.at = "recv" /\ ~call.single /\ ~call.sync => messages = <<>>

ChannelInv == SyncInv /\ RegularInv

LEMMA InitChannelInv == InitRoutine => ChannelInv
<1> SUFFICES ASSUME InitRoutine PROVE ChannelInv  OBVIOUS
<1>1. RegularInv  BY DEF InitRoutine, Init, NoCall, RegularInv, CutInv
<1> QED  BY <1>1, InitSyncInv DEF ChannelInv

LEMMA StepRegularInv ==
    ASSUME Regular, ChannelInv, [NextRoutine]_allVars
    PROVE  ChannelInv'
<1> USE DEF ChannelInv, Regular
<1>1. SyncInv' /\ CutInv'
  BY StepSyncInv, StepCutInv DEF RegularInv, SyncInv, MockInv, TypeOKRoutine
<1>2. TypeOK /\ CallInv  BY DEF SyncInv, MockInv, TypeOKRoutine
<1>3. sent \in Seq(Message) /\ Len(sent) \in Nat /\ net \in Seq(Message)
  BY <1>2, LenProperties DEF TypeOK
<1>4. ASSUME NEW kind \in {"reply", "async", "pong"}, NEW token, Writes(kind, token),
             token \in Nat, UNCHANGED <<cut, clientVars>>
      PROVE  RegularInv'
  <2> DEFINE line == [kind |-> kind, id |-> Len(sent) + 1, token |-> token]
  <2>1. line \in Message /\ line.kind = kind  BY <1>3, <1>4 DEF Message
  <2>2. sent' = Append(sent, line) /\ net' = Append(net, line)  BY <1>4 DEF Writes
  <2> HIDE DEF line
  <2>3. /\ Len(sent') = Len(sent) + 1 /\ sent'[Len(sent) + 1] = line
        /\ \A i \in 1..Len(sent) : sent'[i] = sent[i]
    BY <1>3, <2>1, <2>2, AppendProperties
  <2>5. \A i \in 1..Len(sent') : i \in 1..Len(sent) \/ i = Len(sent) + 1
    BY <1>3, <2>3
  <2>6. \A i \in 1..Len(sent') : sent'[i].kind \notin {"garbled", "451"}
    BY <2>1, <2>3, <2>5 DEF RegularInv
  <2> QED  BY <1>1, <1>4, <2>6 DEF RegularInv, clientVars
<1>5. CASE Server \/ ServerWrites \/ ServerCloses
  <2>1. CASE ServerAnswersPing
    <3>1. Writes("pong", Head(requests)) /\ UNCHANGED <<cut, clientVars>>
      BY <2>1 DEF ServerAnswersPing
    <3>2. Head(requests) \in Nat
      BY <1>2, <2>1, HeadTailProperties DEF ServerAnswersPing, TypeOK
    <3> QED  BY <1>1, <1>4, <3>1, <3>2
  <2>2. CASE ServerHandlesCommand
    <3>1. UNCHANGED <<cut, clientVars>>
          /\ (Writes("reply", 0) \/ UNCHANGED <<sent, net>>)
      BY <2>2 DEF ServerHandlesCommand, LineKinds
    <3>2. CASE UNCHANGED <<sent, net>>
      BY <1>1, <3>1, <3>2 DEF RegularInv, clientVars
    <3> QED  BY <1>1, <1>4, <3>1, <3>2
  <2>3. CASE ServerWrites
    <3>1. UNCHANGED <<cut, clientVars>> /\ Writes("async", 0)
      BY <2>3 DEF ServerWrites, LineKinds
    <3> QED  BY <1>1, <1>4, <3>1
  <2>4. CASE ServerCloses
    BY <1>1, <2>4 DEF ServerCloses, RegularInv, clientVars
  <2> QED  BY <1>5, <2>1, <2>2, <2>3, <2>4 DEF Server
<1>6. CASE ReceivePart
  <2>1. UNCHANGED <<call, messages, sent>>
    BY <1>6 DEF ReceivePart, Receives, serverVars
  <2> QED  BY <1>1, <2>1 DEF RegularInv
<1>7. CASE ReceiveChunk
  <2> PICK n \in 0..Len(net) :
          /\ Receives(n, "none") /\ data' = <<>>
          /\ call'.at # "recv" \/ (call.sync /\ UNCHANGED call)
    BY <1>2, <1>7 DEF ReceiveChunk, Returns, Raises, NoCall, TypeOK
  <2>1. cut' = "none" /\ sent' = sent  BY DEF Receives, serverVars
  <2> QED  BY <1>1, <2>1 DEF RegularInv
<1>8. CASE ReceiveTimeout \/ ReceiveEnd \/ GetMessagePops \/ GetMessageFails
  <2>1. /\ UNCHANGED <<net, cut, sent>> /\ data' \in {data, <<>>} /\ call'.at # "recv"
    BY <1>2, <1>8
    DEF ReceiveTimeout, ReceiveEnd, GetMessagePops, GetMessageFails, Returns, Raises,
        NoCall, TypeOK, serverVars
  <2> QED  BY <1>1, <2>1 DEF RegularInv
<1>9. CASE GetMessageRefills
  <2>1. /\ UNCHANGED <<net, cut, sent, data>>
        /\ call'.at # "recv" \/ call'.single
    BY <1>9 DEF GetMessageRefills, EntersReceiveLoop, NoCall
  <2> QED  BY <1>1, <2>1 DEF RegularInv
<1>10. CASE CallGetMessages
  <2>1. /\ UNCHANGED <<net, cut, sent, data>>
        /\ \/ call'.at # "recv" \/ call'.sync
           \/ inbuffer = <<>> /\ messages' = inbuffer
    BY <1>10 DEF CallGetMessages, EntersReceiveLoop, NoCall, BufferedAtStart
  <2> QED  BY <1>1, <2>1 DEF RegularInv
<1>11. CASE CallAssertDisconnected \/ FirstCallReturned
  <2>1. /\ UNCHANGED <<net, cut, sent, data>>
        /\ call'.at # "recv" \/ call'.sync
    BY <1>11
    DEF CallAssertDisconnected, FirstCallReturned, RoutineGetsMessages,
        EntersReceiveLoop, NoCall
  <2> QED  BY <1>1, <2>1 DEF RegularInv
<1>12. CASE SendLine \/ CallGetMessage \/ SecondCallReturned \/ CallRaised \/ UNCHANGED allVars
  <2>1. /\ UNCHANGED <<net, cut, sent, data, messages>>
        /\ UNCHANGED call \/ call'.at # "recv"
    BY <1>12
    DEF SendLine, CallGetMessage, SecondCallReturned, CallRaised,
        allVars, vars, clientVars, serverVars
  <2> QED  BY <1>1, <2>1 DEF RegularInv
<1> QED
  BY <1>5, <1>6, <1>7, <1>8, <1>9, <1>10, <1>11, <1>12 DEF NextRoutine, Client

LEMMA PartsOfConcat ==
    ASSUME NEW a \in Seq(Message), NEW b \in Seq(Message)
    PROVE  LET s == a \o b
           IN  /\ s \in Seq(Message) /\ Len(a) \in 0..Len(s)
               /\ SubSeq(s, 1, Len(a)) = a
               /\ SubSeq(s, Len(a) + 1, Len(s)) = b
<1> DEFINE s == a \o b
<1>1. /\ s \in Seq(Message) /\ Len(s) = Len(a) + Len(b)
      /\ \A i \in 1..(Len(a) + Len(b)) : s[i] = IF i <= Len(a) THEN a[i] ELSE b[i - Len(a)]
  BY ConcatProperties
<1>2. Len(a) \in Nat /\ Len(b) \in Nat  BY LenProperties
<1> HIDE DEF s
<1>3. Len(a) \in 0..Len(s)  BY <1>1, <1>2
<1>4. SubSeq(s, 1, Len(a)) = a
  <2>1. /\ SubSeq(s, 1, Len(a)) \in Seq(Message) /\ Len(SubSeq(s, 1, Len(a))) = Len(a)
        /\ \A i \in 1..Len(a) : SubSeq(s, 1, Len(a))[i] = s[i]
    BY <1>1, <1>3, StartOf
  <2>2. \A i \in 1..Len(a) : s[i] = a[i]  BY <1>1, <1>2
  <2> QED  BY <2>1, <2>2, SeqEqual
<1>5. SubSeq(s, Len(a) + 1, Len(s)) = b
  <2> DEFINE r == SubSeq(s, Len(a) + 1, Len(s))
  <2>1. /\ r \in Seq(Message) /\ Len(r) = Len(s) - Len(a)
        /\ \A i \in 1..(Len(s) - Len(a)) : r[i] = s[Len(a) + i]
    BY <1>1, <1>3, RestOf
  <2> HIDE DEF r
  <2>2. Len(r) = Len(b)  BY <2>1, <1>1, <1>2
  <2>3. ASSUME NEW i \in 1..Len(r) PROVE r[i] = b[i]
    <3>1. /\ Len(a) + i \in 1..(Len(a) + Len(b)) /\ ~(Len(a) + i <= Len(a))
          /\ (Len(a) + i) - Len(a) = i
      BY <2>2, <1>2
    <3>2. s[Len(a) + i] = b[i]  BY <3>1, <1>1
    <3>3. i \in 1..(Len(s) - Len(a))  BY <2>1
    <3> QED  BY <3>2, <3>3, <2>1
  <2>4. r = b  BY <2>1, <2>2, <2>3, SeqEqual
  <2> QED  BY <2>4 DEF r
<1> QED  BY <1>1, <1>3, <1>4, <1>5 DEF s

\* A sequence without the element between x and y.
LEMMA WithoutBetween ==
    ASSUME NEW x \in Seq(Message), NEW m \in Message, NEW y \in Seq(Message)
    PROVE  LET s == Append(x, m) \o y
           IN  /\ s \in Seq(Message) /\ Len(x) + 1 \in 1..Len(s)
               /\ s[Len(x) + 1] = m
               /\ SubSeq(s, 1, (Len(x) + 1) - 1) \o SubSeq(s, (Len(x) + 1) + 1, Len(s))
                     = x \o y
<1> DEFINE s == Append(x, m) \o y
           z == <<m>> \o y
<1>1. /\ Append(x, m) \in Seq(Message) /\ Len(Append(x, m)) = Len(x) + 1
      /\ Append(x, m)[Len(x) + 1] = m
  BY AppendProperties
<1>2. Len(x) \in Nat /\ Len(y) \in Nat /\ <<m>> \in Seq(Message)  BY LenProperties
<1>3. z \in Seq(Message) /\ s = x \o z
  <2>1. z \in Seq(Message)  BY <1>2, ConcatProperties
  <2>2. Append(x, m) = x \o <<m>>  BY AppendIsConcat
  <2> QED  BY <2>1, <2>2, <1>2, ConcatRegroup
<1>4. /\ s \in Seq(Message) /\ Len(s) = Len(x) + 1 + Len(y)
      /\ s[Len(x) + 1] = m
  <2>1. /\ s \in Seq(Message) /\ Len(s) = Len(Append(x, m)) + Len(y)
        /\ \A i \in 1..(Len(Append(x, m)) + Len(y)) :
              s[i] = IF i <= Len(Append(x, m)) THEN Append(x, m)[i]
                     ELSE y[i - Len(Append(x, m))]
    BY <1>1, ConcatProperties
  <2> QED  BY <2>1, <1>1, <1>2
<1>5. SubSeq(s, 1, Len(x)) = x
  <2> HIDE DEF z
  <2> QED  BY <1>3, PartsOfConcat
<1>6. SubSeq(s, (Len(x) + 1) + 1, Len(s)) = y  BY <1>1, PartsOfConcat
<1>7. (Len(x) + 1) - 1 = Len(x) /\ Len(x) + 1 \in 1..Len(s)  BY <1>2, <1>4
<1> HIDE DEF s
<1> QED  BY <1>4, <1>5, <1>6, <1>7 DEF s

\* The lines a test gets from a queue that may have lost a PONG.
LEMMA Delivers ==
    ASSUME NEW a \in Seq(Message), NEW b \in Seq(Message), a \o b \in Channel!Visible,
           delivered' = delivered \o a, Pending' = b
    PROVE  Channel!Deliver
<1> DEFINE q == a \o b
<1>1. /\ q \in Channel!Visible /\ Len(a) \in 0..Len(q)
      /\ SubSeq(q, 1, Len(a)) = a
      /\ SubSeq(q, Len(a) + 1, Len(q)) = b
  BY PartsOfConcat
<1> HIDE DEF q
<1> QED  BY <1>1 DEF Channel!Deliver

\* The queue, while a call runs and while none does.
PendingForms ==
    /\ Pending \in Seq(Message)
    /\ call.at = "recv" => Pending = messages \o (data \o net)
    /\ call.at # "recv" => Pending = inbuffer \o net

LEMMA PendingOf == TypeOK /\ CallInv => PendingForms
<1> SUFFICES ASSUME TypeOK, CallInv PROVE PendingForms  OBVIOUS
<1>1. /\ inbuffer \in Seq(Message) /\ messages \in Seq(Message)
      /\ data \in Seq(Message) /\ net \in Seq(Message)
  BY DEF TypeOK
<1>2. inbuffer \o messages \in Seq(Message) /\ data \o net \in Seq(Message)
  BY <1>1, ConcatProperties
<1>3. (inbuffer \o messages) \o data \in Seq(Message)  BY <1>1, <1>2, ConcatProperties
<1>4. Pending \in Seq(Message)  BY <1>1, <1>3, ConcatProperties DEF Pending
<1>5. CASE call.at = "recv"
  <2>1. inbuffer \o messages = messages  BY <1>1, <1>5, ConcatEmptySeq DEF CallInv
  <2>2. (messages \o data) \o net = messages \o (data \o net)  BY <1>1, ConcatRegroup
  <2> QED  BY <1>4, <1>5, <2>1, <2>2 DEF Pending, PendingForms
<1>6. CASE call.at # "recv"
  <2>1. inbuffer \o messages = inbuffer /\ inbuffer \o data = inbuffer
    BY <1>1, <1>6, ConcatEmptySeq DEF CallInv
  <2> QED  BY <1>4, <1>6, <2>1 DEF Pending, PendingForms
<1> QED  BY <1>5, <1>6

LEMMA PendingOfNext == (TypeOK /\ CallInv)' => PendingForms'
BY PendingOf, PTL

\* A chunk has at most one PONG of the running call, the only line it loses.
LEMMA ChunkLosesPong ==
    ASSUME ChannelInv, NEW n \in 0..Len(net), Receives(n, "none")
    PROVE  LET parsed == messages \o Parsed(data \o SubSeq(net, 1, n))
           IN  /\ parsed \in Seq(Message) /\ net' \in Seq(Message)
               /\ parsed \o net' \in Channel!Visible
<1> DEFINE lines == data \o SubSeq(net, 1, n)
<1>1. TypeOK /\ CallInv /\ OrderInv /\ AnswersInv /\ call.at = "recv"
  BY DEF ChannelInv, SyncInv, MockInv, TypeOKRoutine, Receives
<1>2. /\ lines \in Seq(Message) /\ net' \in Seq(Message) /\ Increasing(lines)
      /\ lines \o net' = data \o net
  BY <1>1, OrderOfReceived
<1>3. AllIn(lines, Written)  BY <1>1, ReceivedWritten
<1>4. messages \in Seq(Message)  BY <1>1 DEF TypeOK
<1> HIDE DEF lines
<1>5. Pending = messages \o (lines \o net')  BY <1>1, <1>2, PendingOf DEF PendingForms
<1>6. Parsed(lines) \in Seq(Message)  BY <1>2, OrderOfParsed
<1>7. messages \o Parsed(lines) \in Seq(Message)  BY <1>4, <1>6, ConcatProperties
<1>8. ASSUME ~GotPong(lines)
      PROVE  (messages \o Parsed(lines)) \o net' \in Channel!Visible
  <2>1. Parsed(lines) = lines  BY <1>2, <1>8, ParsedWithoutPong
  <2>2. (messages \o lines) \o net' = Pending  BY <1>2, <1>4, <1>5, ConcatRegroup
  <2> QED  BY <2>1, <2>2 DEF Channel!Visible
<1>9. ASSUME GotPong(lines)
      PROVE  (messages \o Parsed(lines)) \o net' \in Channel!Visible
  <2> PICK i \in 1..Len(lines) : IsOwnPong(lines[i])  BY <1>9 DEF GotPong
  <2>1. ASSUME NEW j \in 1..Len(lines), IsOwnPong(lines[j]) PROVE j = i
    <3> PICK k \in 1..Len(sent), l \in 1..Len(sent) :
             lines[i] = sent[k] /\ lines[j] = sent[l]
      BY <1>3 DEF AllIn, Written
    <3>1. /\ sent[k].token = call.token /\ sent[l].token = call.token
          /\ sent[k].kind = "pong"
      BY <2>1 DEF IsOwnPong
    <3>2. k = l  BY <3>1, <1>1 DEF AnswersInv
    <3>3. lines[i].id = lines[j].id /\ lines[i].id \in Nat
      <4>1. lines[i] \in Message  BY <1>2, ElementOfSeq
      <4> QED  BY <4>1, <3>2 DEF Message
    <3>4. ~(i < j) /\ ~(j < i)  BY <1>2, <3>3 DEF Increasing
    <3> QED  BY <3>4
  <2> DEFINE f == SubSeq(lines, 1, i - 1)
             g == SubSeq(lines, i + 1, Len(lines))
             m == lines[i]
  <2>2. Parsed(lines) = f \o g  BY <2>1, <1>2, ParsedWithPong
  <2>3. Len(lines) \in Nat /\ i - 1 \in 0..Len(lines) /\ i \in 0..Len(lines) /\ i \in Nat
    BY <1>2, LenProperties
  <2>4. m \in Message /\ m.kind = "pong"  BY <1>2, ElementOfSeq DEF IsOwnPong
  <2>5. f \in Seq(Message)  BY <1>2, <2>3, StartOf
  <2>6. g \in Seq(Message) /\ SubSeq(lines, 1, i) \o g = lines
    BY <1>2, <2>3, OrderOfCut
  <2>7. SubSeq(lines, 1, i) = Append(f, m)
    <3> DEFINE k == i - 1
    <3>1. k \in Nat /\ k + 1 = i /\ 1 <= k + 1 /\ k + 1 <= Len(lines)  BY <2>3
    <3> HIDE DEF k
    <3>2. Append(SubSeq(lines, 1, k), lines[k + 1]) = SubSeq(lines, 1, k + 1)
      BY <3>1, <1>2, GrownByOne
    <3> QED  BY <3>1, <3>2 DEF k
  <2> HIDE DEF f, g, m
  <2> DEFINE x == messages \o f
             y == g \o net'
  <2>8. x \in Seq(Message) /\ y \in Seq(Message)  BY <1>2, <1>4, <2>5, <2>6, ConcatProperties
  <2>9. Pending = Append(x, m) \o y
    <3>1. Append(f, m) \in Seq(Message)  BY <2>4, <2>5, AppendProperties
    <3>2. lines \o net' = Append(f, m) \o y
      <4>1. (Append(f, m) \o g) \o net' = Append(f, m) \o (g \o net')
        BY <3>1, <1>2, <2>6, ConcatRegroup
      <4> QED  BY <4>1, <2>6, <2>7
    <3>3. messages \o (Append(f, m) \o y) = (messages \o Append(f, m)) \o y
      BY <3>1, <1>4, <2>8, ConcatRegroup
    <3>4. Append(x, m) = messages \o Append(f, m)  BY <1>4, <2>4, <2>5, AppendToConcat
    <3> QED  BY <1>5, <3>2, <3>3, <3>4
  <2>10. (messages \o Parsed(lines)) \o net' = x \o y
    <3>1. messages \o (f \o g) = x \o g  BY <1>4, <2>5, <2>6, ConcatRegroup
    <3>2. (x \o g) \o net' = x \o y  BY <1>2, <2>6, <2>8, ConcatRegroup
    <3> QED  BY <3>1, <3>2, <2>2
  <2> HIDE DEF x, y
  <2>11. /\ Len(x) + 1 \in 1..Len(Pending) /\ Pending[Len(x) + 1] = m
         /\ Channel!Without(Pending, Len(x) + 1) = x \o y
    BY <2>4, <2>8, <2>9, WithoutBetween DEF Channel!Without
  <2> QED  BY <2>4, <2>10, <2>11 DEF Channel!Visible
<1> QED  BY <1>2, <1>7, <1>8, <1>9 DEF lines

LEMMA NothingDelivered ==
    ASSUME TypeOK
    PROVE  <<>> \in Seq(Message) /\ delivered = delivered \o <<>>
           /\ \A q \in Seq(Message) : <<>> \o q = q /\ q \o <<>> = q
<1>1. delivered \in Seq(Message)  BY DEF TypeOK
<1> QED  BY <1>1, ConcatEmptySeq

\* Entering the receive loop moves what was buffered, and delivers nothing.
LEMMA EnteringStutters ==
    ASSUME TypeOK, CallInv, TypeOK', CallInv', call.at # "recv",
           NEW single, NEW sync, EntersReceiveLoop(single, sync),
           UNCHANGED <<data, delivered, net>>
    PROVE  UNCHANGED Channel!vars
<1>1. /\ PendingForms /\ PendingForms'  BY PendingOf, PendingOfNext
<1>2. net \in Seq(Message) /\ inbuffer \in Seq(Message)  BY DEF TypeOK
<1>3. CASE call'.at = "recv" /\ messages' = inbuffer
  <2>1. data' = <<>>  BY DEF CallInv
  <2>2. <<>> \o net = net  BY <1>2, ConcatEmptySeq
  <2> QED  BY <1>1, <1>3, <2>1, <2>2 DEF PendingForms, Channel!vars
<1>4. CASE call'.at # "recv" /\ inbuffer' = inbuffer
  BY <1>1, <1>4 DEF PendingForms, Channel!vars
<1> QED  BY <1>3, <1>4 DEF EntersReceiveLoop, NoCall, BufferedAtStart

\* Every step of a call is one of the channel, or none.
LEMMA ClientStep ==
    ASSUME Regular, ChannelInv, ChannelInv', Client
    PROVE  [Channel!Next]_Channel!vars
<1> USE DEF Channel!vars, Channel!Next
<1>1. /\ TypeOK /\ CallInv /\ RegularInv /\ OrderInv /\ AnswersInv /\ TypeOK' /\ CallInv'
  BY DEF ChannelInv, SyncInv, MockInv, TypeOKRoutine
<1>2. /\ Pending \in Seq(Message)
      /\ call.at = "recv" => Pending = messages \o (data \o net)
      /\ call.at # "recv" => Pending = inbuffer \o net
  BY <1>1, PendingOf DEF PendingForms
<1>3. /\ Pending' \in Seq(Message)
      /\ call'.at = "recv" => Pending' = messages' \o (data' \o net')
      /\ call'.at # "recv" => Pending' = inbuffer' \o net'
  BY <1>1, PendingOfNext DEF PendingForms
<1>4. <<>> \in Seq(Message) /\ delivered = delivered \o <<>>
      /\ \A q \in Seq(Message) : <<>> \o q = q /\ q \o <<>> = q
  BY <1>1, NothingDelivered
<1>5. Pending \in Channel!Visible  BY DEF Channel!Visible
<1>6. /\ inbuffer \in Seq(Message) /\ messages \in Seq(Message)
      /\ data \in Seq(Message) /\ net \in Seq(Message) /\ net' \in Seq(Message)
  BY <1>1 DEF TypeOK
\* A call that keeps or returns the lines of `msgs`.
<1>7. ASSUME NEW msgs \in Seq(Message), msgs \o net' \in Channel!Visible,
             msgs \o net' \in Seq(Message), call.at = "recv",
             \/ Returns(msgs)
             \/ /\ messages' = msgs /\ data' = <<>>
                /\ UNCHANGED <<inbuffer, call, result, delivered>>
      PROVE  Channel!Deliver
  <2>1. CASE Returns(msgs) /\ ~call.single
    <3>1. /\ delivered' = delivered \o msgs /\ inbuffer' = <<>> /\ call'.at # "recv"
      BY <1>1, <1>7, <2>1 DEF Returns, CallInv, NoCall
    <3>2. Pending' = net'  BY <3>1, <1>3, <1>4, <1>6
    <3> QED  BY <3>1, <3>2, <1>6, <1>7, Delivers
  <2>2. CASE Returns(msgs) /\ call.single
    <3>1. delivered' = delivered /\ inbuffer' = msgs /\ call'.at # "recv"
      BY <1>1, <2>2 DEF Returns, TypeOK
    <3>2. Pending' = msgs \o net'  BY <3>1, <1>3
    <3>3. <<>> \o (msgs \o net') \in Channel!Visible  BY <1>4, <1>7
    <3> QED  BY <3>1, <3>2, <3>3, <1>4, <1>7, Delivers
  <2>3. CASE messages' = msgs /\ data' = <<>> /\ UNCHANGED <<call, delivered>>
    <3>1. Pending' = msgs \o net'  BY <2>3, <1>3, <1>4, <1>6, <1>7
    <3>2. <<>> \o (msgs \o net') \in Channel!Visible  BY <1>4, <1>7
    <3> QED  BY <2>3, <3>1, <3>2, <1>4, <1>7, Delivers
  <2> QED  BY <1>7, <2>1, <2>2, <2>3
<1>8. CASE ReceivePart
  <2> PICK n \in 0..Len(net), c \in Cuts :
          /\ Receives(n, c)
          /\ data' = data \o SubSeq(net, 1, n)
          /\ UNCHANGED <<inbuffer, call, messages, result, delivered>>
    BY <1>8 DEF ReceivePart
  <2>1. data' \o net' = data \o net /\ call.at = "recv"
    BY <1>1, OrderOfReceived DEF Receives
  <2> QED  BY <2>1, <1>2, <1>3
<1>9. CASE ReceiveChunk
  <2> PICK n \in 0..Len(net) :
          /\ Receives(n, "none")
          /\ LET lines == data \o SubSeq(net, 1, n)
                 parsed == messages \o Parsed(lines)
             IN  \/ HasKind(lines, "garbled") \/ HasKind(lines, "451")
                 \/ Returns(parsed)
                 \/ /\ messages' = parsed /\ data' = <<>>
                    /\ UNCHANGED <<inbuffer, call, result, delivered>>
    BY <1>9 DEF ReceiveChunk
  <2> DEFINE lines == data \o SubSeq(net, 1, n)
             parsed == messages \o Parsed(lines)
  <2>1. AllIn(lines, Written)  BY <1>1, ReceivedWritten
  <2>2. ~HasKind(lines, "garbled") /\ ~HasKind(lines, "451")
    <3> HIDE DEF lines
    <3> QED  BY <1>1, <2>1 DEF HasKind, AllIn, Written, RegularInv
  <2>3. parsed \in Seq(Message) /\ parsed \o net' \in Channel!Visible
    BY ChunkLosesPong
  <2>4. call.at = "recv"  BY DEF Receives
  <2>5. parsed \o net' \in Seq(Message)  BY <1>6, <2>3, ConcatProperties
  <2>6. \/ Returns(parsed)
        \/ /\ messages' = parsed /\ data' = <<>>
           /\ UNCHANGED <<inbuffer, call, result, delivered>>
    BY <2>2
  <2> HIDE DEF parsed
  <2>7. Channel!Deliver  BY <1>7, <2>3, <2>4, <2>5, <2>6
  <2> QED  BY <2>7
<1>10. CASE ReceiveTimeout
  <2>1. /\ messages = <<>> /\ data = <<>> /\ net' = net /\ Returns(<<>>)
        /\ call.at = "recv" /\ ~call.single
    BY <1>1, <1>10 DEF ReceiveTimeout, RegularInv
  <2>2. Pending = net  BY <2>1, <1>2, <1>4, <1>6
  <2>3. <<>> \o net' \in Channel!Visible /\ <<>> \o net' \in Seq(Message)
    BY <2>1, <2>2, <1>4, <1>5, <1>6
  <2>4. Channel!Deliver  BY <1>4, <1>7, <2>1, <2>3
  <2> QED  BY <2>4
<1>11. CASE ReceiveEnd
  <2>1. /\ net = <<>> /\ net' = <<>> /\ data = <<>> /\ call.at = "recv"
        /\ Returns(messages) \/ (messages = <<>> /\ Raises("ConnectionClosed"))
    BY <1>1, <1>11 DEF ReceiveEnd, AtEnd, RegularInv, CutInv
  <2>2. Pending = messages \o <<>>  BY <2>1, <1>2, <1>4
  <2>3. CASE Returns(messages)
    <3>1. messages \o net' \in Channel!Visible /\ messages \o net' \in Seq(Message)
      BY <2>1, <2>2, <1>2, <1>5
    <3>2. Channel!Deliver  BY <3>1, <1>6, <1>7, <2>1, <2>3
    <3> QED  BY <3>2
  <2>4. CASE messages = <<>> /\ Raises("ConnectionClosed")
    <3>1. call'.at # "recv" /\ inbuffer' = <<>> /\ delivered' = delivered
      BY <1>1, <2>1, <2>4 DEF Raises, NoCall, CallInv
    <3>2. Pending' = <<>> /\ Pending = <<>>  BY <3>1, <2>1, <2>2, <2>4, <1>3, <1>4
    <3> QED  BY <3>1, <3>2
  <2> QED  BY <2>1, <2>3, <2>4
<1>12. CASE GetMessageRefills
  <2>1. call.at # "recv" /\ EntersReceiveLoop(TRUE, call.sync)
        /\ UNCHANGED <<data, delivered, net>>
    BY <1>12 DEF GetMessageRefills
  <2> QED  BY <1>1, <2>1, EnteringStutters
<1>13. CASE GetMessagePops
  <2>1. /\ call.at # "recv" /\ call'.at # "recv" /\ inbuffer # <<>>
        /\ inbuffer' = Tail(inbuffer) /\ delivered' = Append(delivered, Head(inbuffer))
        /\ net' = net
    BY SMTT(30), <1>1, <1>13 DEF GetMessagePops, NoCall, TypeOK
  <2>2. /\ Head(inbuffer) \in Message /\ Tail(inbuffer) \in Seq(Message)
        /\ inbuffer = <<Head(inbuffer)>> \o Tail(inbuffer)
    BY <1>6, <2>1, OrderOfTail
  <2>3. <<Head(inbuffer)>> \in Seq(Message)  BY <2>2
  <2>4. Pending = <<Head(inbuffer)>> \o Pending'
    <3>1. (<<Head(inbuffer)>> \o Tail(inbuffer)) \o net
             = <<Head(inbuffer)>> \o (Tail(inbuffer) \o net)
      BY <1>6, <2>2, <2>3, ConcatRegroup
    <3> QED  BY <3>1, <2>1, <2>2, <1>2, <1>3
  <2>5. delivered' = delivered \o <<Head(inbuffer)>>
    BY <1>1, <2>1, <2>2, AppendIsConcat DEF TypeOK
  <2>6. Channel!Deliver  BY <2>3, <2>4, <2>5, <1>3, <1>5, Delivers
  <2> QED  BY <2>6
<1>14. CASE GetMessageFails
  <2>1. /\ call.at # "recv" /\ call'.at # "recv"
        /\ UNCHANGED <<inbuffer, net, delivered>>
    BY <1>14 DEF GetMessageFails, Raises, NoCall
  <2> QED  BY <2>1, <1>2, <1>3
<1> QED
  BY <1>8, <1>9, <1>10, <1>11, <1>12, <1>13, <1>14 DEF Client

LEMMA StepChannel ==
    ASSUME Regular, ChannelInv, ChannelInv', [NextRoutine]_allVars
    PROVE  [Channel!Next]_Channel!vars
<1> USE DEF Channel!vars, Channel!Next
<1>1. TypeOK /\ CallInv /\ TypeOK' /\ CallInv'
  BY DEF ChannelInv, SyncInv, MockInv, TypeOKRoutine
<1>2. CASE Server \/ ServerWrites \/ ServerCloses
  <2>1. UNCHANGED clientVars
    BY <1>2 DEF Server, ServerAnswersPing, ServerHandlesCommand, ServerWrites, ServerCloses
  <2>2. CASE UNCHANGED <<sent, net>>
    BY <2>1, <2>2 DEF clientVars, Pending
  <2>3. CASE \E kind, token : Writes(kind, token)
    <3> PICK kind, token : Writes(kind, token)  BY <2>3
    <3> DEFINE line == [kind |-> kind, id |-> Len(sent) + 1, token |-> token]
               before == (inbuffer \o messages) \o data
    <3>1. /\ net' = Append(net, line) /\ sent' = Append(sent, line)
      BY DEF Writes
    <3> HIDE DEF line
    <3>2. line \in Message
      <4>1. /\ sent \in Seq(Message) /\ Len(sent) \in Nat /\ Len(sent) + 1 \in 1..Len(sent')
        <5>1. sent \in Seq(Message) /\ sent' \in Seq(Message)  BY <1>1 DEF TypeOK
        <5>2. Len(Append(sent, line)) = Len(sent) + 1  BY <5>1
        <5> QED  BY <5>1, <5>2, <3>1, LenProperties
      <4>2. sent'[Len(sent) + 1] = line  BY <3>1, <4>1
      <4>3. sent' \in Seq(Message)  BY <1>1 DEF TypeOK
      <4> QED  BY <4>1, <4>2, <4>3, ElementOfSeq
    <3>3. before \in Seq(Message) /\ net \in Seq(Message)
      <4>1. /\ inbuffer \in Seq(Message) /\ messages \in Seq(Message)
            /\ data \in Seq(Message) /\ net \in Seq(Message)
        BY <1>1 DEF TypeOK
      <4>2. inbuffer \o messages \in Seq(Message)  BY <4>1, ConcatProperties
      <4> QED  BY <4>1, <4>2, ConcatProperties
    <3>4. Pending' = before \o Append(net, line) /\ Pending = before \o net
      BY <2>1, <3>1 DEF Pending, clientVars
    <3> HIDE DEF before
    <3>5. Pending \in Seq(Message) /\ Pending' = Append(Pending, line)
      BY <3>2, <3>3, <3>4, AppendToConcat, ConcatProperties
    <3>6. /\ Pending' \in Seq(Message) /\ Len(Pending') = Len(Pending) + 1
          /\ SubSeq(Pending', 1, Len(Pending)) = Pending
      <4> DEFINE q == Pending
      <4>1. q \in Seq(Message)  BY <3>5
      <4> HIDE DEF q
      <4>2. <<line>> \in Seq(Message) /\ Append(q, line) = q \o <<line>>
        BY <3>2, <4>1, AppendIsConcat
      <4>3. SubSeq(q \o <<line>>, 1, Len(q)) = q  BY <4>1, <4>2, PartsOfConcat
      <4>4. /\ Append(q, line) \in Seq(Message) /\ Len(Append(q, line)) = Len(q) + 1
            /\ SubSeq(Append(q, line), 1, Len(q)) = q
        BY <3>2, <4>1, <4>2, <4>3, AppendProperties
      <4> QED  BY <3>5, <4>4 DEF q
    <3>7. Channel!Write  BY <2>1, <3>6 DEF Channel!Write, clientVars
    <3> QED  BY <3>7
  <2> QED
    BY <1>2, <2>2, <2>3
    DEF Server, ServerAnswersPing, ServerHandlesCommand, ServerWrites, ServerCloses
<1>3. CASE Client  BY <1>3, ClientStep
<1>4. CASE CallGetMessages \/ CallAssertDisconnected \/ FirstCallReturned
  <2> PICK sync : EntersReceiveLoop(FALSE, sync)
    BY <1>4
    DEF CallGetMessages, CallAssertDisconnected, FirstCallReturned, RoutineGetsMessages
  <2>1. call.at # "recv" /\ UNCHANGED <<data, delivered, net>>
    BY <1>4
    DEF CallGetMessages, CallAssertDisconnected, FirstCallReturned, RoutineGetsMessages
  <2> QED  BY <1>1, <2>1, EnteringStutters
<1>5. CASE \/ SendLine \/ CallGetMessage
           \/ SecondCallReturned \/ CallRaised \/ UNCHANGED allVars
  <2>1. UNCHANGED <<inbuffer, messages, data, net, delivered>>
    BY <1>5
    DEF SendLine, CallGetMessage, SecondCallReturned, CallRaised,
        allVars, vars, clientVars
  <2> QED  BY <2>1 DEF Pending
<1> QED  BY <1>2, <1>3, <1>4, <1>5 DEF NextRoutine

\* A client that is used with care, and reads whole lines of UTF-8, gives the
\* test every line the server wrote, once and in order, but answers to its PINGs.
THEOREM ImplementsChannel ==
    ASSUME Regular
    PROVE  SpecRoutine => ImplementsFifoChannel
<1>1. InitRoutine => Channel!Init
  BY ConcatEmptySeq DEF InitRoutine, Init, Channel!Init, Pending
<1>2. ChannelInv /\ [NextRoutine]_allVars => ChannelInv'  BY StepRegularInv
<1>3. ChannelInv /\ ChannelInv' /\ [NextRoutine]_allVars => [Channel!Next]_Channel!vars
  BY StepChannel
<1> QED
  BY InitChannelInv, <1>1, <1>2, <1>3, PTL
  DEF SpecRoutine, ImplementsFifoChannel, Channel!Spec

=============================================================================
