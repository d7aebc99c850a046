-------------------------- MODULE LLMAnswersProofs ---------------------------
(***************************************************************************)
(* Proofs about LLMAnswers: for any chunks, blocks and links, any JSON      *)
(* objects, and any prose around them that holds neither brackets nor       *)
(* fences.                                                                  *)
(***************************************************************************)
EXTENDS LLMAnswers, SequenceTheorems, WellFoundedInduction, TLAPS

(***************************************************************************)
(* Texts in pieces.                                                         *)
(***************************************************************************)
\* The object stands in the text after the first p tokens.
StandsAt(o, t, p) ==
    p + Len(o) <= Len(t) /\ \A i \in 1..Len(o) : t[p + i] = o[i]

\* What stands before and after it is no bracket.
ProseAround(o, t, p) ==
    \A i \in 1..Len(t) : i <= p \/ i > p + Len(o) =>
        t[i] \notin {"lbrace", "rbrace", "lbracket", "rbracket"}

\* Tokens of two texts, one after the other.
LEMMA Joined ==
  ASSUME NEW s \in Seq(Tokens), NEW t \in Seq(Tokens)
  PROVE  /\ s \o t \in Seq(Tokens)
         /\ Len(s) \in Nat /\ Len(t) \in Nat /\ Len(s \o t) = Len(s) + Len(t)
         /\ DOMAIN s = 1..Len(s) /\ DOMAIN (s \o t) = 1..(Len(s) + Len(t))
         /\ \A i \in 1..Len(s) : (s \o t)[i] = s[i]
         /\ \A i \in 1..Len(t) : (s \o t)[Len(s) + i] = t[i]
<1>1. /\ s \o t \in Seq(Tokens) /\ Len(s \o t) = Len(s) + Len(t)
      /\ \A i \in 1..(Len(s) + Len(t)) : (s \o t)[i] = IF i <= Len(s) THEN s[i] ELSE t[i - Len(s)]
  BY ConcatProperties
<1>2. Len(s) \in Nat /\ Len(t) \in Nat /\ DOMAIN s = 1..Len(s)
      /\ DOMAIN (s \o t) = 1..Len(s \o t)
  BY <1>1, LenProperties
<1>3. ASSUME NEW i \in 1..Len(t) PROVE (s \o t)[Len(s) + i] = t[i]
  <2>1. Len(s) + i \in 1..(Len(s) + Len(t)) /\ ~ (Len(s) + i <= Len(s))
        /\ (Len(s) + i) - Len(s) = i
    BY <1>2
  <2> QED
    BY <1>1, <2>1
<1> QED
  BY <1>1, <1>2, <1>3

\* A piece of the text that starts where the object stands, and is long enough.
LEMMA PrefixOfPiece ==
  ASSUME NEW o \in Seq(Tokens), NEW t \in Seq(Tokens), NEW p \in Nat, NEW q \in Nat,
         StandsAt(o, t, p), p + Len(o) <= q, q <= Len(t), o # <<>>
  PROVE  IsPrefix(o, SubSeq(t, p + 1, q))
<1> DEFINE u == SubSeq(t, p + 1, q)
<1>1. Len(o) \in Nat \ {0} /\ Len(t) \in Nat
  BY LenProperties, EmptySeq
<1>2. \A i \in (p + 1)..q : t[i] \in Tokens
  BY <1>1, ElementOfSeq
<1>3. /\ u \in Seq(Tokens) /\ Len(u) = q - p
      /\ \A i \in 1..(q - p) : u[i] = t[p + i]
  BY <1>1, <1>2, SubSeqProperties
<1> HIDE DEF u
<1>4. SubSeq(o, 1, Len(o)) = o
  BY SubSeqFull
<1>5. SubSeq(u, 1, Len(o)) = o
  <2> DEFINE v == SubSeq(u, 1, Len(o))
  <2>1. \A i \in 1..Len(o) : u[i] \in Tokens
    BY <1>1, <1>3, ElementOfSeq
  <2>2. v \in Seq(Tokens) /\ Len(v) = Len(o) /\ \A i \in 1..Len(o) : v[i] = u[i]
    BY <1>1, <2>1, SubSeqProperties
  <2>3. \A i \in 1..Len(o) : u[i] = o[i]
    BY <1>1, <1>3 DEF StandsAt
  <2> HIDE DEF v
  <2> QED
    BY <2>2, <2>3, SeqEqual
<1>6. Len(o) <= Len(u)
  BY <1>1, <1>3
<1> QED
  BY <1>4, <1>5, <1>6 DEF IsPrefix, u

\* Prose holds no bracket and no fence.
LEMMA ProseTokens ==
  ASSUME NEW p \in Prose
  PROVE  /\ p \in Seq(Tokens) /\ Len(p) \in Nat
         /\ \A i \in 1..Len(p) : p[i] \notin {"lbrace", "rbrace", "lbracket", "rbracket", "fence"}
  BY ProseAssumption, LenProperties DEF ToSet

\* An object starts and ends with its brackets, and holds no fence.
LEMMA ObjectTokens ==
  ASSUME NEW o \in Objects
  PROVE  /\ o \in Seq(Tokens) /\ Len(o) \in Nat /\ Len(o) >= 2 /\ o # <<>>
         /\ \/ o[1] = "lbrace" /\ o[Len(o)] = "rbrace"
            \/ o[1] = "lbracket" /\ o[Len(o)] = "rbracket"
         /\ \A i \in 1..Len(o) : o[i] # "fence"
<1>1. o \in Seq(Tokens) /\ Len(o) >= 2
  BY ObjectsAssumption
<1>2. Len(o) \in Nat /\ DOMAIN o = 1..Len(o)
  BY <1>1, LenProperties
<1>3. o # <<>>
  BY <1>1
<1>4. \/ o[1] = "lbrace" /\ o[Len(o)] = "rbrace"
      \/ o[1] = "lbracket" /\ o[Len(o)] = "rbracket"
  BY ObjectsAssumption DEF Brackets
<1>5. "fence" \notin ToSet(o)
  BY ObjectsAssumption
<1> QED
  BY <1>1, <1>2, <1>3, <1>4, <1>5 DEF ToSet

\* A text of prose, an object and prose.
PlainText(o, t, p) ==
    /\ t \in Seq(Tokens) /\ DOMAIN t = 1..Len(t) /\ p + Len(o) <= Len(t)
    /\ StandsAt(o, t, p) /\ ProseAround(o, t, p)
    /\ \A i \in 1..Len(t) : t[i] # "fence"

\* Where the object stands in prose, an object and prose.
LEMMA PlainTokens ==
  ASSUME NEW before \in Prose, NEW object0 \in Objects, NEW after \in Prose
  PROVE  PlainText(object0, before \o object0 \o after, Len(before))
<1>0. PICK t : t = before \o object0 \o after
  OBVIOUS
<1> DEFINE s == before \o object0
<1>1. /\ before \in Seq(Tokens) /\ object0 \in Seq(Tokens) /\ after \in Seq(Tokens)
      /\ Len(before) \in Nat /\ Len(object0) \in Nat /\ Len(after) \in Nat
  BY ProseTokens, ObjectTokens
<1>2. /\ s \in Seq(Tokens) /\ Len(s) = Len(before) + Len(object0)
      /\ \A i \in 1..Len(before) : s[i] = before[i]
      /\ \A i \in 1..Len(object0) : s[Len(before) + i] = object0[i]
  BY <1>1, Joined
<1>3. /\ t \in Seq(Tokens) /\ Len(t) = Len(s) + Len(after) /\ DOMAIN t = 1..Len(t)
      /\ \A i \in 1..Len(s) : t[i] = s[i]
      /\ \A i \in 1..Len(after) : t[Len(s) + i] = after[i]
  BY <1>0, <1>1, <1>2, Joined
<1> HIDE DEF s
<1>4. /\ \A i \in 1..Len(before) : t[i] = before[i]
      /\ \A i \in 1..Len(object0) : t[Len(before) + i] = object0[i]
  BY <1>1, <1>2, <1>3
<1>5. StandsAt(object0, t, Len(before))
  BY <1>1, <1>2, <1>3, <1>4 DEF StandsAt
<1>6. ASSUME NEW i \in 1..Len(t), i <= Len(before)
      PROVE  t[i] \notin {"lbrace", "rbrace", "lbracket", "rbracket", "fence"}
  BY <1>1, <1>4, <1>6, ProseTokens
<1>7. ASSUME NEW i \in 1..Len(t), i > Len(before) + Len(object0)
      PROVE  t[i] \notin {"lbrace", "rbrace", "lbracket", "rbracket", "fence"}
  <2>1. PICK j \in 1..Len(after) : i = Len(s) + j
    <3>1. i - Len(s) \in 1..Len(after) /\ i = Len(s) + (i - Len(s))
      BY <1>1, <1>2, <1>3, <1>7
    <3> QED
      BY <3>1
  <2> QED
    BY <1>3, <2>1, ProseTokens
<1>8. ASSUME NEW i \in 1..Len(t), i > Len(before), i <= Len(before) + Len(object0)
      PROVE  t[i] # "fence"
  <2>1. PICK j \in 1..Len(object0) : i = Len(before) + j
    <3>1. i - Len(before) \in 1..Len(object0) /\ i = Len(before) + (i - Len(before))
      BY <1>1, <1>8
    <3> QED
      BY <3>1
  <2> QED
    BY <1>4, <2>1, ObjectTokens
<1> QED
  <2>1. ProseAround(object0, t, Len(before))
    BY <1>6, <1>7 DEF ProseAround
  <2>2. \A i \in 1..Len(t) : t[i] # "fence"
    <3> SUFFICES ASSUME NEW i \in 1..Len(t) PROVE t[i] # "fence"
      OBVIOUS
    <3>1. CASE i <= Len(before)
      BY <1>6, <3>1
    <3>2. CASE i > Len(before) + Len(object0)
      BY <1>7, <3>2
    <3>3. CASE i > Len(before) /\ i <= Len(before) + Len(object0)
      BY <1>8, <3>3
    <3> QED
      BY <1>1, <1>3, <3>1, <3>2, <3>3
  <2>3. Len(before) + Len(object0) <= Len(t)
    BY <1>1, <1>2, <1>3
  <2>4. PlainText(object0, t, Len(before))
    BY <1>3, <1>5, <2>1, <2>2, <2>3 DEF PlainText
  <2> QED
    BY <1>0, <2>4

\* The leftmost opening bracket is the object's, and so is the last closing one.
LEMMA EmbeddedFound ==
  ASSUME NEW o \in Objects, NEW t \in Seq(Tokens), NEW p \in Nat, StandsAt(o, t, p),
         DOMAIN t = 1..Len(t), ProseAround(o, t, p)
  PROVE  IsPrefix(o, Embedded(t))
<1> DEFINE Starts == {i \in DOMAIN t : Ends(t, i) # {}}
<1>0. PICK q : q = p + Len(o)
  OBVIOUS
<1>1. /\ Len(o) \in Nat /\ Len(o) >= 2 /\ o # <<>> /\ o \in Seq(Tokens)
      /\ Len(t) \in Nat /\ q <= Len(t) /\ q \in Nat /\ p + 2 <= q
  BY <1>0, ObjectTokens, LenProperties DEF StandsAt
<1>2. t[p + 1] = o[1] /\ t[q] = o[Len(o)]
  BY <1>0, <1>1 DEF StandsAt
<1>3. <<t[p + 1], t[q]>> \in Brackets
  BY <1>2, ObjectTokens DEF Brackets
<1>4. q \in Ends(t, p + 1)
  BY <1>1, <1>3 DEF Ends
<1>5. \A i \in 1..Len(t) : \A j \in Ends(t, i) :
          j \in 1..Len(t) /\ t[i] \in {"lbrace", "lbracket"} /\ t[j] \in {"rbrace", "rbracket"}
  BY DEF Ends, Brackets
<1>6. p + 1 \in 1..Len(t)
  BY <1>1
<1>7. \A j \in Ends(t, p + 1) : j \in Nat /\ j <= q
  BY <1>0, <1>1, <1>5, <1>6 DEF ProseAround
<1>8. p + 1 \in Starts
  BY <1>4, <1>6
<1>9. \A i \in Starts : i \in Nat /\ p + 1 <= i
  <2> SUFFICES ASSUME NEW i \in Starts PROVE i \in Nat /\ p + 1 <= i
    OBVIOUS
  <2>1. i \in 1..Len(t) /\ \E j : j \in Ends(t, i)
    OBVIOUS
  <2>2. t[i] \in {"lbrace", "lbracket"}
    BY <1>5, <2>1
  <2> QED
    BY <1>1, <2>1, <2>2 DEF ProseAround
<1> HIDE DEF Starts
<1>10. (CHOOSE i \in Starts : \A k \in Starts : i <= k) = p + 1
  <2>1. \A i \in Starts : (\A k \in Starts : i <= k) => i = p + 1
    BY <1>8, <1>9
  <2> QED
    BY <1>8, <1>9, <2>1
<1>11. (CHOOSE j \in Ends(t, p + 1) : \A k \in Ends(t, p + 1) : k <= j) = q
  <2>1. \A j \in Ends(t, p + 1) : (\A k \in Ends(t, p + 1) : k <= j) => j = q
    BY <1>1, <1>4, <1>7
  <2> QED
    BY <1>4, <1>7, <2>1
<1>12. Embedded(t) = SubSeq(t, p + 1, q)
  BY <1>8, <1>10, <1>11 DEF Embedded, Starts
<1> QED
  BY <1>0, <1>1, <1>12, PrefixOfPiece

\* The object is found raw, or in prose.
LEMMA PlainFound ==
  ASSUME NEW before \in Prose, NEW o \in Objects, NEW after \in Prose,
         NEW t, t = before \o o \o after
  PROVE  IsPrefix(o, ExtractJson(t))
<1>1. /\ t \in Seq(Tokens) /\ DOMAIN t = 1..Len(t) /\ Len(before) + Len(o) <= Len(t)
      /\ StandsAt(o, t, Len(before)) /\ ProseAround(o, t, Len(before))
      /\ \A i \in 1..Len(t) : t[i] # "fence"
  <2>1. PlainText(o, t, Len(before))
    BY PlainTokens
  <2> QED
    BY <2>1 DEF PlainText
<1>2. /\ Len(before) \in Nat /\ Len(o) \in Nat /\ Len(after) \in Nat /\ Len(o) >= 2
      /\ o \in Seq(Tokens) /\ o # <<>>
  BY ProseTokens, ObjectTokens
<1>3. Len(t) \in Nat /\ Len(t) >= 2 /\ t # <<>>
  BY <1>1, <1>2, EmptySeq
<1>4. {i \in DOMAIN t : t[i] = "fence"} = {}
  BY <1>1
<1>5. CASE Len(before) = 0
  <2>1. t[1] = o[1]
    BY <1>1, <1>2, <1>5 DEF StandsAt
  <2>2. t[1] \in {"lbrace", "lbracket"}
    BY <2>1, ObjectTokens
  <2>3. ExtractJson(t) = t
    BY <1>3, <2>2 DEF ExtractJson
  <2>4. SubSeq(t, 1, Len(t)) = t
    BY <1>1, SubSeqFull
  <2>5. IsPrefix(o, SubSeq(t, Len(before) + 1, Len(t)))
    <3>1. Len(before) + Len(o) <= Len(t) /\ Len(t) <= Len(t)
      BY <1>1, <1>2, <1>3
    <3> QED
      BY <1>1, <1>2, <1>3, <3>1, PrefixOfPiece, Zenon
  <2>6. Len(before) + 1 = 1
    BY <1>5
  <2> QED
    BY <2>3, <2>4, <2>5, <2>6
<1>6. CASE Len(before) > 0
  <2>1. t[1] \notin {"lbrace", "lbracket"}
    BY <1>1, <1>2, <1>3, <1>6 DEF ProseAround
  <2>2. ExtractJson(t) = Embedded(t)
    BY <1>4, <2>1 DEF ExtractJson
  <2>3. IsPrefix(o, Embedded(t))
    BY <1>1, <1>2, EmbeddedFound
  <2> QED
    BY <2>2, <2>3
<1> QED
  BY <1>2, <1>5, <1>6

\* The code block: the fences around the object are the first two.
FencedText(o, t, p) ==
    /\ t \in Seq(Tokens) /\ DOMAIN t = 1..Len(t) /\ p + Len(o) + 2 <= Len(t)
    /\ StandsAt(o, t, p + 1)
    /\ \A i \in 1..p : t[i] \notin {"lbrace", "rbrace", "lbracket", "rbracket", "fence"}
    /\ t[p + 1] = "fence" /\ t[p + Len(o) + 2] = "fence"

\* Where the object and the fences stand in a code block within prose.
LEMMA FencedTokens ==
  ASSUME NEW before \in Prose, NEW o \in Objects, NEW after \in Prose
  PROVE  FencedText(o, before \o <<"fence">> \o o \o <<"fence">> \o after, Len(before))
<1>0. PICK r, s, u, t : /\ r = before \o <<"fence">> /\ s = r \o o
                        /\ u = s \o <<"fence">> /\ t = u \o after
  OBVIOUS
<1>1. /\ before \in Seq(Tokens) /\ o \in Seq(Tokens) /\ after \in Seq(Tokens)
      /\ Len(before) \in Nat /\ Len(o) \in Nat /\ Len(after) \in Nat
      /\ \A i \in 1..Len(before) :
            before[i] \notin {"lbrace", "rbrace", "lbracket", "rbracket", "fence"}
  BY ProseTokens, ObjectTokens
<1>2. <<"fence">> \in Seq(Tokens) /\ Len(<<"fence">>) = 1 /\ <<"fence">>[1] = "fence"
  <2>1. <<"fence">> \in Seq(Tokens)
    <3>1. <<>> \in Seq(Tokens)
      BY EmptySeq
    <3>2. Append(<<>>, "fence") \in Seq(Tokens)
      <4>1. "fence" \in Tokens
        BY DEF Tokens
      <4> QED
        BY <3>1, <4>1, AppendProperties
    <3>3. Append(<<>>, "fence") = <<"fence">>
      OBVIOUS
    <3> QED
      BY <3>2, <3>3
  <2>2. Len(<<"fence">>) = 1
    OBVIOUS
  <2>3. <<"fence">>[1] = "fence"
    OBVIOUS
  <2> QED
    BY <2>1, <2>2, <2>3
<1>3. /\ r \in Seq(Tokens) /\ Len(r) = Len(before) + 1
      /\ \A i \in 1..Len(before) : r[i] = before[i]
      /\ r[Len(before) + 1] = "fence"
  BY <1>0, <1>1, <1>2, Joined
<1>4. /\ s \in Seq(Tokens) /\ Len(s) = Len(before) + 1 + Len(o)
      /\ \A i \in 1..Len(r) : s[i] = r[i]
      /\ \A i \in 1..Len(o) : s[Len(before) + 1 + i] = o[i]
  BY <1>0, <1>1, <1>3, Joined
<1>5. /\ u \in Seq(Tokens) /\ Len(u) = Len(before) + Len(o) + 2
      /\ \A i \in 1..Len(s) : u[i] = s[i]
      /\ u[Len(before) + Len(o) + 2] = "fence"
  <2>1. /\ u \in Seq(Tokens) /\ Len(u) = Len(s) + 1
        /\ \A i \in 1..Len(s) : u[i] = s[i]
        /\ u[Len(s) + 1] = "fence"
    BY <1>0, <1>2, <1>4, Joined
  <2>2. Len(s) + 1 = Len(before) + Len(o) + 2
    BY <1>1, <1>4
  <2> QED
    BY <2>1, <2>2
<1>6. /\ t \in Seq(Tokens) /\ Len(t) = Len(u) + Len(after) /\ DOMAIN t = 1..Len(t)
      /\ \A i \in 1..Len(u) : t[i] = u[i]
  BY <1>0, <1>1, <1>5, Joined
<1>7. ASSUME NEW i \in 1..Len(s) PROVE t[i] = s[i]
  <2>1. i \in 1..Len(u)
    BY <1>1, <1>4, <1>5
  <2> QED
    BY <1>5, <1>6, <2>1
<1>8. ASSUME NEW i \in 1..Len(r) PROVE t[i] = r[i]
  <2>1. i \in 1..Len(s)
    BY <1>1, <1>3, <1>4
  <2> QED
    BY <1>4, <1>7, <2>1
<1>9. \A i \in 1..Len(before) : t[i] = before[i]
  <2> SUFFICES ASSUME NEW i \in 1..Len(before) PROVE t[i] = before[i]
    OBVIOUS
  <2>1. i \in 1..Len(r)
    BY <1>1, <1>3
  <2> QED
    BY <1>3, <1>8, <2>1
<1>10. t[Len(before) + 1] = "fence"
  <2>1. Len(before) + 1 \in 1..Len(r)
    BY <1>1, <1>3
  <2> QED
    BY <1>3, <1>8, <2>1
<1>11. t[Len(before) + Len(o) + 2] = "fence"
  <2>1. Len(before) + Len(o) + 2 \in 1..Len(u)
    BY <1>1, <1>5
  <2> QED
    BY <1>5, <1>6, <2>1
<1>12. StandsAt(o, t, Len(before) + 1)
  <2>1. ASSUME NEW i \in 1..Len(o) PROVE t[Len(before) + 1 + i] = o[i]
    <3>1. Len(before) + 1 + i \in 1..Len(s)
      BY <1>1, <1>4
    <3> QED
      BY <1>4, <1>7, <3>1
  <2>2. Len(before) + 1 + Len(o) <= Len(t)
    BY <1>1, <1>5, <1>6
  <2> QED
    BY <2>1, <2>2 DEF StandsAt
<1>13. FencedText(o, t, Len(before))
  <2>1. Len(before) + Len(o) + 2 <= Len(t)
    BY <1>1, <1>5, <1>6
  <2> QED
    BY <1>1, <1>6, <1>9, <1>10, <1>11, <1>12, <2>1 DEF FencedText
<1> QED
  BY <1>0, <1>13

\* The object is found in a code block.
LEMMA FencedFound ==
  ASSUME NEW before \in Prose, NEW o \in Objects, NEW after \in Prose,
         NEW t, t = before \o <<"fence">> \o o \o <<"fence">> \o after
  PROVE  IsPrefix(o, ExtractJson(t))
<1>1. PICK p \in Nat : FencedText(o, t, p)
  BY FencedTokens, ProseTokens
<1>2. /\ Len(o) \in Nat /\ Len(o) >= 2 /\ o \in Seq(Tokens) /\ o # <<>>
      /\ \A i \in 1..Len(o) : o[i] # "fence"
  BY ObjectTokens
<1>3. /\ t \in Seq(Tokens) /\ DOMAIN t = 1..Len(t) /\ Len(t) \in Nat
      /\ p + Len(o) + 2 <= Len(t)
      /\ StandsAt(o, t, p + 1)
      /\ \A i \in 1..p : t[i] \notin {"lbrace", "rbrace", "lbracket", "rbracket", "fence"}
      /\ t[p + 1] = "fence" /\ t[p + Len(o) + 2] = "fence"
  BY <1>1, LenProperties DEF FencedText
<1>0. PICK Fences, q : Fences = {i \in DOMAIN t : t[i] = "fence"} /\ q = p + Len(o) + 2
  OBVIOUS
<1>4. p + 1 \in Fences /\ q \in Fences /\ p + 1 # q /\ q \in Nat
  <2>1. p + 1 \in 1..Len(t) /\ q \in 1..Len(t) /\ p + 1 # q /\ q \in Nat
    BY <1>0, <1>2, <1>3
  <2>2. p + 1 \in Fences
    BY <1>0, <1>3, <2>1
  <2>3. q \in Fences
    BY <1>0, <1>3, <2>1
  <2> QED
    BY <2>1, <2>2, <2>3
<1>5. ASSUME NEW i \in Fences
      PROVE  i \in 1..Len(t) /\ t[i] = "fence" /\ i \in Nat /\ p + 1 <= i
  <2>1. i \in 1..Len(t) /\ t[i] = "fence"
    BY <1>0, <1>3
  <2>2. i \notin 1..p
    BY <1>3, <2>1
  <2> QED
    BY <1>3, <2>1, <2>2
<1>6. \A i \in Fences \ {p + 1} : q <= i
  <2> SUFFICES ASSUME NEW i \in Fences, p + 1 < i, i < q PROVE FALSE
    BY <1>4, <1>5
  <2>1. PICK j \in 1..Len(o) : i = (p + 1) + j
    <3>1. i \in Nat /\ q = p + Len(o) + 2
      BY <1>0, <1>5
    <3>2. i - (p + 1) \in 1..Len(o) /\ i = (p + 1) + (i - (p + 1))
      BY <1>2, <3>1
    <3> QED
      BY <3>2
  <2>2. t[(p + 1) + j] = o[j]
    BY <1>3 DEF StandsAt
  <2>3. t[i] = "fence"
    BY <1>5
  <2> QED
    BY <1>2, <2>1, <2>2, <2>3
<1>7. (CHOOSE i \in Fences : \A k \in Fences : i <= k) = p + 1
  <2>1. \A i \in Fences : (\A k \in Fences : i <= k) => i = p + 1
    BY <1>4, <1>5
  <2> QED
    BY <1>4, <1>5, <2>1
<1>8. (CHOOSE i \in Fences \ {p + 1} : \A k \in Fences \ {p + 1} : i <= k) = q
  <2>1. \A i \in Fences \ {p + 1} : (\A k \in Fences \ {p + 1} : i <= k) => i = q
    BY <1>4, <1>5, <1>6
  <2> QED
    BY <1>4, <1>6, <2>1
<1>9. t[1] \notin {"lbrace", "lbracket"}
  <2>1. CASE p = 0
    BY <1>3, <2>1
  <2>2. CASE p > 0
    BY <1>3, <2>2
  <2> QED
    BY <2>1, <2>2
<1>10. ExtractJson(t) = SubSeq(t, (p + 1) + 1, q - 1)
  <2>1. Fences # {} /\ Fences # {p + 1}
    BY <1>4
  <2> QED
    BY <1>0, <1>7, <1>8, <1>9, <2>1 DEF ExtractJson
<1>11. q - 1 = (p + 1) + Len(o) /\ q - 1 \in Nat /\ q - 1 <= Len(t)
  BY <1>0, <1>2, <1>3
<1>12. IsPrefix(o, SubSeq(t, (p + 1) + 1, q - 1))
  <2>1. p + 1 \in Nat /\ (p + 1) + Len(o) <= q - 1
    BY <1>2, <1>11
  <2> QED
    BY <1>2, <1>3, <1>11, <2>1, PrefixOfPiece, Zenon
<1> QED
  BY <1>10, <1>12

\* What _extract_final_text returns is the final text, whatever is written
\* before a search.
LEMMA LastTextIsFinal ==
  ASSUME NEW b \in Blocks, FinalText(b) # None
  PROVE  FinalText(b) = "final"
<1> DEFINE At == {i \in DOMAIN b : b[i].text # None}
<1>1. At # {}
  BY DEF FinalText
<1>2. PICK i \in At : b[i].text = "final" /\ \A j \in At : ~ (j > i)
  <2>1. PICK i \in DOMAIN b : b[i].text = "final" /\ \A j \in DOMAIN b : j > i => b[j].text = None
    BY <1>1, BlocksAssumption
  <2>2. i \in At
    BY <2>1 DEF None
  <2> QED
    BY <2>1, <2>2
<1>3. DOMAIN b \subseteq Nat
  BY BlocksAssumption
<1>4. \A j \in At : j \in Nat /\ j <= i
  BY <1>2, <1>3
<1>5. (CHOOSE j \in At : \A k \in At : k <= j) = i
  <2>1. \A j \in At : (\A k \in At : k <= j) => j = i
    BY <1>2, <1>4
  <2> QED
    BY <1>2, <1>4, <2>1
<1> QED
  BY <1>1, <1>2, <1>5 DEF FinalText

----------------------------------------------------------------------------
(***************************************************************************)
(* Recursive functions over 0..m: that they exist, and induction on them,   *)
(* from the least element of a set of numbers.                              *)
(***************************************************************************)
\* A nonempty set of natural numbers has a least element.
LEMMA Least ==
  ASSUME NEW T, T \subseteq Nat, T # {}
  PROVE  \E x \in T : \A y \in T : x <= y
<1>1. \E R : IsWellFoundedOn(R, Nat) /\ \A x, y \in Nat : x < y => <<x, y>> \in R
  <2>1. \A x, y \in Nat : x < y => <<x, y>> \in OpToRel(<, Nat)
    BY Zenon DEF OpToRel
  <2> QED
    BY <2>1, NatLessThanWellFounded, Zenon
<1>2. PICK R : IsWellFoundedOn(R, Nat) /\ \A x, y \in Nat : x < y => <<x, y>> \in R
  BY <1>1
<1>3. PICK x \in T : \A y \in T : ~(<<y, x>> \in R)
  <2>1. PICK N : N = Nat
    OBVIOUS
  <2>2. IsWellFoundedOn(R, N) /\ T \subseteq N /\ T # {}
    BY <1>2, <2>1
  <2> QED
    BY <2>2, WFMin
<1>4. \A y \in T : ~ (y < x) /\ x \in Nat /\ y \in Nat
  BY <1>2, <1>3
<1> QED
  BY <1>4

\* A nonempty set of numbers up to m has a greatest element.
LEMMA Greatest ==
  ASSUME NEW m \in Nat, NEW T, T \subseteq 0..m, T # {}
  PROVE  \E x \in T : \A y \in T : y <= x
<1>1. PICK U : U = {n \in 0..m : m - n \in T}
  OBVIOUS
<1>2. U \subseteq Nat /\ U # {}
  <2>1. PICK x \in T : x \in 0..m
    OBVIOUS
  <2>2. m - x \in 0..m /\ m - (m - x) = x
    BY <2>1
  <2>3. m - x \in U
    BY <1>1, <2>2
  <2>4. U \subseteq Nat
    BY <1>1
  <2> QED
    BY <2>3, <2>4
<1>3. PICK n \in U : \A k \in U : n <= k
  BY <1>2, Least
<1>4. ASSUME NEW y \in T PROVE y <= m - n
  <2>1. y \in 0..m /\ m - y \in 0..m /\ m - (m - y) = y
    OBVIOUS
  <2>2. m - y \in U
    BY <1>1, <2>1
  <2>3. n <= m - y /\ n \in 0..m
    BY <1>1, <1>3, <2>2
  <2> QED
    BY <2>1, <2>3
<1>5. m - n \in T
  BY <1>1, <1>3
<1> QED
  BY <1>4, <1>5

\* Induction up to m, with the set of the numbers a claim holds for.
LEMMA Induction ==
  ASSUME NEW m \in Nat, NEW T, 0 \in T, \A n \in 1..m : n - 1 \in T => n \in T
  PROVE  \A n \in 0..m : n \in T
<1> SUFFICES ASSUME NEW n \in 0..m, n \notin T PROVE FALSE
  OBVIOUS
<1>1. PICK k \in (0..m) \ T : \A i \in (0..m) \ T : k <= i
  <2>1. n \in (0..m) \ T /\ (0..m) \ T \subseteq Nat
    OBVIOUS
  <2> QED
    BY <2>1, Least
<1>2. k \in 1..m /\ k - 1 \in 0..m /\ ~ (k <= k - 1)
  BY <1>1
<1> QED
  BY <1>1, <1>2

\* A function over 0..m is defined by its first value and by each value from
\* the one before.
Recursive(f, A, base, m, next) ==
    /\ f \in [0..m -> A]
    /\ f[0] = base
    /\ \A n \in 1..m : f[n] = next[n][f[n - 1]]

LEMMA Recursion ==
  ASSUME NEW A, NEW base \in A, NEW m \in Nat, NEW next \in [1..m -> [A -> A]]
  PROVE  \E f : Recursive(f, A, base, m, next)
<1> DEFINE Upto(k) == \E f \in [0..k -> A] :
                         f[0] = base /\ \A n \in 1..k : f[n] = next[n][f[n - 1]]
<1>1. Upto(0)
  <2>1. [n \in 0..0 |-> base] \in [0..0 -> A] /\ [n \in 0..0 |-> base][0] = base /\ 1..0 = {}
    OBVIOUS
  <2> QED
    BY <2>1
<1>2. ASSUME NEW k \in 1..m, Upto(k - 1) PROVE Upto(k)
  <2>1. PICK g \in [0..(k - 1) -> A] :
           g[0] = base /\ \A n \in 1..(k - 1) : g[n] = next[n][g[n - 1]]
    BY <1>2
  <2>2. PICK f : f = [n \in 0..k |-> IF n = k THEN next[k][g[k - 1]] ELSE g[n]]
    OBVIOUS
  <2>3. k \in Nat /\ k >= 1 /\ k \in 1..m
    OBVIOUS
  <2>4. next[k][g[k - 1]] \in A
    BY <2>3
  <2>5. \A n \in 0..k : n # k => n \in 0..(k - 1)
    BY <2>3
  <2>6. f \in [0..k -> A]
    BY <2>2, <2>4, <2>5
  <2>7. f[0] = base
    BY <2>1, <2>2, <2>3
  <2>8. ASSUME NEW n \in 1..k PROVE f[n] = next[n][f[n - 1]]
    <3>1. n - 1 \in 0..k /\ n - 1 # k /\ n \in 0..k
      BY <2>3
    <3>2. f[n - 1] = g[n - 1]
      BY <2>2, <3>1
    <3>3. CASE n = k
      BY <2>2, <3>1, <3>2, <3>3
    <3>4. CASE n # k
      <4>1. n \in 1..(k - 1) /\ f[n] = g[n]
        BY <2>2, <2>3, <3>1, <3>4
      <4> QED
        BY <2>1, <3>2, <4>1
    <3> QED
      BY <3>3, <3>4
  <2> QED
    BY <2>6, <2>7, <2>8
<1> HIDE DEF Upto
<1>3. Upto(m)
  <2>1. PICK T : T = {k \in 0..m : Upto(k)}
    OBVIOUS
  <2>2. 0 \in T
    BY <1>1, <2>1
  <2>3. \A n \in 1..m : n - 1 \in T => n \in T
    BY <1>2, <2>1
  <2>4. \A n \in 0..m : n \in T
    BY <2>2, <2>3, Induction
  <2> QED
    BY <2>1, <2>4
<1> QED
  BY <1>3 DEF Upto, Recursive

----------------------------------------------------------------------------
(***************************************************************************)
(* Lists of links.                                                          *)
(***************************************************************************)
\* Lists without repetitions.
Distinct(s) == \A i, j \in DOMAIN s : s[i] = s[j] => i = j

\* AddNew appends what is new and a link.
LEMMA AddNewAdds ==
  ASSUME NEW S, NEW urls \in Seq(S), NEW u \in S \cup {None}
  PROVE  /\ AddNew(urls, u) \in Seq(S)
         /\ Distinct(urls) => Distinct(AddNew(urls, u))
         /\ ToSet(AddNew(urls, u)) = ToSet(urls) \cup ({u} \ {None})
<1>1. Len(urls) \in Nat /\ DOMAIN urls = 1..Len(urls) /\ \A i \in 1..Len(urls) : urls[i] \in S
  BY LenProperties, ElementOfSeq
<1>2. CASE u = None \/ u \in ToSet(urls)
  BY <1>2 DEF AddNew
<1>3. CASE u # None /\ u \notin ToSet(urls)
  <2>1. PICK s : s = Append(urls, u)
    OBVIOUS
  <2>2. /\ s \in Seq(S) /\ DOMAIN s = 1..(Len(urls) + 1)
        /\ \A i \in 1..Len(urls) : s[i] = urls[i]
        /\ s[Len(urls) + 1] = u
    BY <1>1, <1>3, <2>1, AppendProperties, LenProperties
  <2>3. ToSet(s) = ToSet(urls) \cup {u}
    <3>1. ASSUME NEW i \in 1..(Len(urls) + 1) PROVE s[i] \in ToSet(urls) \cup {u}
      BY <1>1, <2>2 DEF ToSet
    <3>2. ASSUME NEW i \in 1..Len(urls) PROVE urls[i] \in ToSet(s)
      <4>1. i \in DOMAIN s /\ s[i] = urls[i]
        BY <1>1, <2>2
      <4> QED
        BY <4>1 DEF ToSet
    <3>3. u \in ToSet(s)
      <4>1. Len(urls) + 1 \in DOMAIN s
        BY <1>1, <2>2
      <4> QED
        BY <2>2, <4>1 DEF ToSet
    <3> QED
      BY <1>1, <2>2, <3>1, <3>2, <3>3 DEF ToSet
  <2>4. Distinct(urls) => Distinct(s)
    <3> SUFFICES ASSUME Distinct(urls), NEW i \in DOMAIN s, NEW j \in DOMAIN s, s[i] = s[j]
                 PROVE  i = j
      BY DEF Distinct
    <3>1. \A k \in 1..Len(urls) : s[k] # u
      BY <1>1, <1>3, <2>2 DEF ToSet
    <3>2. i \in 1..Len(urls) \/ i = Len(urls) + 1
      BY <1>1, <2>2
    <3>3. j \in 1..Len(urls) \/ j = Len(urls) + 1
      BY <1>1, <2>2
    <3> QED
      BY <1>1, <2>2, <3>1, <3>2, <3>3 DEF Distinct
  <2>5. AddNew(urls, u) = s
    BY <1>3, <2>1 DEF AddNew
  <2> QED
    BY <1>3, <2>2, <2>3, <2>4, <2>5
<1> QED
  BY <1>2, <1>3

\* What AddAll computes.
LEMMA AddAllSteps ==
  ASSUME NEW S, NEW urls \in Seq(S), NEW links \in Seq(S \cup {None})
  PROVE  \E f \in [0..Len(links) -> Seq(S)] :
            /\ f[0] = urls
            /\ \A n \in 1..Len(links) : f[n] = AddNew(f[n - 1], links[n])
            /\ AddAll(urls, links) = f[Len(links)]
<1>0. PICK m : m = Len(links)
  OBVIOUS
<1>1. m \in Nat /\ \A n \in 1..m : links[n] \in S \cup {None}
  BY <1>0, LenProperties, ElementOfSeq
<1>2. PICK next : next = [n \in 1..m |-> [s \in Seq(S) |-> AddNew(s, links[n])]]
  OBVIOUS
<1>3. next \in [1..m -> [Seq(S) -> Seq(S)]]
  <2>1. ASSUME NEW n \in 1..m, NEW s \in Seq(S) PROVE AddNew(s, links[n]) \in Seq(S)
    BY <1>1, AddNewAdds
  <2> QED
    BY <1>2, <2>1
<1>4. PICK f \in [0..m -> Seq(S)] :
         f[0] = urls /\ \A n \in 1..m : f[n] = next[n][f[n - 1]]
  <2>1. PICK f : Recursive(f, Seq(S), urls, m, next)
    BY <1>1, <1>3, Recursion, Zenon
  <2> QED
    BY <2>1 DEF Recursive
<1>5. \A n \in 1..m : f[n] = AddNew(f[n - 1], links[n])
  <2> SUFFICES ASSUME NEW n \in 1..m PROVE f[n] = AddNew(f[n - 1], links[n])
    OBVIOUS
  <2>1. n - 1 \in 0..m
    BY <1>1
  <2>2. f[n - 1] \in Seq(S)
    BY <2>1
  <2> QED
    BY <1>2, <1>4, <2>2
<1> DEFINE Steps(g) == [n \in 0..m |-> IF n = 0 THEN urls ELSE AddNew(g[n - 1], links[n])]
<1>6. f = Steps(f)
  <2>1. \A n \in 0..m : n = 0 \/ n \in 1..m
    BY <1>1
  <2> QED
    BY <1>4, <1>5, <2>1
<1>7. PICK g : g = Steps(g) /\ AddAll(urls, links) = g[m]
  <2>1. PICK g : g = CHOOSE h : h = Steps(h)
    OBVIOUS
  <2>2. g = Steps(g)
    BY <1>6, <2>1
  <2>3. AddAll(urls, links) = g[m]
    BY <1>0, <2>1 DEF AddAll
  <2> QED
    BY <2>2, <2>3
<1>8. g[m] = f[m]
  <2>1. PICK T : T = {n \in 0..m : g[n] = f[n]}
    OBVIOUS
  <2>2. 0 \in T
    BY <1>1, <1>4, <1>7, <2>1
  <2>3. ASSUME NEW n \in 1..m, n - 1 \in T PROVE n \in T
    <3>1. n \in 0..m /\ n # 0
      BY <1>1
    <3>2. g[n] = AddNew(g[n - 1], links[n])
      BY <1>7, <3>1
    <3>3. g[n - 1] = f[n - 1]
      BY <2>1, <2>3
    <3> QED
      BY <1>5, <2>1, <3>1, <3>2, <3>3
  <2>4. \A n \in 0..m : n \in T
    <3>1. \A n \in 1..m : n - 1 \in T => n \in T
      BY <2>3
    <3>2. m \in Nat
      BY <1>1
    <3> QED
      BY <2>2, <3>1, <3>2, Induction
  <2>5. m \in 0..m
    BY <1>1
  <2> QED
    BY <2>1, <2>4, <2>5
<1> QED
  BY <1>0, <1>4, <1>5, <1>7, <1>8

\* AddAll appends what is new: a list without repetitions stays one, and holds
\* what it held and the links.
LEMMA AddAllAdds ==
  ASSUME NEW S, NEW urls \in Seq(S), NEW links \in Seq(S \cup {None})
  PROVE  /\ AddAll(urls, links) \in Seq(S)
         /\ Distinct(urls) => Distinct(AddAll(urls, links))
         /\ ToSet(AddAll(urls, links)) = ToSet(urls) \cup (ToSet(links) \ {None})
<1>0. PICK m : m = Len(links)
  OBVIOUS
<1>1. m \in Nat /\ DOMAIN links = 1..m /\ \A n \in 1..m : links[n] \in S \cup {None}
  BY <1>0, LenProperties, ElementOfSeq
<1>2. PICK f \in [0..m -> Seq(S)] :
         /\ f[0] = urls
         /\ \A n \in 1..m : f[n] = AddNew(f[n - 1], links[n])
         /\ AddAll(urls, links) = f[m]
  <2>1. PICK f \in [0..Len(links) -> Seq(S)] :
           /\ f[0] = urls
           /\ \A n \in 1..Len(links) : f[n] = AddNew(f[n - 1], links[n])
           /\ AddAll(urls, links) = f[Len(links)]
    BY AddAllSteps
  <2> QED
    BY <1>0, <2>1
<1> DEFINE Upto(n) == {links[i] : i \in 1..n} \ {None}
<1>3. PICK T : T = {n \in 0..m : /\ Distinct(urls) => Distinct(f[n])
                               /\ ToSet(f[n]) = ToSet(urls) \cup Upto(n)}
  OBVIOUS
<1>4. 0 \in T
  <2>1. Upto(0) = {} /\ 0 \in 0..m
    BY <1>1
  <2> HIDE DEF Upto
  <2> QED
    BY <1>2, <1>3, <2>1
<1>5. ASSUME NEW n \in 1..m, n - 1 \in T PROVE n \in T
  <2>1. n \in 0..m /\ n - 1 \in 0..m
    BY <1>1
  <2>2. f[n - 1] \in Seq(S) /\ links[n] \in S \cup {None}
    BY <1>1, <1>2, <2>1
  <2>3. /\ Distinct(f[n - 1]) => Distinct(f[n])
        /\ ToSet(f[n]) = ToSet(f[n - 1]) \cup ({links[n]} \ {None})
    <3>1. PICK s, u : s = f[n - 1] /\ u = links[n]
      OBVIOUS
    <3>2. s \in Seq(S) /\ u \in S \cup {None} /\ f[n] = AddNew(s, u)
      BY <1>2, <2>2, <3>1
    <3>3. /\ Distinct(s) => Distinct(AddNew(s, u))
          /\ ToSet(AddNew(s, u)) = ToSet(s) \cup ({u} \ {None})
      BY <3>2, AddNewAdds
    <3> QED
      BY <3>1, <3>2, <3>3
  <2>4. Upto(n) = Upto(n - 1) \cup ({links[n]} \ {None})
    <3>1. \A i \in 1..n : i \in 1..(n - 1) \/ i = n
      OBVIOUS
    <3>2. n \in 1..n /\ \A i \in 1..(n - 1) : i \in 1..n
      OBVIOUS
    <3> QED
      BY <3>1, <3>2
  <2> HIDE DEF Upto
  <2>5. ToSet(f[n]) = ToSet(urls) \cup Upto(n)
    BY <1>3, <1>5, <2>3, <2>4
  <2> QED
    BY <1>3, <1>5, <2>1, <2>3, <2>5
<1>6. m \in T
  <2>1. m \in Nat /\ m \in 0..m
    BY <1>1
  <2>2. \A n \in 1..m : n - 1 \in T => n \in T
    BY <1>5
  <2> QED
    BY <1>4, <2>1, <2>2, Induction
<1>7. Upto(m) = ToSet(links) \ {None}
  BY <1>1 DEF ToSet
<1>8. f[m] \in Seq(S)
  BY <1>1, <1>2
<1> HIDE DEF Upto
<1> QED
  BY <1>2, <1>3, <1>6, <1>7, <1>8
\* What Claude's answer gives, block by block.
LEMMA CiteClaudeSteps ==
  ASSUME NEW S, NEW blocks, Len(blocks) \in Nat,
         \A n \in 1..Len(blocks) : /\ blocks[n].citations \in Seq(S \cup {None})
                                  /\ blocks[n].results \in Seq(S \cup {None})
  PROVE  \E f \in [0..Len(blocks) -> Seq(S)] :
            /\ f[0] = <<>>
            /\ \A n \in 1..Len(blocks) :
                  f[n] = AddAll(AddAll(f[n - 1], blocks[n].citations), blocks[n].results)
            /\ CiteClaude(blocks) = f[Len(blocks)]
<1>0. PICK m : m = Len(blocks)
  OBVIOUS
<1> DEFINE Added(s, n) == AddAll(AddAll(s, blocks[n].citations), blocks[n].results)
<1>1. m \in Nat /\ <<>> \in Seq(S)
  BY <1>0, EmptySeq
<1>2. PICK next : next = [n \in 1..m |-> [s \in Seq(S) |-> Added(s, n)]]
  OBVIOUS
<1>3. next \in [1..m -> [Seq(S) -> Seq(S)]]
  <2>1. ASSUME NEW n \in 1..m, NEW s \in Seq(S) PROVE Added(s, n) \in Seq(S)
    <3>1. AddAll(s, blocks[n].citations) \in Seq(S)
      BY <1>0, AddAllAdds
    <3> QED
      BY <1>0, <3>1, AddAllAdds
  <2> HIDE DEF Added
  <2> QED
    BY <1>2, <2>1
<1> HIDE DEF Added
<1>4. PICK f \in [0..m -> Seq(S)] :
         f[0] = <<>> /\ \A n \in 1..m : f[n] = next[n][f[n - 1]]
  <2>1. PICK f : Recursive(f, Seq(S), <<>>, m, next)
    BY <1>1, <1>3, Recursion, Zenon
  <2> QED
    BY <2>1 DEF Recursive
<1>5. \A n \in 1..m : f[n] = Added(f[n - 1], n)
  <2> SUFFICES ASSUME NEW n \in 1..m PROVE f[n] = Added(f[n - 1], n)
    OBVIOUS
  <2>1. n - 1 \in 0..m
    BY <1>1
  <2>2. f[n - 1] \in Seq(S)
    BY <2>1
  <2> QED
    BY <1>2, <1>4, <2>2
<1> DEFINE Steps(g) == [n \in 0..m |-> IF n = 0 THEN <<>> ELSE Added(g[n - 1], n)]
<1>6. f = Steps(f)
  <2>1. \A n \in 0..m : n = 0 \/ n \in 1..m
    BY <1>1
  <2> QED
    BY <1>4, <1>5, <2>1
<1>7. PICK g : g = Steps(g) /\ CiteClaude(blocks) = g[m]
  <2>1. PICK g : g = CHOOSE h : h = Steps(h)
    OBVIOUS
  <2>2. g = Steps(g)
    BY <1>6, <2>1
  <2>3. CiteClaude(blocks) = g[m]
    BY <1>0, <2>1 DEF CiteClaude, Added
  <2> QED
    BY <2>2, <2>3
<1>8. g[m] = f[m]
  <2>1. PICK T : T = {n \in 0..m : g[n] = f[n]}
    OBVIOUS
  <2>2. 0 \in T
    BY <1>1, <1>4, <1>7, <2>1
  <2>3. \A n \in 1..m : n - 1 \in T => n \in T
    <3> SUFFICES ASSUME NEW n \in 1..m, n - 1 \in T PROVE n \in T
      OBVIOUS
    <3>1. n \in 0..m /\ n # 0
      BY <1>1
    <3>2. g[n] = Added(g[n - 1], n)
      BY <1>7, <3>1
    <3>3. g[n - 1] = f[n - 1]
      BY <2>1
    <3> QED
      BY <1>5, <2>1, <3>1, <3>2, <3>3
  <2>4. \A n \in 0..m : n \in T
    BY <1>1, <2>2, <2>3, Induction
  <2> QED
    BY <1>1, <2>1, <2>4
<1> QED
  BY <1>0, <1>4, <1>5, <1>7, <1>8 DEF Added

\* The members of a sequence.
LEMMA LinksOf ==
  ASSUME NEW S, NEW s \in Seq(S)
  PROVE  ToSet(s) \subseteq S
BY LenProperties, ElementOfSeq DEF ToSet

\* The links of all blocks, each once.
LEMMA CiteClaudeCites ==
  ASSUME NEW S, None \notin S, NEW blocks, Len(blocks) \in Nat,
         \A n \in 1..Len(blocks) : /\ blocks[n].citations \in Seq(S \cup {None})
                                  /\ blocks[n].results \in Seq(S \cup {None})
  PROVE  /\ CiteClaude(blocks) \in Seq(S)
         /\ Distinct(CiteClaude(blocks))
         /\ ToSet(CiteClaude(blocks)) =
               {u \in S : \E i \in 1..Len(blocks) :
                   u \in ToSet(blocks[i].citations) \cup ToSet(blocks[i].results)}
<1>0. PICK m : m = Len(blocks)
  OBVIOUS
<1>1. m \in Nat
  BY <1>0
<1>2. PICK f \in [0..m -> Seq(S)] :
         /\ f[0] = <<>>
         /\ \A n \in 1..m :
               f[n] = AddAll(AddAll(f[n - 1], blocks[n].citations), blocks[n].results)
         /\ CiteClaude(blocks) = f[m]
  <2>1. PICK f \in [0..Len(blocks) -> Seq(S)] :
           /\ f[0] = <<>>
           /\ \A n \in 1..Len(blocks) :
                 f[n] = AddAll(AddAll(f[n - 1], blocks[n].citations), blocks[n].results)
           /\ CiteClaude(blocks) = f[Len(blocks)]
    BY CiteClaudeSteps
  <2> QED
    BY <1>0, <2>1
<1> DEFINE Links(n) == ToSet(blocks[n].citations) \cup ToSet(blocks[n].results)
           Of(n) == Links(n) \cap S
           Upto(n) == {u \in S : \E i \in 1..n : u \in Links(i)}
<1>u. ASSUME NEW n PROVE \A x : x \in Upto(n) <=> x \in S /\ \E i \in 1..n : x \in Links(i)
  <2> HIDE DEF Links
  <2> QED
    OBVIOUS
<1>3. PICK T : T = {n \in 0..m : Distinct(f[n]) /\ ToSet(f[n]) = Upto(n)}
  OBVIOUS
<1>4. 0 \in T
  <2>1. Upto(0) = {} /\ 0 \in 0..m
    BY <1>1
  <2>2. ToSet(<<>>) = {} /\ Distinct(<<>>)
    BY DEF ToSet, Distinct
  <2> HIDE DEF Upto
  <2> QED
    BY <1>2, <1>3, <2>1, <2>2
<1>5. ASSUME NEW n \in 1..m, n - 1 \in T PROVE n \in T
  <2>1. n \in 0..m /\ n - 1 \in 0..m
    BY <1>1
  <2>2. PICK s, c, r : s = f[n - 1] /\ c = blocks[n].citations /\ r = blocks[n].results
    OBVIOUS
  <2>3. s \in Seq(S) /\ c \in Seq(S \cup {None}) /\ r \in Seq(S \cup {None})
    BY <1>0, <1>2, <2>1, <2>2
  <2>4. PICK t : t = AddAll(s, c)
    OBVIOUS
  <2>5. /\ t \in Seq(S)
        /\ Distinct(s) => Distinct(t)
        /\ ToSet(t) = ToSet(s) \cup (ToSet(c) \ {None})
    <3>0. s \in Seq(S) /\ c \in Seq(S \cup {None})
      BY <2>3
    <3>1. /\ AddAll(s, c) \in Seq(S)
          /\ Distinct(s) => Distinct(AddAll(s, c))
          /\ ToSet(AddAll(s, c)) = ToSet(s) \cup (ToSet(c) \ {None})
      BY <3>0, AddAllAdds
    <3> QED
      BY <2>4, <3>1
  <2>6. f[n] = AddAll(t, r)
    BY <1>2, <2>2, <2>4
  <2>7. /\ Distinct(t) => Distinct(f[n])
        /\ ToSet(f[n]) = ToSet(t) \cup (ToSet(r) \ {None})
    <3>0. t \in Seq(S) /\ r \in Seq(S \cup {None})
      BY <2>3, <2>5
    <3>1. /\ Distinct(t) => Distinct(AddAll(t, r))
          /\ ToSet(AddAll(t, r)) = ToSet(t) \cup (ToSet(r) \ {None})
      BY <3>0, AddAllAdds
    <3> QED
      BY <2>6, <3>1
  <2>8. Distinct(s) /\ ToSet(s) = Upto(n - 1)
    BY <1>3, <1>5, <2>2
  <2>9. Upto(n) = Upto(n - 1) \cup Of(n)
    <3> HIDE DEF Links
    <3>1. \A x : x \in Upto(n) <=> x \in S /\ \E i \in 1..n : x \in Links(i)
      BY <1>u
    <3>2. \A x : x \in Upto(n - 1) <=> x \in S /\ \E i \in 1..(n - 1) : x \in Links(i)
      BY <1>u
    <3>3. \A i : i \in 1..n <=> i \in 1..(n - 1) \/ i = n
      OBVIOUS
    <3>4. \A x : x \in Of(n) <=> x \in S /\ x \in Links(n)
      OBVIOUS
    <3> HIDE DEF Upto, Of
    <3> QED
      BY <3>1, <3>2, <3>3, <3>4
  <2>10. Of(n) = (ToSet(c) \ {None}) \cup (ToSet(r) \ {None})
    <3>1. ToSet(c) \subseteq S \cup {None} /\ ToSet(r) \subseteq S \cup {None}
      BY <2>3, LinksOf
    <3> QED
      BY <2>2, <3>1
  <2> HIDE DEF Upto, Of, Links
  <2>11. ToSet(f[n]) = Upto(n)
    BY <2>5, <2>7, <2>8, <2>9, <2>10
  <2> QED
    BY <1>3, <2>1, <2>5, <2>7, <2>8, <2>11
<1>6. m \in T
  <2>1. m \in Nat /\ m \in 0..m
    BY <1>1
  <2>2. \A n \in 1..m : n - 1 \in T => n \in T
    BY <1>5
  <2> QED
    BY <1>4, <2>1, <2>2, Induction
<1>7. Upto(m) = {u \in S : \E i \in 1..m : u \in Links(i)}
  OBVIOUS
<1>8. f[m] \in Seq(S)
  BY <1>1, <1>2
<1> HIDE DEF Upto
<1> QED
  BY <1>0, <1>2, <1>3, <1>6, <1>7, <1>8

----------------------------------------------------------------------------
(***************************************************************************)
(* What _extract_json returns of any text are tokens of it.                 *)
(***************************************************************************)
LEMMA PieceType ==
  ASSUME NEW t \in Seq(Tokens), NEW m \in Nat, NEW n \in Int, m >= 1, n <= Len(t)
  PROVE  SubSeq(t, m, n) \in Seq(Tokens)
<1>1. ASSUME NEW i \in m..n PROVE t[i] \in Tokens
  <2>1. i \in 1..Len(t)
    BY LenProperties
  <2> QED
    BY <2>1, ElementOfSeq
<1> QED
  BY <1>1, SubSeqProperties

LEMMA EmbeddedType ==
  ASSUME NEW t \in Seq(Tokens)
  PROVE  Embedded(t) \in Seq(Tokens)
<1>0. Len(t) \in Nat /\ DOMAIN t = 1..Len(t)
  BY LenProperties
<1>1. PICK Starts : Starts = {i \in DOMAIN t : Ends(t, i) # {}}
  OBVIOUS
<1>2. CASE Starts = {}
  BY <1>1, <1>2 DEF Embedded
<1>3. CASE Starts # {}
  <2>1. PICK s : s = CHOOSE i \in Starts : \A k \in Starts : i <= k
    OBVIOUS
  <2>2. s \in Starts
    <3>1. Starts \subseteq Nat
      BY <1>0, <1>1
    <3> QED
      BY <1>3, <2>1, <3>1, Least
  <2>3. s \in 1..Len(t) /\ Ends(t, s) # {}
    BY <1>0, <1>1, <2>2
  <2>4. Ends(t, s) \subseteq 0..Len(t)
    BY <1>0, <2>3 DEF Ends
  <2>5. PICK e : e = CHOOSE j \in Ends(t, s) : \A k \in Ends(t, s) : k <= j
    OBVIOUS
  <2>6. e \in Ends(t, s)
    <3>1. \E j \in Ends(t, s) : \A k \in Ends(t, s) : k <= j
      BY <1>0, <2>3, <2>4, Greatest
    <3> QED
      BY <2>5, <3>1
  <2>7. Embedded(t) = SubSeq(t, s, e)
    BY <1>1, <1>3, <2>1, <2>5 DEF Embedded
  <2> QED
    BY <1>0, <2>3, <2>4, <2>6, <2>7, PieceType
<1> QED
  BY <1>2, <1>3

LEMMA ExtractType ==
  ASSUME NEW t \in Seq(Tokens)
  PROVE  ExtractJson(t) \in Seq(Tokens)
<1>0. Len(t) \in Nat /\ DOMAIN t = 1..Len(t)
  BY LenProperties
<1>1. PICK Fences : Fences = {i \in DOMAIN t : t[i] = "fence"}
  OBVIOUS
<1>2. Fences \subseteq Nat /\ Fences \subseteq 1..Len(t)
  BY <1>0, <1>1
<1>3. PICK open : open = CHOOSE i \in Fences : \A k \in Fences : i <= k
  OBVIOUS
<1>4. PICK close : close = CHOOSE i \in Fences \ {open} : \A k \in Fences \ {open} : i <= k
  OBVIOUS
<1>5. ASSUME Fences # {}, Fences # {open}
      PROVE  SubSeq(t, open + 1, close - 1) \in Seq(Tokens)
  <2>1. open \in Fences
    BY <1>2, <1>3, <1>5, Least
  <2>2. PICK Others : Others = Fences \ {open}
    OBVIOUS
  <2>3. Others \subseteq Nat /\ Others # {}
    BY <1>2, <1>5, <2>1, <2>2
  <2>4. close \in Others
    BY <1>4, <2>2, <2>3, Least
  <2>5. open \in 1..Len(t) /\ close \in 1..Len(t)
    BY <1>2, <2>1, <2>2, <2>4
  <2>6. /\ open + 1 \in Nat /\ close - 1 \in Int
        /\ open + 1 >= 1 /\ close - 1 <= Len(t)
    BY <1>0, <2>5
  <2> QED
    BY <2>6, PieceType
<1>6. \/ ExtractJson(t) = t
      \/ ExtractJson(t) = Embedded(t)
      \/ /\ Fences # {} /\ Fences # {open}
         /\ ExtractJson(t) = SubSeq(t, open + 1, close - 1)
  BY <1>1, <1>3, <1>4, Zenon DEF ExtractJson
<1> QED
  BY <1>5, <1>6, EmbeddedType

(***************************************************************************)
(* The invariant.                                                           *)
(***************************************************************************)
\* Claude's answer, and the text of its last block.
Answered ==
    raw.provider = "claude" =>
        /\ raw.content \in Blocks /\ object \in Objects
        /\ \E before, after \in Prose :
              text \in {before \o object \o after,
                        before \o <<"fence">> \o object \o <<"fence">> \o after}

LEMMA AnswerType ==
  ASSUME NEW before \in Prose, NEW after \in Prose, NEW o \in Objects,
         NEW t \in {before \o o \o after,
                    before \o <<"fence">> \o o \o <<"fence">> \o after}
  PROVE  t \in Seq(Tokens)
<1>1. CASE t = before \o o \o after
  BY <1>1, PlainTokens DEF PlainText
<1>2. CASE t = before \o <<"fence">> \o o \o <<"fence">> \o after
  BY <1>2, FencedTokens DEF FencedText
<1> QED
  BY <1>1, <1>2

\* How far the look at the links has come: there is an answer per chunk, no
\* chunk without a link has one, and nothing is cited before all are in.
Looked ==
    /\ raw.provider = "claude" => resolved = <<>>
    /\ raw.provider # "claude" =>
          /\ raw.content \in Chunks /\ text = <<>>
          /\ Len(resolved) = Len(raw.content)
    /\ \A i \in DOMAIN resolved : resolved[i] # None => HasLink(raw.content[i])
    /\ citations # <<None>> =>
          \A i \in DOMAIN resolved : HasLink(raw.content[i]) => resolved[i] # None

IInv == TypeOK /\ Answered /\ Looked

LEMMA BlockLinks ==
  ASSUME NEW b \in Blocks
  PROVE  /\ Len(b) \in Nat /\ DOMAIN b = 1..Len(b)
         /\ \A i \in 1..Len(b) : /\ b[i].citations \in Seq(DOMAIN Target \cup {None})
                                 /\ b[i].results \in Seq(DOMAIN Target \cup {None})
<1>1. PICK Block : Block = [text : {"thought", "final", None},
                            citations : Seq(DOMAIN Target \cup {None}),
                            results : Seq(DOMAIN Target \cup {None})]
  OBVIOUS
<1>2. b \in Seq(Block)
  BY <1>1, BlocksAssumption
<1>3. ASSUME NEW i \in 1..Len(b) PROVE b[i] \in Block
  BY <1>2, ElementOfSeq
<1> QED
  BY <1>1, <1>2, <1>3, LenProperties

LEMMA ChunkLinks ==
  ASSUME NEW c \in Chunks
  PROVE  /\ Len(c) \in Nat /\ DOMAIN c = 1..Len(c)
         /\ \A i \in 1..Len(c) : c[i] \in DOMAIN Target \cup {None}
<1>1. c \in Seq(DOMAIN Target \cup {None})
  BY LinksAssumption
<1> QED
  BY <1>1, LenProperties, ElementOfSeq

LEMMA IInvInit == Init => IInv
<1> SUFFICES ASSUME Init PROVE IInv
  OBVIOUS
<1>1. Answered
  <2>1. ASSUME raw.provider = "claude" PROVE raw.content \in Blocks
    BY <2>1 DEF Init
  <2> QED
    BY <2>1 DEF Init, Answered
<1>2. citations = <<None>> /\ json = <<None>>
  BY DEF Init
<1>3. CASE raw.provider = "claude"
  <2>1. resolved = <<>> /\ resolved \in Seq(DOMAIN Target \cup {None})
    BY <1>3, EmptySeq DEF Init
  <2>2. text \in Seq(Tokens)
    BY <1>1, <1>3, AnswerType DEF Answered
  <2>3. Looked
    BY <1>2, <1>3, <2>1 DEF Looked
  <2> QED
    BY <1>1, <1>2, <2>1, <2>2, <2>3 DEF IInv, TypeOK
<1>4. CASE raw.provider # "claude"
  <2>1. raw.content \in Chunks /\ text = <<>>
    BY <1>4 DEF Init
  <2>2. PICK n : n = Len(raw.content)
    OBVIOUS
  <2>3. n \in Nat /\ DOMAIN raw.content = 1..n
    BY <2>1, <2>2, ChunkLinks
  <2>4. resolved = [i \in 1..n |-> None]
    BY <1>4, <2>3 DEF Init
  <2>5. resolved \in Seq(DOMAIN Target \cup {None}) /\ Len(resolved) = n
    BY <2>3, <2>4
  <2>6. text \in Seq(Tokens)
    BY <2>1, EmptySeq
  <2>7. Looked
    BY <1>2, <1>4, <2>1, <2>2, <2>4, <2>5 DEF Looked
  <2> QED
    BY <1>1, <1>2, <2>5, <2>6, <2>7 DEF IInv, TypeOK
<1> QED
  BY <1>3, <1>4

LEMMA ResolveStep ==
  ASSUME IInv, NEW i \in DOMAIN resolved, Resolve(i)
  PROVE  IInv'
<1>1. /\ resolved \in Seq(DOMAIN Target \cup {None})
      /\ DOMAIN resolved = 1..Len(resolved) /\ i \in 1..Len(resolved)
  BY LenProperties DEF IInv, TypeOK
<1>2. raw.provider # "claude" /\ raw.content \in Chunks /\ Len(resolved) = Len(raw.content)
  <2>1. raw.provider # "claude"
    BY <1>1, EmptySeq DEF IInv, Looked
  <2> QED
    BY <2>1 DEF IInv, Looked
<1>3. raw.content[i] \in DOMAIN Target
  BY <1>1, <1>2, ChunkLinks DEF Resolve, HasLink
<1>4. PICK v \in DOMAIN Target : resolved' = [resolved EXCEPT ![i] = v]
  <2>1. PICK u : u = raw.content[i]
    OBVIOUS
  <2>2. u \in DOMAIN Target /\ Target[u] \in DOMAIN Target
    BY <1>3, <2>1, LinksAssumption
  <2> QED
    BY <2>1, <2>2 DEF Resolve, ResolveGemini, ResolveVertex
<1>5. /\ resolved' \in Seq(DOMAIN Target \cup {None})
      /\ Len(resolved') = Len(resolved) /\ DOMAIN resolved' = DOMAIN resolved
      /\ \A j \in DOMAIN resolved : resolved'[j] = IF j = i THEN v ELSE resolved[j]
  BY <1>1, <1>4, ExceptSeq, LenProperties
<1>6. UNCHANGED <<raw, object, text, citations, json>>
  BY DEF Resolve
<1>7. TypeOK' /\ Answered'
  BY <1>5, <1>6 DEF IInv, TypeOK, Answered
<1>8. Looked'
  <2>1. HasLink(raw.content[i]) /\ resolved[i] = None
    BY DEF Resolve
  <2>2. citations = <<None>>
    BY <2>1 DEF IInv, Looked
  <2> QED
    BY <1>2, <1>5, <1>6, <2>1, <2>2 DEF IInv, Looked
<1> QED
  BY <1>7, <1>8 DEF IInv

\* The moment the citations are given: they are the sources, each once.
LEMMA CiteStep ==
  ASSUME IInv, Cite
  PROVE  IInv' /\ CitesEverySourceOnce'
<1>1. /\ UNCHANGED <<raw, object, text, resolved, json>>
      /\ citations' = Dispatch(raw, resolved)
  BY DEF Cite
<1>2. /\ citations' \in Seq(DOMAIN Target)
      /\ Distinct(citations')
      /\ ToSet(citations') = Sources
  <2>1. CASE raw.provider = "claude"
    <3>1. PICK b \in Blocks : b = raw.content
      BY <2>1 DEF IInv, Answered
    <3>2. citations' = CiteClaude(b)
      BY <1>1, <2>1, <3>1 DEF Dispatch
    <3>3. Sources = {u \in DOMAIN Target : \E i \in 1..Len(b) :
                        u \in ToSet(b[i].citations) \cup ToSet(b[i].results)}
      BY <2>1, <3>1, BlockLinks DEF Sources
    <3> QED
      BY <3>2, <3>3, BlockLinks, LinksAssumption, CiteClaudeCites
  <2>2. CASE raw.provider # "claude"
    <3>1. citations' = AddAll(<<>>, resolved)
      BY <1>1, <2>2 DEF Dispatch, CiteGemini, CiteVertex
    <3>2. resolved \in Seq(DOMAIN Target \cup {None}) /\ <<>> \in Seq(DOMAIN Target)
      BY EmptySeq DEF IInv, TypeOK
    <3>3. Distinct(<<>>) /\ ToSet(<<>>) = {}
      BY DEF Distinct, ToSet
    <3>4. /\ citations' \in Seq(DOMAIN Target) /\ Distinct(citations')
          /\ ToSet(citations') = ToSet(resolved) \ {None}
      <4>1. PICK S, e : S = DOMAIN Target /\ e = <<>>
        OBVIOUS
      <4>2. e \in Seq(S) /\ resolved \in Seq(S \cup {None}) /\ Distinct(e) /\ ToSet(e) = {}
        BY <3>2, <3>3, <4>1
      <4>3. /\ AddAll(e, resolved) \in Seq(S) /\ Distinct(AddAll(e, resolved))
            /\ ToSet(AddAll(e, resolved)) = ToSet(e) \cup (ToSet(resolved) \ {None})
        BY <4>2, AddAllAdds
      <4> QED
        BY <3>1, <4>1, <4>2, <4>3
    <3>5. /\ DOMAIN resolved = DOMAIN raw.content
          /\ \A i \in DOMAIN resolved : resolved[i] # None <=> HasLink(raw.content[i])
      <4>1. raw.content \in Chunks /\ Len(resolved) = Len(raw.content)
        BY <2>2 DEF IInv, Looked
      <4>2. DOMAIN resolved = DOMAIN raw.content
        BY <3>2, <4>1, ChunkLinks, LenProperties
      <4> QED
        BY <4>2 DEF IInv, Looked, Cite
    <3>6. ToSet(resolved) \ {None} = Sources
      BY <2>2, <3>5 DEF Sources, ToSet
    <3> QED
      BY <3>4, <3>6
  <2> QED
    BY <2>1, <2>2
<1>3. Sources' = Sources
  BY <1>1 DEF Sources
<1>4. CitesEverySourceOnce'
  BY <1>2, <1>3 DEF CitesEverySourceOnce, Distinct
<1>5. Looked'
  BY <1>1 DEF IInv, Looked, Cite
<1> QED
  BY <1>1, <1>2, <1>4, <1>5 DEF IInv, TypeOK, Answered

LEMMA ParseStep ==
  ASSUME IInv, Parse
  PROVE  IInv'
<1>1. UNCHANGED <<raw, object, text, resolved, citations>>
  BY DEF Parse
<1>2. json' \in Seq(Tokens)
  <2>1. <<"word">> \in Seq(Tokens)
    BY DEF Tokens
  <2>2. text \in Seq(Tokens)
    BY DEF IInv, TypeOK
  <2> QED
    BY <2>1, <2>2, ExtractType DEF Parse
<1> QED
  BY <1>1, <1>2 DEF IInv, TypeOK, Answered, Looked

LEMMA IInvStep == IInv /\ [Next]_vars => IInv'
<1>1. ASSUME IInv, UNCHANGED vars PROVE IInv'
  BY <1>1 DEF IInv, TypeOK, Answered, Looked, vars
<1> QED
  BY <1>1, ResolveStep, CiteStep, ParseStep DEF Next

\* Links are resolved to links, only links are cited, and what _extract_json
\* returns consists of tokens of the answer, whatever was answered.
THEOREM TypeCorrect == Spec => []TypeOK
<1>1. IInv => TypeOK
  BY DEF IInv
<1> QED
  BY <1>1, IInvInit, IInvStep, PTL DEF Spec

\* Each provider's citations are the distinct sources of its answer, whatever
\* order the redirects are resolved in and whichever of them fail.
THEOREM SourcesAreCitedOnce == Spec => []CitesEverySourceOnce
<1>1. Init => CitesEverySourceOnce
  BY DEF Init, CitesEverySourceOnce
<1>2. IInv /\ CitesEverySourceOnce /\ [Next]_vars => CitesEverySourceOnce'
  <2> SUFFICES ASSUME IInv, CitesEverySourceOnce, [Next]_vars PROVE CitesEverySourceOnce'
    OBVIOUS
  <2>1. CASE Cite
    BY <2>1, CiteStep
  <2>2. ASSUME NEW i \in DOMAIN resolved, Resolve(i) PROVE CitesEverySourceOnce'
    <3>1. citations' = <<None>>
      BY <2>2 DEF Resolve, IInv, Looked
    <3> QED
      BY <3>1 DEF CitesEverySourceOnce
  <2>3. CASE Parse \/ UNCHANGED vars
    <3>1. UNCHANGED <<raw, resolved, citations>>
      BY <2>3 DEF Parse, vars
    <3> QED
      BY <3>1 DEF CitesEverySourceOnce, Sources
  <2> QED
    BY <2>1, <2>2, <2>3 DEF Next
<1> QED
  BY <1>1, <1>2, IInvInit, IInvStep, PTL DEF Spec

\* However Claude words it, in raw JSON, in a code block or in prose without
\* brackets, the object of its final text block is what _extract_json finds
\* (claude_util.py 252-279), whenever the answer is parsed.
THEOREM TheObjectIsFound == Spec => []JsonIsFound
<1>1. Init => Answered /\ JsonIsFound
  <2> SUFFICES ASSUME Init PROVE Answered /\ JsonIsFound
    OBVIOUS
  <2>1. JsonIsFound
    BY DEF Init, JsonIsFound
  <2>2. ASSUME raw.provider = "claude" PROVE raw.content \in Blocks
    BY <2>2 DEF Init
  <2>3. Answered
    BY <2>2 DEF Init, Answered
  <2> QED
    BY <2>1, <2>3
<1>2. Answered /\ JsonIsFound /\ [Next]_vars => Answered' /\ JsonIsFound'
  <2> SUFFICES ASSUME Answered, JsonIsFound, [Next]_vars PROVE Answered' /\ JsonIsFound'
    OBVIOUS
  <2>1. UNCHANGED <<raw, object, text>>
    BY DEF Next, Resolve, Cite, Parse, vars
  <2>2. Answered'
    BY <2>1 DEF Answered
  <2>3. CASE Parse
    <3>1. raw.content \in Blocks /\ FinalText(raw.content) # None
      BY <2>3 DEF Parse, Answered
    <3>2. FinalText(raw.content) = "final"
      BY <3>1, LastTextIsFinal
    <3>3. json' = ExtractJson(text)
      BY <2>3, <3>2 DEF Parse
    <3>4. object \in Objects /\ IsPrefix(object, ExtractJson(text))
      <4>1. PICK before \in Prose, after \in Prose :
                text \in {before \o object \o after,
                          before \o <<"fence">> \o object \o <<"fence">> \o after}
        BY <2>3 DEF Parse, Answered
      <4>2. object \in Objects
        BY <2>3 DEF Parse, Answered
      <4>3. CASE text = before \o object \o after
        BY <4>2, <4>3, PlainFound
      <4>4. CASE text = before \o <<"fence">> \o object \o <<"fence">> \o after
        BY <4>2, <4>4, FencedFound
      <4> QED
        BY <4>1, <4>2, <4>3, <4>4
    <3> QED
      BY <2>1, <2>2, <3>3, <3>4 DEF JsonIsFound
  <2>4. CASE UNCHANGED json
    BY <2>1, <2>2, <2>4 DEF JsonIsFound
  <2> QED
    BY <2>3, <2>4 DEF Next, Resolve, Cite, vars
<1> QED
  BY <1>1, <1>2, PTL DEF Spec
=============================================================================
