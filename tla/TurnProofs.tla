----------------------------- MODULE TurnProofs ------------------------------
(***************************************************************************)
(* What AgentTurn promises, for every length of batch, budget, number of   *)
(* turns and amount of damage: the transcript a run sends to the model is  *)
(* valid, and TurnIsSound.                                                 *)
(***************************************************************************)
EXTENDS AgentTurn, SeqLemmas, FiniteSetTheorems

-----------------------------------------------------------------------------
(* The transcripts: what concatenation, the repair of a transcript, its      *)
(* compression and the writing of its rows preserve.                         *)

\* The messages of a transcript after t runs: a user message declares no calls, a
\* batch declares each call once, and only what is put together has turn 0.
Messages(t) ==
  {m \in [role : {"user", "assistant", "tool"}, ids : Seq(CallIds), turn : 0..t] :
     /\ m.role = "user" => m.ids = <<>>
     /\ \A i, j \in DOMAIN m.ids : m.ids[i] = m.ids[j] => i = j
     /\ m.role = "assistant" => m.turn # 0}

\* A batch of calls, and an answer to the user.
Plain(m) == m.role = "assistant" /\ m.ids = <<>>

\* Valid, without what it says of the first message.
Answered(msgs) ==
  /\ \A i \in DOMAIN msgs : \A k \in DOMAIN msgs[i].ids :
       msgs[i].role = "assistant" =>
         /\ i + k \in DOMAIN msgs
         /\ msgs[i + k].role = "tool" /\ msgs[i + k].ids = <<msgs[i].ids[k]>>
  /\ \A i \in DOMAIN msgs : msgs[i].role = "tool" =>
       \E j \in 1..(i - 1) : msgs[j].role = "assistant" /\ j + Len(msgs[j].ids) >= i

\* OneAnswerPerTurn of any transcript.
SingleAnswers(msgs) ==
  \A i \in DOMAIN msgs : \A j \in DOMAIN msgs :
    Plain(msgs[i]) /\ j > i => msgs[j].turn # msgs[i].turn

LEMMA ValidIsAnswered ==
  ASSUME NEW msgs
  PROVE  Valid(msgs) <=> (msgs # <<>> => msgs[1].role = "user") /\ Answered(msgs)
BY DEF Valid, Answered

LEMMA MessageType ==
  ASSUME NEW t \in Nat, NEW m \in Messages(t)
  PROVE  /\ m.ids \in Seq(CallIds) /\ Len(m.ids) \in Nat /\ DOMAIN m.ids = 1..Len(m.ids)
         /\ m.role \in {"user", "assistant", "tool"} /\ m.turn \in 0..t
         /\ m.role = "user" => Len(m.ids) = 0
<1>1. m.ids \in Seq(CallIds)
  BY DEF Messages
<1>2. Len(m.ids) \in Nat /\ DOMAIN m.ids = 1..Len(m.ids)
  BY <1>1, LenProperties
<1>3. m.role = "user" => Len(m.ids) = 0
  BY EmptySeq DEF Messages
<1>. QED BY <1>1, <1>2, <1>3 DEF Messages

\* Transcripts in which every call is answered can be put one behind the other.
LEMMA AnsweredConcat ==
  ASSUME NEW t \in Nat, NEW a \in Seq(Messages(t)), NEW b \in Seq(Messages(t)),
         Answered(a), Answered(b)
  PROVE  Answered(a \o b)
<1> DEFINE c == a \o b
           n == Len(a)
           m == Len(b)
<1>1. /\ n \in Nat /\ m \in Nat /\ DOMAIN a = 1..n /\ DOMAIN b = 1..m
      /\ c \in Seq(Messages(t)) /\ DOMAIN c = 1..n + m
  BY LenProperties, ConcatProperties
<1>2. \A i \in 1..n : c[i] = a[i]
  BY <1>1, ConcatProperties
<1>3. \A i \in 1..m : c[n + i] = b[i]
  <2>1. \A i \in 1..n + m : c[i] = IF i <= n THEN a[i] ELSE b[i - n]
    BY ConcatProperties
  <2>2. ASSUME NEW i \in 1..m PROVE n + i \in 1..n + m /\ ~ (n + i <= n) /\ (n + i) - n = i
    BY <1>1
  <2>. QED BY <2>1, <2>2
<1> HIDE DEF c, n, m
<1>4. ASSUME NEW i \in 1..n + m
      PROVE  i \in 1..n \/ \E h \in 1..m : i = n + h
  <2>1. i \notin 1..n => i - n \in 1..m /\ i = n + (i - n)
    BY <1>1
  <2>. QED BY <2>1
<1>5. ASSUME NEW i \in 1..n + m, NEW k \in DOMAIN c[i].ids, c[i].role = "assistant"
      PROVE  i + k \in 1..n + m /\ c[i + k].role = "tool" /\ c[i + k].ids = <<c[i].ids[k]>>
  <2>1. CASE i \in 1..n
    <3>1. c[i] = a[i]
      BY <1>2, <2>1
    <3>2. i + k \in 1..n /\ a[i + k].role = "tool" /\ a[i + k].ids = <<a[i].ids[k]>>
      BY <1>1, <1>5, <2>1, <3>1 DEF Answered
    <3>. QED BY <1>1, <1>2, <3>1, <3>2
  <2>2. CASE \E h \in 1..m : i = n + h
    <3>0. PICK h \in 1..m : i = n + h
      BY <2>2
    <3>1. c[i] = b[h]
      BY <1>3, <3>0
    <3>2. h + k \in 1..m /\ b[h + k].role = "tool" /\ b[h + k].ids = <<b[h].ids[k]>>
      BY <1>1, <1>5, <3>1 DEF Answered
    <3>3. k \in Nat
      <4>1. b[h] \in Messages(t)
        BY <1>1, ElementOfSeq DEF m
      <4>. QED BY <1>5, <3>1, <4>1, MessageType
    <3>4. i + k = n + (h + k)
      BY <1>1, <3>0, <3>3
    <3>5. c[i + k] = b[h + k]
      BY <1>3, <3>2, <3>4
    <3>. QED BY <1>1, <3>1, <3>2, <3>4, <3>5
  <2>. QED BY <1>4, <2>1, <2>2
<1>6. ASSUME NEW i \in 1..n + m, c[i].role = "tool"
      PROVE  \E j \in 1..(i - 1) : c[j].role = "assistant" /\ j + Len(c[j].ids) >= i
  <2>1. CASE i \in 1..n
    <3>1. PICK j \in 1..(i - 1) : a[j].role = "assistant" /\ j + Len(a[j].ids) >= i
      BY <1>1, <1>2, <1>6, <2>1 DEF Answered
    <3>2. j \in 1..n
      BY <1>1, <2>1
    <3>. QED BY <1>2, <3>1, <3>2
  <2>2. CASE \E h \in 1..m : i = n + h
    <3>0. PICK h \in 1..m : i = n + h
      BY <2>2
    <3>1. PICK j \in 1..(h - 1) : b[j].role = "assistant" /\ j + Len(b[j].ids) >= h
      BY <1>1, <1>3, <1>6, <3>0 DEF Answered
    <3>2. j \in 1..m /\ n + j \in 1..(i - 1)
      BY <1>1, <3>0
    <3>3. c[n + j] = b[j]
      BY <1>3, <3>2
    <3>4. Len(b[j].ids) \in Nat
      <4>1. b[j] \in Messages(t)
        BY <1>1, <3>2, ElementOfSeq DEF m
      <4>. QED BY <4>1, MessageType
    <3>5. (n + j) + Len(b[j].ids) >= i
      <4> DEFINE l == Len(b[j].ids)
      <4>1. n \in Nat /\ h \in Nat /\ j \in Nat /\ i = n + h /\ l \in Nat /\ j + l >= h
        BY <1>1, <3>0, <3>1, <3>2, <3>4
      <4> HIDE DEF l
      <4>2. (n + j) + l >= i
        BY ONLY <4>1
      <4>. QED BY <4>2 DEF l
    <3>. QED BY <3>1, <3>2, <3>3, <3>5
  <2>. QED BY <1>4, <2>1, <2>2
<1>7. DOMAIN c = 1..n + m
  BY <1>1
<1>8. Answered(c)
  BY ONLY <1>5, <1>6, <1>7 DEF Answered
<1>. QED BY <1>8 DEF c

LEMMA ValidConcat ==
  ASSUME NEW t \in Nat, NEW a \in Seq(Messages(t)), NEW b \in Seq(Messages(t)),
         Valid(a), a # <<>>, Answered(b)
  PROVE  Valid(a \o b) /\ a \o b # <<>> /\ (a \o b)[1] = a[1] /\ a \o b \in Seq(Messages(t))
<1>1. Answered(a \o b)
  BY AnsweredConcat, ValidIsAnswered
<1>2. Len(a) \in Nat \ {0} /\ Len(b) \in Nat
  BY EmptySeq, LenProperties
<1>3. a \o b \in Seq(Messages(t)) /\ Len(a \o b) = Len(a) + Len(b) /\ (a \o b)[1] = a[1]
  BY <1>2, ConcatProperties
<1>4. a \o b # <<>>
  BY <1>2, <1>3
<1>. QED BY <1>1, <1>3, <1>4, ValidIsAnswered

\* A message that declares no calls, and a batch with its results.
LEMMA AnsweredOne ==
  ASSUME NEW t \in Nat, NEW m \in Messages(t), m.role # "tool", m.ids = <<>>
  PROVE  <<m>> \in Seq(Messages(t)) /\ Answered(<<m>>)
<1>1. <<m>> \in Seq(Messages(t)) /\ DOMAIN <<m>> = {1} /\ <<m>>[1] = m
  OBVIOUS
<1>2. DOMAIN m.ids = {}
  BY MessageType, EmptySeq
<1>. QED BY <1>1, <1>2 DEF Answered

LEMMA AnsweredBatch ==
  ASSUME NEW t \in Nat, NEW b \in Messages(t), b.role = "assistant",
         NEW r \in Seq(Messages(t)), Len(r) = Len(b.ids),
         \A k \in 1..Len(r) : r[k].role = "tool" /\ r[k].ids = <<b.ids[k]>>
  PROVE  <<b>> \o r \in Seq(Messages(t)) /\ Answered(<<b>> \o r)
<1> DEFINE c == <<b>> \o r
           n == Len(r)
<1>1. <<b>> \in Seq(Messages(t)) /\ Len(<<b>>) = 1 /\ <<b>>[1] = b /\ n \in Nat
  BY LenProperties
<1>2. c \in Seq(Messages(t)) /\ Len(c) = 1 + n
      /\ \A i \in 1..1 + n : c[i] = IF i <= 1 THEN <<b>>[1] ELSE r[i - 1]
  BY <1>1, ConcatProperties
<1>3. DOMAIN c = 1..1 + n
  BY <1>2, LenProperties
<1> HIDE DEF c
<1>4. c[1] = b /\ \A i \in 1..n : c[i + 1] = r[i]
  <2>1. c[1] = b
    BY <1>1, <1>2
  <2>2. ASSUME NEW i \in 1..n PROVE c[i + 1] = r[i]
    <3>1. i + 1 \in 1..1 + n /\ ~ (i + 1 <= 1) /\ (i + 1) - 1 = i
      BY <1>1
    <3>. QED BY <1>2, <3>1
  <2>. QED BY <2>1, <2>2
<1>5. \A i \in 1..1 + n : i # 1 => c[i].role = "tool"
  <2> SUFFICES ASSUME NEW i \in 1..1 + n, i # 1 PROVE c[i].role = "tool"
    OBVIOUS
  <2>1. i - 1 \in 1..n /\ (i - 1) + 1 = i
    BY <1>1
  <2>2. c[(i - 1) + 1] = r[i - 1]
    BY <1>4, <2>1
  <2>3. c[i].role = r[i - 1].role
    BY <2>1, <2>2
  <2>. QED BY <2>1, <2>3
<1>6. DOMAIN b.ids = 1..n /\ Len(b.ids) = n
  BY MessageType
<1> HIDE DEF n
<1>7. ASSUME NEW i \in DOMAIN c, NEW k \in DOMAIN c[i].ids, c[i].role = "assistant"
      PROVE  i + k \in DOMAIN c /\ c[i + k].role = "tool" /\ c[i + k].ids = <<c[i].ids[k]>>
  <2>1. i = 1
    BY <1>3, <1>5, <1>7
  <2>2. k \in 1..n
    BY <1>4, <1>6, <2>1
  <2>3. i + k = k + 1 /\ k + 1 \in 1..1 + n
    BY <1>1, <2>1, <2>2
  <2>4. r[k].role = "tool" /\ r[k].ids = <<b.ids[k]>>
    BY <2>2 DEF n
  <2>. QED BY <1>3, <1>4, <2>1, <2>2, <2>3, <2>4
<1>8. ASSUME NEW i \in DOMAIN c, c[i].role = "tool"
      PROVE  \E j \in 1..(i - 1) : c[j].role = "assistant" /\ j + Len(c[j].ids) >= i
  <2>1. i # 1
    BY <1>4, <1>8
  <2>2. 1 \in 1..(i - 1) /\ 1 + n >= i
    BY <1>1, <1>3, <2>1 DEF n
  <2>. QED BY <1>4, <1>6, <2>2
<1>9. Answered(c)
  BY ONLY <1>7, <1>8 DEF Answered
<1>. QED BY <1>2, <1>9 DEF c

\* A result that answers a call: the one found, or a stub.
LEMMA ResultForCall ==
  ASSUME NEW t \in Nat, NEW msgs \in Seq(Messages(t)), NEW i \in DOMAIN msgs, NEW id \in CallIds
  PROVE  /\ ResultFor(msgs, i, id) \in Messages(t)
         /\ ResultFor(msgs, i, id).role = "tool" /\ ResultFor(msgs, i, id).ids = <<id>>
         /\ \/ ResultFor(msgs, i, id).turn = 0
            \/ \E q \in DOMAIN msgs : q > i /\ ResultFor(msgs, i, id) = msgs[q]
<1> DEFINE found == {j \in DOMAIN msgs : FollowsDirectly(msgs, i, j) /\ msgs[j].ids = <<id>>}
<1>0. DOMAIN msgs = 1..Len(msgs) /\ Len(msgs) \in Nat /\ i \in Nat
  BY LenProperties
<1>1. CASE found = {}
  <2>1. ResultFor(msgs, i, id) = Message("tool", <<id>>, 0)
    BY <1>1, Zenon DEF ResultFor
  <2>2. <<id>> \in Seq(CallIds) /\ DOMAIN <<id>> = {1}
    OBVIOUS
  <2>. QED BY <2>1, <2>2 DEF Message, Messages
<1>2. CASE found # {}
  <2> DEFINE j == CHOOSE j \in found : \A m \in found : j <= m
  <2>1. ResultFor(msgs, i, id) = msgs[j]
    BY <1>2, Zenon DEF ResultFor
  <2>2. found \in SUBSET Nat
    BY <1>0
  <2>3. \E x \in found : \A m \in found : x <= m
    <3> HIDE DEF found
    <3>. QED BY <1>2, <2>2, LeastExists
  <2>4. j \in found
    BY <2>3
  <2> HIDE DEF j
  <2>5. j \in DOMAIN msgs /\ j > i /\ msgs[j].ids = <<id>> /\ msgs[j].role = "tool"
    <3>1. j \in (i + 1)..j
      BY <1>0, <2>4 DEF FollowsDirectly
    <3>. QED BY <2>4, <3>1 DEF FollowsDirectly
  <2>6. msgs[j] \in Messages(t)
    BY <1>0, <2>5, ElementOfSeq
  <2>. QED BY <2>1, <2>5, <2>6
<1>. QED BY <1>1, <1>2

\* What the repair makes of one row: nothing of a result, and a batch with exactly
\* its own results; what is in it is made up or was at this row or behind it.
LEMMA WithResultsBlock ==
  ASSUME NEW t \in Nat, NEW msgs \in Seq(Messages(t)), NEW i \in DOMAIN msgs
  PROVE  LET b == WithResults(msgs, i)
         IN  /\ b \in Seq(Messages(t)) /\ Answered(b)
             /\ msgs[i].role # "tool" => b # <<>> /\ b[1] = msgs[i]
             /\ \A k \in 1..Len(b) : \/ b[k].turn = 0
                                     \/ \E q \in DOMAIN msgs : q >= i /\ b[k] = msgs[q]
             /\ \A k \in 1..Len(b) : Plain(b[k]) => b[k] = msgs[i] /\ Len(b) = 1
<1> DEFINE b == WithResults(msgs, i)
           m == msgs[i]
           n == Len(m.ids)
           r == [k \in DOMAIN m.ids |-> ResultFor(msgs, i, m.ids[k])]
<1>0. DOMAIN msgs = 1..Len(msgs) /\ Len(msgs) \in Nat /\ i \in Nat /\ m \in Messages(t)
  BY LenProperties, ElementOfSeq
<1>1. CASE m.role = "tool"
  <2>1. b = <<>>
    BY <1>1, Zenon DEF WithResults
  <2>2. <<>> \in Seq(Messages(t)) /\ Len(<<>>) = 0 /\ Answered(<<>>)
    BY EmptySeq DEF Answered
  <2> HIDE DEF b
  <2>3. b \in Seq(Messages(t)) /\ Answered(b) /\ Len(b) = 0
    BY <2>1, <2>2
  <2>. QED BY <1>1, <2>3 DEF b, m
<1>2. CASE m.role # "tool"
  <2>1. b = <<m>> \o r
    BY <1>2, Zenon DEF WithResults
  <2>2. n \in Nat /\ DOMAIN m.ids = 1..n /\ \A k \in 1..n : m.ids[k] \in CallIds
    BY <1>0, MessageType, ElementOfSeq
  <2>3. ASSUME NEW k \in 1..n
        PROVE  /\ r[k] \in Messages(t) /\ r[k].role = "tool" /\ r[k].ids = <<m.ids[k]>>
               /\ r[k].turn = 0 \/ \E q \in DOMAIN msgs : q > i /\ r[k] = msgs[q]
    <3>1. r[k] = ResultFor(msgs, i, m.ids[k])
      BY <2>2
    <3>2. m.ids[k] \in CallIds
      BY <2>2
    <3> DEFINE id == m.ids[k]
    <3> HIDE DEF r, id
    <3>3. /\ ResultFor(msgs, i, id) \in Messages(t)
          /\ ResultFor(msgs, i, id).role = "tool" /\ ResultFor(msgs, i, id).ids = <<id>>
          /\ \/ ResultFor(msgs, i, id).turn = 0
             \/ \E q \in DOMAIN msgs : q > i /\ ResultFor(msgs, i, id) = msgs[q]
      BY <3>2, ResultForCall DEF id
    <3>. QED BY <3>1, <3>3 DEF id
  <2>4. r = [k \in 1..n |-> r[k]]
    BY <2>2
  <2> HIDE DEF b, r, m
  <2>5. r \in Seq(Messages(t)) /\ Len(r) = n
    <3>1. r \in [1..n -> Messages(t)]
      BY <2>3, <2>4
    <3>. QED BY <2>2, <3>1, SeqDef, LenProperties
  <2>6. <<m>> \in Seq(Messages(t)) /\ Len(<<m>>) = 1 /\ <<m>>[1] = m
    BY <1>0
  <2>7. /\ b \in Seq(Messages(t)) /\ Len(b) = 1 + n /\ b[1] = m /\ b # <<>>
        /\ \A k \in 1..1 + n : k # 1 => k - 1 \in 1..n /\ b[k] = r[k - 1]
    <3>1. /\ b \in Seq(Messages(t)) /\ Len(b) = 1 + n
          /\ \A k \in 1..1 + n : b[k] = IF k <= 1 THEN <<m>>[1] ELSE r[k - 1]
      BY <2>1, <2>2, <2>5, <2>6, ConcatProperties
    <3>2. b[1] = m /\ b # <<>>
      BY <2>2, <3>1
    <3>3. ASSUME NEW k \in 1..1 + n, k # 1 PROVE k - 1 \in 1..n /\ b[k] = r[k - 1]
      BY <2>2, <3>1, <3>3
    <3>. QED BY <3>1, <3>2, <3>3
  <2>8. Answered(b)
    <3>1. CASE m.role = "assistant"
      BY <1>0, <2>1, <2>3, <2>5, <3>1, AnsweredBatch
    <3>2. CASE m.role = "user"
      <4>1. n = 0 /\ m.ids = <<>>
        BY <1>0, <3>2, MessageType DEF Messages
      <4>2. r = <<>>
        BY <2>5, <4>1, EmptySeq
      <4>3. b = <<m>>
        BY <2>1, <2>6, <4>2, ConcatEmptySeq
      <4>. QED BY <1>0, <1>2, <4>1, <4>3, AnsweredOne
    <3>. QED BY <1>0, <1>2, <3>1, <3>2, MessageType
  <2>9. ASSUME NEW k \in 1..1 + n
        PROVE  b[k].turn = 0 \/ \E q \in DOMAIN msgs : q >= i /\ b[k] = msgs[q]
    <3>1. CASE k = 1
      BY <1>0, <2>7, <3>1 DEF m
    <3>2. CASE k # 1
      <4>1. k - 1 \in 1..n /\ b[k] = r[k - 1]
        BY <2>7, <3>2
      <4>2. r[k - 1].turn = 0 \/ \E q \in DOMAIN msgs : q > i /\ r[k - 1] = msgs[q]
        BY <2>3, <4>1
      <4>. QED BY <1>0, <4>1, <4>2
    <3>. QED BY <3>1, <3>2
  <2>10. ASSUME NEW k \in 1..1 + n, Plain(b[k])
         PROVE  b[k] = m /\ Len(b) = 1
    <3>1. k = 1
      BY <2>3, <2>7, <2>10 DEF Plain
    <3>2. n = 0
      BY <2>7, <2>10, <3>1, EmptySeq DEF Plain
    <3>. QED BY <2>7, <3>1, <3>2
  <2>11. /\ \A k \in 1..Len(b) : b[k].turn = 0 \/ \E q \in DOMAIN msgs : q >= i /\ b[k] = msgs[q]
         /\ \A k \in 1..Len(b) : Plain(b[k]) => b[k] = m /\ Len(b) = 1
    BY <2>7, <2>9, <2>10
  <2>. QED BY <2>7, <2>8, <2>11 DEF b, m
<1>. QED BY <1>1, <1>2

\* Where the messages of a concatenation come from.
LEMMA ConcatParts ==
  ASSUME NEW S, NEW a \in Seq(S), NEW b \in Seq(S)
  PROVE  /\ a \o b \in Seq(S) /\ DOMAIN (a \o b) = 1..Len(a) + Len(b)
         /\ Len(a) \in Nat /\ Len(b) \in Nat /\ DOMAIN a = 1..Len(a) /\ DOMAIN b = 1..Len(b)
         /\ \A i \in DOMAIN a : (a \o b)[i] = a[i]
         /\ \A h \in DOMAIN b : (a \o b)[Len(a) + h] = b[h]
         /\ \A i \in DOMAIN (a \o b) : \/ i \in DOMAIN a
                                       \/ \E h \in DOMAIN b : i = Len(a) + h
<1> DEFINE c == a \o b
           n == Len(a)
           m == Len(b)
<1>1. /\ n \in Nat /\ m \in Nat /\ DOMAIN a = 1..n /\ DOMAIN b = 1..m
      /\ c \in Seq(S) /\ DOMAIN c = 1..n + m
      /\ \A i \in 1..n + m : c[i] = IF i <= n THEN a[i] ELSE b[i - n]
  BY LenProperties, ConcatProperties
<1> HIDE DEF c, n, m
<1>2. \A i \in 1..n : c[i] = a[i]
  BY <1>1
<1>3. ASSUME NEW h \in 1..m PROVE c[n + h] = b[h]
  <2>1. n + h \in 1..n + m /\ ~ (n + h <= n) /\ (n + h) - n = h
    BY <1>1
  <2>. QED BY <1>1, <2>1
<1>4. ASSUME NEW i \in 1..n + m PROVE i \in 1..n \/ \E h \in 1..m : i = n + h
  <2>1. i \notin 1..n => i - n \in 1..m /\ i = n + (i - n)
    BY <1>1
  <2>. QED BY <2>1
<1>. QED BY <1>1, <1>2, <1>3, <1>4 DEF c, n, m

LEMMA SingleConcat ==
  ASSUME NEW t \in Nat, NEW a \in Seq(Messages(t)), NEW b \in Seq(Messages(t)),
         SingleAnswers(a), SingleAnswers(b),
         \A i \in DOMAIN a : \A j \in DOMAIN b : Plain(a[i]) => b[j].turn # a[i].turn
  PROVE  SingleAnswers(a \o b)
<1> DEFINE c == a \o b
           n == Len(a)
<1>1. /\ n \in Nat /\ DOMAIN a = 1..n /\ DOMAIN b = 1..Len(b) /\ Len(b) \in Nat
      /\ \A i \in DOMAIN a : c[i] = a[i]
      /\ \A h \in DOMAIN b : c[n + h] = b[h]
      /\ \A i \in DOMAIN c : i \in DOMAIN a \/ \E h \in DOMAIN b : i = n + h
  BY ConcatParts
<1> HIDE DEF c, n
<1>2. ASSUME NEW i \in DOMAIN c, NEW j \in DOMAIN c, Plain(c[i]), j > i
      PROVE  c[j].turn # c[i].turn
  <2>1. CASE i \in DOMAIN a /\ j \in DOMAIN a
    BY <1>1, <1>2, <2>1 DEF SingleAnswers
  <2>2. CASE i \in DOMAIN a /\ \E h \in DOMAIN b : j = n + h
    BY <1>1, <1>2, <2>2
  <2>3. CASE \E h \in DOMAIN b : i = n + h
    <3>1. PICK h \in DOMAIN b : i = n + h
      BY <2>3
    <3>2. j \notin DOMAIN a
      BY <1>1, <1>2, <3>1
    <3>3. PICK g \in DOMAIN b : j = n + g
      BY <1>1, <3>2
    <3>4. g > h
      BY <1>1, <1>2, <3>1, <3>3
    <3>. QED BY <1>1, <1>2, <3>1, <3>3, <3>4 DEF SingleAnswers
  <2>. QED BY <1>1, <2>1, <2>2, <2>3
<1>3. SingleAnswers(c)
  BY ONLY <1>2 DEF SingleAnswers
<1>. QED BY <1>3 DEF c

\* Blocks that are answered make a transcript that is.
LEMMA AnsweredJoin ==
  ASSUME NEW t \in Nat, NEW seqs \in Seq(Seq(Messages(t))), seqs # <<>>,
         \A n \in 1..Len(seqs) : Answered(seqs[n])
  PROVE  FlattenSeq(seqs) \in Seq(Messages(t)) /\ Answered(FlattenSeq(seqs))
<1> DEFINE N == Len(seqs)
<1>1. N \in Nat \ {0} /\ \A i \in 1..N : seqs[i] \in Seq(Messages(t))
  BY EmptySeq, ElementOfSeq
<1>2. PICK f \in [1..N -> Seq(Messages(t))] : Joins(f, seqs, N) /\ FlattenSeq(seqs) = f[N]
  BY FlattenIsJoin
<1> DEFINE X == {n \in 1..N : Answered(f[n])}
<1>3. 1 \in X
  BY <1>1, <1>2 DEF Joins
<1>4. ASSUME NEW n \in 1..N - 1, n \in X PROVE n + 1 \in X
  <2>1. n + 1 \in 1..N /\ n + 1 \in 2..N /\ (n + 1) - 1 = n /\ n \in 1..N
    BY <1>1
  <2>2. f[n + 1] = f[n] \o seqs[n + 1]
    BY <1>2, <2>1 DEF Joins
  <2>3. Answered(f[n] \o seqs[n + 1])
    BY <1>1, <1>2, <1>4, <2>1, AnsweredConcat
  <2>. QED BY <2>1, <2>2, <2>3
<1> HIDE DEF X
<1>5. \A n \in 1..N : n \in X
  BY <1>1, <1>3, <1>4, ReachesAll
<1>. QED BY <1>1, <1>2, <1>5 DEF X

\* A block made from row p of a transcript and what is behind it.
MadeFrom(block, src, p) ==
  /\ \A k \in DOMAIN block : \/ block[k].turn = 0
                             \/ \E q \in DOMAIN src : q >= p /\ block[k] = src[q]
  /\ \A k \in DOMAIN block : Plain(block[k]) => block[k] = src[p] /\ DOMAIN block = {1}

\* Rows written or repaired one by one, in order, keep at most one answer per turn,
\* and nothing with a turn is invented.
LEMMA OneAnswerJoin ==
  ASSUME NEW t \in Nat, NEW src \in Seq(Messages(t)), SingleAnswers(src),
         NEW seqs \in Seq(Seq(Messages(t))), seqs # <<>>,
         NEW o \in Nat, o + Len(seqs) <= Len(src),
         \A n \in 1..Len(seqs) : MadeFrom(seqs[n], src, o + n)
  PROVE  /\ SingleAnswers(FlattenSeq(seqs))
         /\ \A k \in DOMAIN FlattenSeq(seqs) :
              FlattenSeq(seqs)[k].turn # 0 => \E q \in DOMAIN src : FlattenSeq(seqs)[k] = src[q]
<1> DEFINE N == Len(seqs)
           M == Messages(t)
<1>0. t \in Nat /\ src \in Seq(M) /\ seqs \in Seq(Seq(M))
  OBVIOUS
<1>1. N \in Nat \ {0} /\ \A i \in 1..N : seqs[i] \in Seq(M)
  BY EmptySeq, ElementOfSeq
<1>2. PICK f \in [1..N -> Seq(M)] : Joins(f, seqs, N) /\ FlattenSeq(seqs) = f[N]
  BY FlattenIsJoin
<1>3. Len(src) \in Nat /\ DOMAIN src = 1..Len(src) /\ \A q \in DOMAIN src : src[q] \in M
  BY LenProperties, ElementOfSeq
<1>4. \A m \in M : Plain(m) => m.turn # 0
  BY DEF Messages, Plain
<1> DEFINE From(s, n) ==
             /\ SingleAnswers(s)
             /\ \A k \in DOMAIN s : s[k].turn # 0 => \E q \in DOMAIN src : s[k] = src[q]
             /\ \A k \in DOMAIN s : Plain(s[k]) => \E p \in 1..(o + n) : s[k] = src[p]
           X == {n \in 1..N : From(f[n], n)}
<1>5. ASSUME NEW n \in 1..N
      PROVE  /\ seqs[n] \in Seq(M) /\ From(seqs[n], n)
             /\ \A k \in DOMAIN seqs[n] : \/ seqs[n][k].turn = 0
                                          \/ \E q \in DOMAIN src : q >= o + n /\ seqs[n][k] = src[q]
  <2>1. MadeFrom(seqs[n], src, o + n) /\ seqs[n] \in Seq(M) /\ o + n \in 1..(o + n)
    BY <1>1
  <2>2. SingleAnswers(seqs[n])
    <3>1. DOMAIN seqs[n] = 1..Len(seqs[n]) /\ Len(seqs[n]) \in Nat
      BY <2>1, LenProperties
    <3>. QED BY <2>1, <3>1 DEF MadeFrom, SingleAnswers
  <2>3. /\ \A k \in DOMAIN seqs[n] : \/ seqs[n][k].turn = 0
                                       \/ \E q \in DOMAIN src : q >= o + n /\ seqs[n][k] = src[q]
        /\ \A k \in DOMAIN seqs[n] : Plain(seqs[n][k]) => seqs[n][k] = src[o + n]
    BY <2>1 DEF MadeFrom
  <2>4. From(seqs[n], n)
    BY <2>1, <2>2, <2>3
  <2>. QED BY <2>1, <2>3, <2>4
<1>6. 1 \in X
  <2>1. f[1] = seqs[1] /\ 1 \in 1..N
    BY <1>1, <1>2 DEF Joins
  <2>2. From(seqs[1], 1)
    BY <1>5, <2>1
  <2> HIDE DEF From
  <2>. QED BY <2>1, <2>2
<1>7. ASSUME NEW n \in 1..N - 1, n \in X PROVE n + 1 \in X
  <2> DEFINE a == f[n]
             b == seqs[n + 1]
             c == f[n + 1]
  <2>1. n + 1 \in 1..N /\ n + 1 \in 2..N /\ (n + 1) - 1 = n /\ n \in 1..N /\ n \in Nat
    BY <1>1
  <2>2. c = a \o b
    BY <1>2, <2>1 DEF Joins
  <2>3. /\ a \in Seq(M) /\ From(a, n)
        /\ b \in Seq(M) /\ From(b, n + 1)
        /\ \A k \in DOMAIN b : b[k].turn = 0 \/ \E q \in DOMAIN src : q >= o + (n + 1) /\ b[k] = src[q]
    BY <1>2, <1>5, <1>7, <2>1
  <2> HIDE DEF a, b, c, X
  <2>4. ASSUME NEW i \in DOMAIN a, NEW j \in DOMAIN b, Plain(a[i])
        PROVE  b[j].turn # a[i].turn
    <3>1. PICK p \in 1..(o + n) : a[i] = src[p]
      BY <2>3, <2>4
    <3>2. p \in DOMAIN src /\ o + (n + 1) <= Len(src)
      <4> DEFINE l == Len(src)
      <4>1. l \in Nat /\ DOMAIN src = 1..l /\ o + N <= l /\ N \in Nat /\ n + 1 <= N
        BY <1>1, <1>3, <2>1
      <4> HIDE DEF l, N
      <4>. QED BY <2>1, <4>1 DEF l
    <3>3. a[i].turn # 0
      BY <1>3, <1>4, <2>4, <3>1, <3>2
    <3>4. CASE b[j].turn # 0
      <4>1. PICK q \in DOMAIN src : q >= o + (n + 1) /\ b[j] = src[q]
        BY <2>3, <3>4
      <4>2. q > p
        <5>1. q \in Nat /\ p \in Nat
          BY <1>3, <3>2
        <5>2. p <= o + n
          BY <2>1
        <5>3. q >= o + (n + 1)
          BY <4>1
        <5>. QED BY <2>1, <5>1, <5>2, <5>3
      <4>. QED BY <2>4, <3>1, <3>2, <4>1, <4>2 DEF SingleAnswers
    <3>. QED BY <3>3, <3>4
  <2>5. SingleAnswers(c)
    <3> HIDE DEF M
    <3>1. SingleAnswers(a) /\ SingleAnswers(b)
      BY <2>3
    <3>. QED BY <2>2, <2>3, <2>4, <3>1, SingleConcat DEF M
  <2>6. /\ \A i \in DOMAIN a : c[i] = a[i]
        /\ \A h \in DOMAIN b : c[Len(a) + h] = b[h]
        /\ \A i \in DOMAIN c : i \in DOMAIN a \/ \E h \in DOMAIN b : i = Len(a) + h
    BY <2>2, <2>3, ConcatParts
  <2>7. \A k \in DOMAIN c : (\E i \in DOMAIN a : c[k] = a[i]) \/ (\E h \in DOMAIN b : c[k] = b[h])
    BY <2>6
  <2>8. \A k \in DOMAIN c : c[k].turn # 0 => \E q \in DOMAIN src : c[k] = src[q]
    BY <2>3, <2>7
  <2>9. ASSUME NEW k \in DOMAIN c, Plain(c[k])
        PROVE  \E p \in 1..(o + (n + 1)) : c[k] = src[p]
    <3>1. 1..(o + n) \subseteq 1..(o + (n + 1))
      BY <2>1
    <3>2. \E p \in 1..(o + n) : c[k] = src[p]
          \/ \E q \in 1..(o + (n + 1)) : c[k] = src[q]
      <4>1. CASE \E i \in DOMAIN a : c[k] = a[i]
        <5>1. PICK i \in DOMAIN a : c[k] = a[i]
          BY <4>1
        <5>. QED BY <2>3, <2>9, <5>1
      <4>2. CASE \E h \in DOMAIN b : c[k] = b[h]
        <5>1. PICK h \in DOMAIN b : c[k] = b[h]
          BY <4>2
        <5>. QED BY <2>3, <2>9, <5>1
      <4>. QED BY <2>7, <4>1, <4>2
    <3>. QED BY <3>1, <3>2
  <2>. QED BY <2>1, <2>5, <2>8, <2>9 DEF X, c
<1> HIDE DEF X
<1>8. \A n \in 1..N : n \in X
  BY <1>1, <1>6, <1>7, ReachesAll
<1>. QED BY <1>1, <1>2, <1>8 DEF X

LEMMA FirstUser ==
  ASSUME NEW t \in Nat, NEW msgs \in Seq(Messages(t))
  PROVE  \/ FromFirstUser(msgs) = 0 /\ \A i \in DOMAIN msgs : msgs[i].role # "user"
         \/ /\ FromFirstUser(msgs) \in DOMAIN msgs
            /\ msgs[FromFirstUser(msgs)].role = "user"
            /\ \A i \in DOMAIN msgs : msgs[i].role = "user" => FromFirstUser(msgs) <= i
<1> DEFINE I == {i \in 1..Len(msgs) : msgs[i].role = "user"}
<1>1. DOMAIN msgs = 1..Len(msgs) /\ Len(msgs) \in Nat
  BY LenProperties
<1>2. FromFirstUser(msgs) = IF I # {} THEN Min(I) ELSE 0
  BY Zenon DEF FromFirstUser, SelectInSubSeq
<1>3. CASE I = {}
  BY <1>1, <1>2, <1>3
<1>4. CASE I # {}
  <2>1. I \in SUBSET Nat
    BY <1>1
  <2>2. Min(I) \in I /\ \A j \in I : Min(I) <= j
    <3> HIDE DEF I
    <3>. QED BY <1>4, <2>1, LeastExists DEF Min
  <2>. QED BY <1>1, <1>2, <1>4, <2>2
<1>. QED BY <1>3, <1>4

\* The first message of the first block is the first of all.
LEMMA JoinHead ==
  ASSUME NEW S, NEW seqs \in Seq(Seq(S)), seqs # <<>>, seqs[1] # <<>>
  PROVE  FlattenSeq(seqs) # <<>> /\ FlattenSeq(seqs)[1] = seqs[1][1]
<1> DEFINE N == Len(seqs)
<1>1. N \in Nat \ {0} /\ \A i \in 1..N : seqs[i] \in Seq(S)
  BY EmptySeq, ElementOfSeq
<1>2. PICK f \in [1..N -> Seq(S)] : Joins(f, seqs, N) /\ FlattenSeq(seqs) = f[N]
  BY FlattenIsJoin
<1> DEFINE X == {n \in 1..N : f[n] # <<>> /\ f[n][1] = seqs[1][1]}
<1>3. 1 \in X
  BY <1>1, <1>2 DEF Joins
<1>4. ASSUME NEW n \in 1..N - 1, n \in X PROVE n + 1 \in X
  <2>1. n + 1 \in 1..N /\ n + 1 \in 2..N /\ (n + 1) - 1 = n /\ n \in 1..N
    BY <1>1
  <2>2. f[n + 1] = f[n] \o seqs[n + 1]
    BY <1>2, <2>1 DEF Joins
  <2>3. f[n] \in Seq(S) /\ seqs[n + 1] \in Seq(S) /\ f[n] # <<>> /\ f[n][1] = seqs[1][1]
    BY <1>1, <1>2, <1>4, <2>1
  <2> HIDE DEF X
  <2>4. Len(f[n]) \in Nat \ {0}
    BY <2>3, EmptySeq
  <2> DEFINE a == f[n]
             b == seqs[n + 1]
  <2>5. a \in Seq(S) /\ b \in Seq(S) /\ Len(a) \in Nat \ {0}
    BY <2>3, <2>4
  <2>6. f[n + 1][1] = seqs[1][1]
    <3> HIDE DEF a, b
    <3>1. 1 \in DOMAIN a /\ \A i \in DOMAIN a : (a \o b)[i] = a[i]
      BY <2>5, ConcatParts
    <3>2. (a \o b)[1] = a[1]
      BY <3>1
    <3>. QED BY <2>2, <2>3, <3>2 DEF a, b
  <2>7. f[n + 1] # <<>>
    BY <2>2, <2>3, ConcatEqualIffEmpty
  <2>. QED BY <2>1, <2>6, <2>7 DEF X
<1> HIDE DEF X
<1>5. \A n \in 1..N : n \in X
  BY <1>1, <1>3, <1>4, ReachesAll
<1>. QED BY <1>1, <1>2, <1>5 DEF X

\* The repair of a transcript, whatever rows were lost: a provider accepts it, it
\* begins where a message of the user is, it keeps one answer per turn, and it
\* holds no message of a turn that the transcript does not hold.
LEMMA NormalIsSound ==
  ASSUME NEW t \in Nat, NEW msgs \in Seq(Messages(t))
  PROVE  /\ Normal(msgs) \in Seq(Messages(t)) /\ Valid(Normal(msgs))
         /\ msgs # <<>> /\ msgs[1].role = "user" => Normal(msgs) # <<>>
         /\ SingleAnswers(msgs) =>
              /\ SingleAnswers(Normal(msgs))
              /\ \A k \in DOMAIN Normal(msgs) : Normal(msgs)[k].turn # 0 =>
                   \E q \in DOMAIN msgs : Normal(msgs)[k] = msgs[q]
<1> DEFINE first == FromFirstUser(msgs)
           N == Len(msgs) - first + 1
           blocks == [i \in 1..N |-> WithResults(msgs, i + first - 1)]
<1>1. DOMAIN msgs = 1..Len(msgs) /\ Len(msgs) \in Nat
  BY LenProperties
<1>2. CASE first = 0
  <2>1. Normal(msgs) = <<>>
    BY <1>2, Zenon DEF Normal
  <2>2. <<>> \in Seq(Messages(t)) /\ DOMAIN <<>> = {}
    BY EmptySeq
  <2>3. Valid(<<>>) /\ SingleAnswers(<<>>)
    BY <2>2 DEF Valid, SingleAnswers
  <2>4. ~ (msgs # <<>> /\ msgs[1].role = "user")
    <3>1. msgs # <<>> => 1 \in DOMAIN msgs
      BY <1>1, EmptySeq
    <3>. QED BY <1>1, <1>2, <3>1, FirstUser
  <2>. QED BY <2>1, <2>2, <2>3, <2>4
<1>3. CASE first # 0
  <2>1. first \in 1..Len(msgs) /\ msgs[first].role = "user"
    BY <1>1, <1>3, FirstUser
  <2>2. Normal(msgs) = FlattenSeq(blocks)
    BY <1>3, Zenon DEF Normal
  <2>3. N \in Nat \ {0} /\ (first - 1) \in Nat /\ (first - 1) + N = Len(msgs)
    <3> HIDE DEF first
    <3>. QED BY <1>1, <2>1
  <2> HIDE DEF first, N
  <2>4. ASSUME NEW n \in 1..N
        PROVE  /\ n + first - 1 \in DOMAIN msgs /\ (first - 1) + n = n + first - 1
               /\ blocks[n] = WithResults(msgs, n + first - 1)
    BY <1>1, <2>1, <2>3
  <2>5. ASSUME NEW n \in 1..N
        PROVE  /\ blocks[n] \in Seq(Messages(t)) /\ Answered(blocks[n])
               /\ MadeFrom(blocks[n], msgs, (first - 1) + n)
    <3> DEFINE i == n + first - 1
               b == WithResults(msgs, i)
    <3>1. i \in DOMAIN msgs
      BY <2>4
    <3>2. /\ b \in Seq(Messages(t)) /\ Answered(b)
          /\ \A k \in 1..Len(b) : \/ b[k].turn = 0
                                  \/ \E q \in DOMAIN msgs : q >= i /\ b[k] = msgs[q]
          /\ \A k \in 1..Len(b) : Plain(b[k]) => b[k] = msgs[i] /\ Len(b) = 1
      <4> HIDE DEF i
      <4>. QED BY <3>1, WithResultsBlock
    <3>3. DOMAIN b = 1..Len(b)
      BY <3>2, LenProperties
    <3> HIDE DEF b, i
    <3>4. MadeFrom(b, msgs, i)
      BY <3>2, <3>3 DEF MadeFrom
    <3>. QED BY <2>4, <3>2, <3>4 DEF b, i
  <2>6. blocks \in Seq(Seq(Messages(t))) /\ Len(blocks) = N
    <3>1. blocks \in [1..N -> Seq(Messages(t))]
      BY <2>5
    <3>. QED BY <2>3, <3>1, SeqDef, LenProperties
  <2>7. 1 \in 1..N /\ blocks # <<>>
    BY <2>3, <2>6, EmptySeq
  <2>8. blocks[1] # <<>> /\ blocks[1][1].role = "user"
    <3>1. 1 + first - 1 = first /\ first \in DOMAIN msgs
      BY <1>1, <2>1
    <3>2. blocks[1] = WithResults(msgs, first)
      BY <2>4, <2>7, <3>1
    <3>3. WithResults(msgs, first) # <<>> /\ WithResults(msgs, first)[1] = msgs[first]
      BY <2>1, <3>1, WithResultsBlock
    <3>. QED BY <2>1, <3>2, <3>3
  <2> HIDE DEF blocks
  <2>9. FlattenSeq(blocks) \in Seq(Messages(t)) /\ Answered(FlattenSeq(blocks))
    BY <2>5, <2>6, <2>7, AnsweredJoin
  <2>10. FlattenSeq(blocks) # <<>> /\ FlattenSeq(blocks)[1].role = "user"
    BY <2>6, <2>7, <2>8, JoinHead
  <2>11. ASSUME SingleAnswers(msgs)
         PROVE  /\ SingleAnswers(FlattenSeq(blocks))
                /\ \A k \in DOMAIN FlattenSeq(blocks) : FlattenSeq(blocks)[k].turn # 0 =>
                     \E q \in DOMAIN msgs : FlattenSeq(blocks)[k] = msgs[q]
    <3>1. (first - 1) + Len(blocks) <= Len(msgs)
      BY <1>1, <2>3, <2>6
    <3>. QED BY <2>3, <2>5, <2>6, <2>7, <2>11, <3>1, OneAnswerJoin
  <2>. QED BY <2>2, <2>9, <2>10, <2>11, ValidIsAnswered
<1>. QED BY <1>2, <1>3

\* In a transcript with every result in its place the repair finds each of them:
\* the block of a row is the row and the results behind it.
LEMMA BlockOfAnswered ==
  ASSUME NEW t \in Nat, NEW msgs \in Seq(Messages(t)), Answered(msgs),
         NEW i \in DOMAIN msgs, msgs[i].role # "tool"
  PROVE  /\ i + Len(msgs[i].ids) \in i..Len(msgs)
         /\ WithResults(msgs, i) = SubSeq(msgs, i, i + Len(msgs[i].ids))
         /\ \A p \in (i + 1)..(i + Len(msgs[i].ids)) : msgs[p].role = "tool"
<1> DEFINE m == msgs[i]
           n == Len(m.ids)
           N == Len(msgs)
           r == [k \in DOMAIN m.ids |-> ResultFor(msgs, i, m.ids[k])]
           b == WithResults(msgs, i)
           s == SubSeq(msgs, i, i + n)
<1>0. /\ DOMAIN msgs = 1..N /\ N \in Nat /\ i \in 1..N /\ m \in Messages(t)
      /\ \A p \in 1..N : msgs[p] \in Messages(t)
  BY LenProperties, ElementOfSeq
<1>1. /\ n \in Nat /\ DOMAIN m.ids = 1..n /\ (m.role = "user" => n = 0)
      /\ \A k \in 1..n : m.ids[k] \in CallIds
  BY <1>0, MessageType, ElementOfSeq
<1>2. m.role = "assistant" \/ n = 0
  BY <1>0, <1>1, MessageType
<1>3. ASSUME NEW k \in 1..n
      PROVE  /\ i + k \in 1..N /\ msgs[i + k].role = "tool" /\ msgs[i + k].ids = <<m.ids[k]>>
  BY <1>0, <1>1, <1>2, <1>3 DEF Answered
<1>4. i + n \in i..N
  <2>1. CASE n = 0
    BY <1>0, <2>1
  <2>2. CASE n # 0
    <3>1. n \in 1..n
      BY <1>1, <2>2
    <3>. QED BY <1>0, <1>1, <1>3, <3>1
  <2>. QED BY <2>1, <2>2
<1>5. \A p \in (i + 1)..(i + n) : msgs[p].role = "tool"
  <2> SUFFICES ASSUME NEW p \in (i + 1)..(i + n) PROVE msgs[p].role = "tool"
    OBVIOUS
  <2>1. p - i \in 1..n /\ i + (p - i) = p
    BY <1>0, <1>1
  <2>. QED BY <1>3, <2>1
<1>6. ASSUME NEW k \in 1..n PROVE ResultFor(msgs, i, m.ids[k]) = msgs[i + k]
  <2> DEFINE id == m.ids[k]
             found == {j \in DOMAIN msgs : FollowsDirectly(msgs, i, j) /\ msgs[j].ids = <<id>>}
  <2>1. i + k \in found
    <3>1. i + k \in DOMAIN msgs /\ i + k > i /\ msgs[i + k].ids = <<id>>
      BY <1>0, <1>3
    <3>2. \A p \in (i + 1)..(i + k) : p \in (i + 1)..(i + n)
      BY <1>0, <1>1
    <3>. QED BY <1>5, <3>1, <3>2 DEF FollowsDirectly
  <2>2. ASSUME NEW j \in found PROVE i + k <= j
    <3>1. SUFFICES ASSUME j < i + k PROVE FALSE
      BY <1>0
    <3>2. j \in 1..N /\ j > i /\ msgs[j].ids = <<id>>
      BY <1>0 DEF FollowsDirectly
    <3>3. j - i \in 1..n /\ i + (j - i) = j /\ j - i # k
      BY <1>0, <1>1, <3>1, <3>2
    <3>4. <<m.ids[j - i]>> = <<id>>
      BY <1>3, <3>2, <3>3
    <3>5. m.ids[j - i] = m.ids[k]
      BY <3>4
    <3>6. \A x, y \in DOMAIN m.ids : m.ids[x] = m.ids[y] => x = y
      BY <1>0 DEF Messages
    <3>. QED BY <1>1, <3>3, <3>5, <3>6
  <2>3. found # {} /\ found \subseteq 1..N
    BY <1>0, <2>1
  <2>4. ResultFor(msgs, i, id) = msgs[CHOOSE j \in found : \A x \in found : j <= x]
    BY <2>3, Zenon DEF ResultFor
  <2>5. ASSUME NEW j \in found, \A x \in found : j <= x PROVE j = i + k
    BY <1>0, <2>1, <2>2, <2>3, <2>5
  <2> HIDE DEF found, id
  <2>6. (CHOOSE j \in found : \A x \in found : j <= x) = i + k
    BY <2>1, <2>2, <2>5
  <2>. QED BY <2>4, <2>6 DEF id
<1>7. b = <<m>> \o r
  BY Zenon DEF WithResults
<1>8. r \in Seq(Messages(t)) /\ Len(r) = n /\ \A k \in 1..n : r[k] = msgs[i + k]
  <2>1. \A k \in 1..n : r[k] = msgs[i + k] /\ msgs[i + k] \in Messages(t)
    BY <1>0, <1>1, <1>3, <1>6
  <2>2. r = [k \in 1..n |-> r[k]]
    BY <1>1
  <2> HIDE DEF r
  <2>3. r \in [1..n -> Messages(t)]
    BY <2>1, <2>2
  <2>. QED BY <1>1, <2>1, <2>3, SeqDef, LenProperties
<1>9. /\ s \in Seq(Messages(t)) /\ Len(s) = n + 1
      /\ \A k \in 1..n + 1 : s[k] = msgs[i + k - 1]
  <2>1. \A p \in i..(i + n) : msgs[p] \in Messages(t)
    BY <1>0, <1>1, <1>4
  <2>2. i \in Int /\ i + n \in Int /\ i <= i + n /\ (i + n) - i + 1 = n + 1
    BY <1>0, <1>1
  <2> DEFINE e == i + n
  <2> HIDE DEF e
  <2>3. /\ SubSeq(msgs, i, e) \in Seq(Messages(t)) /\ Len(SubSeq(msgs, i, e)) = e - i + 1
        /\ \A k \in 1..(e - i + 1) : SubSeq(msgs, i, e)[k] = msgs[i + k - 1]
    BY <2>1, <2>2, SubSeqProperties DEF e
  <2>. QED BY <2>2, <2>3 DEF e
<1> HIDE DEF b, r, s, m, n
<1>10. /\ <<m>> \o r \in Seq(Messages(t)) /\ Len(<<m>> \o r) = 1 + n
       /\ \A k \in 1..1 + n : (<<m>> \o r)[k] = IF k <= 1 THEN m ELSE r[k - 1]
  <2>1. <<m>> \in Seq(Messages(t)) /\ Len(<<m>>) = 1 /\ <<m>>[1] = m
    BY <1>0
  <2>. QED BY <1>8, <2>1, ConcatProperties
<1>11. ASSUME NEW k \in 1..n + 1 PROVE (<<m>> \o r)[k] = s[k]
  <2>1. k \in 1..1 + n
    BY <1>1
  <2>2. CASE k = 1
    <3>1. i + k - 1 = i
      BY <1>0, <2>2
    <3>. QED BY <1>9, <1>10, <2>1, <2>2, <3>1 DEF m
  <2>3. CASE k # 1
    <3>1. k - 1 \in 1..n /\ ~ (k <= 1) /\ i + (k - 1) = i + k - 1
      BY <1>0, <1>1, <2>3
    <3>2. r[k - 1] = msgs[i + (k - 1)]
      BY <1>8, <3>1
    <3>. QED BY <1>9, <1>10, <2>1, <3>1, <3>2
  <2>. QED BY <2>2, <2>3
<1>12. <<m>> \o r = s
  <2>1. Len(<<m>> \o r) = n + 1
    BY <1>1, <1>10
  <2>. QED BY <1>9, <1>10, <1>11, <2>1, SeqEqual
<1>. QED BY <1>4, <1>5, <1>7, <1>12 DEF b, s, n, m

\* A transcript that a provider accepts is repaired to itself: loading a history in
\* which nothing is missing changes nothing.
LEMMA NormalOfValid ==
  ASSUME NEW t \in Nat, NEW msgs \in Seq(Messages(t)), Valid(msgs)
  PROVE  Normal(msgs) = msgs
<1> DEFINE N == Len(msgs)
           M == Messages(t)
           blocks == [i \in 1..N |-> WithResults(msgs, i)]
<1>0. /\ DOMAIN msgs = 1..N /\ N \in Nat /\ Answered(msgs) /\ t \in Nat /\ msgs \in Seq(M)
      /\ \A p \in 1..N : msgs[p] \in M
  BY LenProperties, ElementOfSeq, ValidIsAnswered
<1> DEFINE u == FromFirstUser(msgs)
<1>3. \/ u = 0 /\ \A i \in DOMAIN msgs : msgs[i].role # "user"
      \/ u \in DOMAIN msgs /\ \A i \in DOMAIN msgs : msgs[i].role = "user" => u <= i
  BY FirstUser
<1> HIDE DEF u
<1>1. CASE msgs = <<>>
  <2>0. N = 0
    BY <1>1, EmptySeq
  <2>1. u = 0
    BY <1>0, <1>3, <2>0
  <2>. QED BY <1>1, <2>1, Zenon DEF Normal, u
<1>2. CASE msgs # <<>>
  <2>1. N # 0 /\ 1 \in 1..N /\ msgs[1].role = "user"
    BY <1>0, <1>2, EmptySeq, ValidIsAnswered
  <2>2. FromFirstUser(msgs) = 1
    BY <1>0, <1>3, <2>1 DEF u
  <2>3. Normal(msgs) = FlattenSeq([i \in 1..(N - 1 + 1) |-> WithResults(msgs, i + 1 - 1)])
    <3>1. FromFirstUser(msgs) # 0
      BY <2>2
    <3>2. Normal(msgs) = FlattenSeq([i \in 1..(N - FromFirstUser(msgs) + 1) |->
                                       WithResults(msgs, i + FromFirstUser(msgs) - 1)])
      BY <3>1, Zenon DEF Normal
    <3>. QED BY <2>2, <3>2
  <2>4. N - 1 + 1 = N /\ \A i \in 1..N : i + 1 - 1 = i
    BY <1>0
  <2>5. [i \in 1..(N - 1 + 1) |-> WithResults(msgs, i + 1 - 1)] = blocks
    BY <2>4
  <2>6. \A i \in 1..N : blocks[i] \in Seq(M)
    <3> SUFFICES ASSUME NEW i \in 1..N PROVE WithResults(msgs, i) \in Seq(M)
      OBVIOUS
    <3>. QED BY <1>0, WithResultsBlock
  <2>7. blocks \in Seq(Seq(M)) /\ Len(blocks) = N
    <3>1. blocks \in [1..N -> Seq(M)]
      BY <2>6
    <3>. QED BY <1>0, <3>1, SeqDef, LenProperties
  <2>8. blocks # <<>>
    BY <2>1, <2>7, EmptySeq
  <2>9. \A i \in 1..N : blocks[i] = WithResults(msgs, i)
    OBVIOUS
  <2> HIDE DEF blocks, M
  <2>10. PICK f \in [1..N -> Seq(M)] : Joins(f, blocks, N) /\ FlattenSeq(blocks) = f[N]
    BY <2>7, <2>8, FlattenIsJoin
  <2> DEFINE Reaches(n, e) ==
               /\ f[n] = SubSeq(msgs, 1, e)
               /\ \A p \in (n + 1)..e : msgs[p].role = "tool"
               /\ \A j \in 1..n : msgs[j].role = "assistant" => j + Len(msgs[j].ids) <= e
             X == {n \in 1..N : \E e \in n..N : Reaches(n, e)}
  <2>11. \A i \in 1..N : msgs[i].role = "assistant" \/ msgs[i].role = "tool" \/ msgs[i].role = "user"
    BY <1>0, MessageType DEF M
  <2>12. ASSUME NEW i \in 1..N, msgs[i].role # "tool"
         PROVE  LET l == i + Len(msgs[i].ids)
                IN  /\ l \in i..N /\ blocks[i] = SubSeq(msgs, i, l)
                    /\ \A p \in (i + 1)..l : msgs[p].role = "tool"
    BY <1>0, <2>9, <2>12, BlockOfAnswered DEF M
  <2>13. 1 \in X
    <3> DEFINE l == 1 + Len(msgs[1].ids)
    <3>1. /\ l \in 1..N /\ blocks[1] = SubSeq(msgs, 1, l)
          /\ \A p \in (1 + 1)..l : msgs[p].role = "tool"
      BY <2>1, <2>12
    <3>2. f[1] = blocks[1]
      BY <2>10 DEF Joins
    <3>3. \A j \in 1..1 : msgs[j].role = "assistant" => j + Len(msgs[j].ids) <= l
      BY <2>1
    <3> HIDE DEF l
    <3>4. Reaches(1, l)
      BY <3>1, <3>2, <3>3
    <3>. QED BY <2>1, <3>1, <3>4
  <2>14. ASSUME NEW n \in 1..N - 1, n \in X PROVE n + 1 \in X
    <3>1. PICK e \in n..N : Reaches(n, e)
      BY <2>14
    <3>2. /\ n + 1 \in 1..N /\ n + 1 \in 2..N /\ (n + 1) - 1 = n /\ n \in 1..N /\ n \in Nat
          /\ e \in Nat /\ e \in 1..N
      BY <1>0
    <3>3. f[n + 1] = f[n] \o blocks[n + 1]
      BY <2>10, <3>2 DEF Joins
    <3>4. CASE msgs[n + 1].role = "tool"
      <4>1. blocks[n + 1] = <<>>
        BY <2>9, <3>2, <3>4, Zenon DEF WithResults
      <4>2. f[n + 1] = f[n]
        BY <2>10, <3>2, <3>3, <4>1, ConcatEmptySeq
      <4>3. PICK j \in 1..((n + 1) - 1) : msgs[j].role = "assistant"
                                          /\ j + Len(msgs[j].ids) >= n + 1
        BY <1>0, <3>2, <3>4 DEF Answered
      <4>4. j \in 1..n /\ Len(msgs[j].ids) \in Nat
        BY <1>0, <3>2, <4>3, MessageType DEF M
      <4>5. j + Len(msgs[j].ids) <= e
        BY <3>1, <4>3, <4>4
      <4>6. e \in (n + 1)..N
        <5> DEFINE l == Len(msgs[j].ids)
        <5>1. j + l >= n + 1 /\ j + l <= e /\ l \in Nat /\ j \in Nat
          BY <4>3, <4>4, <4>5
        <5> HIDE DEF l
        <5>. QED BY <1>0, <3>2, <5>1
      <4>7. Reaches(n + 1, e)
        <5>1. \A p \in ((n + 1) + 1)..e : msgs[p].role = "tool"
          BY <3>1, <3>2
        <5>2. ASSUME NEW k \in 1..(n + 1), msgs[k].role = "assistant"
              PROVE  k + Len(msgs[k].ids) <= e
          <6>1. k \in 1..n
            BY <3>2, <3>4, <5>2
          <6>. QED BY <3>1, <5>2, <6>1
        <5>. QED BY <3>1, <4>2, <5>1, <5>2
      <4> HIDE DEF Reaches
      <4>. QED BY <3>2, <4>6, <4>7
    <3>5. CASE msgs[n + 1].role # "tool"
      <4>1. e = n
        <5>1. ~ (n + 1 \in (n + 1)..e)
          BY <3>1, <3>5
        <5>. QED BY <1>0, <3>2, <5>1
      <4> DEFINE l == (n + 1) + Len(msgs[n + 1].ids)
      <4>2. /\ l \in (n + 1)..N /\ blocks[n + 1] = SubSeq(msgs, n + 1, l)
            /\ \A p \in ((n + 1) + 1)..l : msgs[p].role = "tool"
        BY <2>12, <3>2, <3>5
      <4>3. msgs[n + 1].role = "assistant" => (n + 1) + Len(msgs[n + 1].ids) <= l
        BY <1>0, <3>2, <4>2
      <4> HIDE DEF l
      <4>4. f[n + 1] = SubSeq(msgs, 1, l)
        <5>1. 1 \in 1..N + 1 /\ n \in 0..N /\ l \in n..N
          BY <1>0, <3>2, <4>2
        <5>2. SubSeq(msgs, 1, n) \o SubSeq(msgs, n + 1, l) = SubSeq(msgs, 1, l)
          BY <5>1, ConcatAdjacentSubSeq
        <5>. QED BY <3>1, <3>3, <4>1, <4>2, <5>2
      <4>5. ASSUME NEW k \in 1..(n + 1), msgs[k].role = "assistant"
            PROVE  k + Len(msgs[k].ids) <= l
        <5>1. CASE k = n + 1
          BY <4>3, <4>5, <5>1
        <5>2. CASE k \in 1..n
          <6> DEFINE x == k + Len(msgs[k].ids)
          <6>1. Len(msgs[k].ids) \in Nat
            BY <1>0, <3>2, <5>2, MessageType DEF M
          <6>2. x <= e /\ x \in Nat
            BY <3>1, <4>5, <5>2, <6>1
          <6> HIDE DEF x
          <6>3. x <= l
            BY <1>0, <3>2, <4>1, <4>2, <6>2
          <6>. QED BY <6>3 DEF x
        <5>3. k = n + 1 \/ k \in 1..n
          BY <3>2
        <5>. QED BY <5>1, <5>2, <5>3
      <4>6. Reaches(n + 1, l)
        BY <4>2, <4>4, <4>5
      <4> HIDE DEF Reaches
      <4>. QED BY <3>2, <4>2, <4>6
    <3>. QED BY <3>4, <3>5
  <2> HIDE DEF X
  <2>15. \A n \in 1..N : n \in X
    BY <1>0, <2>1, <2>13, <2>14, ReachesAll
  <2>16. PICK e \in N..N : Reaches(N, e)
    BY <1>0, <2>1, <2>15 DEF X
  <2>17. f[N] = SubSeq(msgs, 1, N)
    BY <1>0, <2>16
  <2>18. SubSeq(msgs, 1, N) = msgs
    BY SubSeqFull
  <2>. QED BY <2>3, <2>5, <2>10, <2>17, <2>18
<1>. QED BY <1>1, <1>2

\* What a transcript may hold of another one: messages of its own turns, and at most
\* one answer of each.
Keeps(c, msgs) ==
  /\ SingleAnswers(c)
  /\ \A k \in DOMAIN c : c[k].turn # 0 => \E q \in DOMAIN msgs : c[k] = msgs[q]

LEMMA NoteType ==
  ASSUME NEW t \in Nat
  PROVE  /\ Note \in Messages(t) /\ Note.role = "user" /\ Note.ids = <<>> /\ Note.turn = 0
         /\ <<Note>> \in Seq(Messages(t)) /\ Answered(<<Note>>)
         /\ <<>> \in Seq(Messages(t)) /\ Answered(<<>>) /\ SingleAnswers(<<>>)
<1>1. Note \in Messages(t) /\ Note.role = "user" /\ Note.ids = <<>> /\ Note.turn = 0
  BY EmptySeq DEF Note, Message, Messages
<1>2. <<Note>> \in Seq(Messages(t)) /\ Answered(<<Note>>)
  BY <1>1, AnsweredOne
<1>3. <<>> \in Seq(Messages(t)) /\ DOMAIN <<>> = {}
  BY EmptySeq
<1>. QED BY <1>1, <1>2, <1>3 DEF Answered, SingleAnswers

\* The start of the tail that compression keeps.
LEMMA AlignedStartIn ==
  ASSUME NEW t \in Nat, NEW msgs \in Seq(Messages(t)), NEW i \in 1..Len(msgs)
  PROVE  AlignedStart(msgs, i) \in 1..i
<1> DEFINE back == {k \in 0..(i - 1) : msgs[i - k].role # "tool" \/ i - k = 1}
<1>1. i \in Nat \ {0} /\ Len(msgs) \in Nat
  BY LenProperties
<1>2. back \in SUBSET Nat /\ i - 1 \in back
  BY <1>1
<1>3. PICK k \in back : \A l \in back : k <= l
  <2> HIDE DEF back
  <2>. QED BY <1>2, LeastExists
<1>4. i - k \in 1..i /\ (msgs[i - k].role # "tool" \/ i - k = 1)
  BY <1>1, <1>3
<1>5. ASSUME NEW m \in (i - k + 1)..i PROVE msgs[m].role = "tool"
  <2>1. i - m \in 0..(i - 1) /\ i - m < k /\ i - (i - m) = m
    BY <1>1, <1>3
  <2>2. i - m \notin back
    <3>1. k \in Nat
      BY <1>2, <1>3
    <3> HIDE DEF back
    <3>. QED BY <1>3, <2>1, <3>1
  <2>. QED BY <2>1, <2>2
<1>6. \E j \in 1..i : /\ msgs[j].role # "tool" \/ j = 1
                      /\ \A m \in (j + 1)..i : msgs[m].role = "tool"
  BY <1>4, <1>5
<1>. QED BY <1>6 DEF AlignedStart

\* The head, a summary and a tail of a transcript.
LEMMA PartsAreSound ==
  ASSUME NEW t \in Nat, NEW n \in Seq(Messages(t)), NEW summary \in Summaries,
         Len(n) >= 5, NEW i \in 6..Len(n), n[1].role = "user"
  PROVE  LET x == SubSeq(n, 1, HeadCount) \o summary \o SubSeq(n, i, Len(n))
         IN  /\ x \in Seq(Messages(t)) /\ x # <<>> /\ x[1].role = "user"
             /\ SingleAnswers(n) => Keeps(x, n)
<1> DEFINE M == Messages(t)
           N == Len(n)
           a == SubSeq(n, 1, HeadCount)
           b == summary
           c == SubSeq(n, i, N)
           x == (a \o b) \o c
<1>0. N \in Nat /\ DOMAIN n = 1..N /\ \A k \in 1..N : n[k] \in M
  BY LenProperties, ElementOfSeq
<1>1. a \in Seq(M) /\ DOMAIN a = 1..2 /\ Len(a) = 2 /\ \A k \in 1..2 : a[k] = n[k]
  <2>1. \A k \in 1..2 : n[k] \in M
    BY <1>0
  <2>2. SubSeq(n, 1, 2) \in Seq(M) /\ Len(SubSeq(n, 1, 2)) = 2
        /\ \A k \in 1..2 : SubSeq(n, 1, 2)[k] = n[k]
    BY <2>1, SubSeqProperties
  <2>. QED BY <2>2, LenProperties DEF HeadCount
<1>2. c \in Seq(M) /\ DOMAIN c = 1..Len(c) /\ Len(c) = N - i + 1
      /\ \A k \in 1..Len(c) : i + k - 1 \in i..N /\ c[k] = n[i + k - 1]
  <2>1. \A k \in i..N : n[k] \in M
    BY <1>0
  <2>2. SubSeq(n, i, N) \in Seq(M) /\ Len(SubSeq(n, i, N)) = N - i + 1
        /\ \A k \in 1..(N - i + 1) : SubSeq(n, i, N)[k] = n[i + k - 1]
    <3>1. i \in Int /\ N \in Int /\ i <= N
      BY <1>0
    <3> HIDE DEF N
    <3>. QED BY <2>1, <3>1, SubSeqProperties
  <2>3. \A k \in 1..(N - i + 1) : i + k - 1 \in i..N
    BY <1>0
  <2>. QED BY <2>2, <2>3, LenProperties
<1>3. b \in Seq(M) /\ SingleAnswers(b) /\ \A k \in DOMAIN b : b[k].turn = 0 /\ ~ Plain(b[k])
  <2>1. CASE b = <<>>
    BY <2>1, NoteType
  <2>2. CASE b = <<Note>>
    <3>1. DOMAIN <<Note>> = {1} /\ <<Note>>[1] = Note
      OBVIOUS
    <3>2. ~ Plain(Note) /\ Note.turn = 0
      BY NoteType DEF Plain
    <3>. QED BY <2>2, <3>1, <3>2, NoteType DEF SingleAnswers
  <2>. QED BY <2>1, <2>2 DEF Summaries
<1> HIDE DEF a, b, c, x, N, M
<1>4. /\ a \o b \in Seq(M) /\ 1 \in DOMAIN (a \o b) /\ (a \o b)[1] = n[1]
      /\ \A k \in DOMAIN (a \o b) : \/ \E h \in 1..2 : (a \o b)[k] = n[h]
                                    \/ \E h \in DOMAIN b : (a \o b)[k] = b[h]
  <2>1. /\ a \o b \in Seq(M) /\ DOMAIN (a \o b) = 1..Len(a) + Len(b) /\ Len(b) \in Nat
        /\ \A k \in DOMAIN a : (a \o b)[k] = a[k]
        /\ \A h \in DOMAIN b : (a \o b)[Len(a) + h] = b[h]
        /\ \A k \in DOMAIN (a \o b) : k \in DOMAIN a \/ \E h \in DOMAIN b : k = Len(a) + h
    <3>1. a \in Seq(M) /\ b \in Seq(M)
      BY <1>1, <1>3
    <3>. QED BY ONLY <3>1, ConcatParts
  <2>. QED BY <1>1, <2>1
<1>5. /\ x \in Seq(M) /\ 1 \in DOMAIN x /\ x[1] = n[1]
      /\ \A k \in DOMAIN x : \/ \E h \in DOMAIN (a \o b) : x[k] = (a \o b)[h]
                             \/ \E h \in DOMAIN c : x[k] = c[h]
  <2> DEFINE ab == a \o b
  <2>0. ab \in Seq(M) /\ 1 \in DOMAIN ab /\ ab[1] = n[1]
    BY <1>4
  <2> HIDE DEF ab
  <2>1. /\ ab \o c \in Seq(M) /\ DOMAIN (ab \o c) = 1..Len(ab) + Len(c)
        /\ Len(ab) \in Nat /\ Len(c) \in Nat /\ DOMAIN ab = 1..Len(ab)
        /\ \A k \in DOMAIN ab : (ab \o c)[k] = ab[k]
        /\ \A h \in DOMAIN c : (ab \o c)[Len(ab) + h] = c[h]
        /\ \A k \in DOMAIN (ab \o c) : k \in DOMAIN ab \/ \E h \in DOMAIN c : k = Len(ab) + h
    <3>1. ab \in Seq(M) /\ c \in Seq(M)
      BY <1>2, <2>0
    <3>. QED BY ONLY <3>1, ConcatParts
  <2>2. 1 \in 1..Len(ab) + Len(c)
    BY <2>0, <2>1
  <2>3. x = ab \o c
    BY DEF x, ab
  <2>4. x \in Seq(M) /\ 1 \in DOMAIN x /\ x[1] = n[1]
    BY <2>0, <2>1, <2>2, <2>3
  <2>5. ASSUME NEW k \in DOMAIN x
        PROVE  (\E h \in DOMAIN ab : x[k] = ab[h]) \/ (\E h \in DOMAIN c : x[k] = c[h])
    BY <2>1, <2>3
  <2>. QED BY <2>4, <2>5 DEF ab
<1>6. ASSUME SingleAnswers(n) PROVE Keeps(x, n)
  <2>1. SingleAnswers(a)
    BY <1>0, <1>1, <1>6 DEF SingleAnswers
  <2>2. SingleAnswers(c)
    <3> SUFFICES ASSUME NEW h \in DOMAIN c, NEW j \in DOMAIN c, Plain(c[h]), j > h
                 PROVE  c[j].turn # c[h].turn
      BY DEF SingleAnswers
    <3>1. /\ i + h - 1 \in DOMAIN n /\ i + j - 1 \in DOMAIN n /\ i + j - 1 > i + h - 1
          /\ c[h] = n[i + h - 1] /\ c[j] = n[i + j - 1]
      BY <1>0, <1>2
    <3>. QED BY <1>6, <3>1 DEF SingleAnswers
  <2>3. \A m \in M : Plain(m) => m.turn # 0
    BY DEF M, Messages, Plain
  <2>4. SingleAnswers(a \o b)
    <3>1. \A h \in DOMAIN a : \A j \in DOMAIN b : Plain(a[h]) => b[j].turn # a[h].turn
      BY <1>0, <1>1, <1>3, <2>3
    <3>. QED BY <1>1, <1>3, <2>1, <3>1, SingleConcat DEF M
  <2>5. ASSUME NEW h \in DOMAIN (a \o b), NEW j \in DOMAIN c, Plain((a \o b)[h])
        PROVE  c[j].turn # (a \o b)[h].turn
    <3>1. PICK g \in 1..2 : (a \o b)[h] = n[g]
      BY <1>3, <1>4, <2>5
    <3>2. i + j - 1 \in DOMAIN n /\ c[j] = n[i + j - 1] /\ i + j - 1 > g /\ g \in DOMAIN n
      BY <1>0, <1>2
    <3>. QED BY <1>6, <2>5, <3>1, <3>2 DEF SingleAnswers
  <2>6. SingleAnswers(x)
    <3> DEFINE ab == a \o b
    <3>1. ab \in Seq(M) /\ SingleAnswers(ab) /\ x = ab \o c
      BY <1>4, <2>4 DEF x
    <3>2. \A h \in DOMAIN ab : \A j \in DOMAIN c : Plain(ab[h]) => c[j].turn # ab[h].turn
      BY <2>5
    <3> HIDE DEF ab
    <3>. QED BY <1>2, <2>2, <3>1, <3>2, SingleConcat DEF M
  <2>7. ASSUME NEW k \in DOMAIN x, x[k].turn # 0 PROVE \E q \in DOMAIN n : x[k] = n[q]
    <3>1. CASE \E h \in DOMAIN (a \o b) : x[k] = (a \o b)[h]
      <4>1. PICK h \in 1..2 : x[k] = n[h]
        <5>1. PICK g \in DOMAIN (a \o b) : x[k] = (a \o b)[g]
          BY <3>1
        <5>2. ~ \E h \in DOMAIN b : (a \o b)[g] = b[h]
          BY <1>3, <2>7, <5>1
        <5>. QED BY <1>4, <5>1, <5>2
      <4>. QED BY <1>0, <4>1
    <3>2. CASE \E h \in DOMAIN c : x[k] = c[h]
      BY <1>0, <1>2, <3>2
    <3>. QED BY <1>5, <3>1, <3>2
  <2>. QED BY <2>6, <2>7 DEF Keeps
<1>7. x # <<>>
  BY <1>5
<1>. QED BY <1>5, <1>6, <1>7 DEF x, a, b, c, N, M

LEMMA CompressionsAreSound ==
  ASSUME NEW t \in Nat, NEW msgs \in Seq(Messages(t)), NEW c \in Compressions(msgs)
  PROVE  /\ c \in Seq(Messages(t)) /\ Valid(c)
         /\ msgs # <<>> /\ msgs[1].role = "user" => c # <<>>
         /\ SingleAnswers(msgs) => Keeps(c, msgs)
<1> DEFINE n == Normal(msgs)
           starts == {AlignedStart(n, i) : i \in 1..Len(n)}
<1>1. /\ n \in Seq(Messages(t)) /\ Valid(n)
      /\ msgs # <<>> /\ msgs[1].role = "user" => n # <<>>
      /\ SingleAnswers(msgs) => Keeps(n, msgs)
  BY NormalIsSound DEF Keeps
<1>2. \/ c = n
      \/ \E summary \in Summaries, i \in {j \in starts : Len(n) >= 5 /\ j > HeadCount + 3} :
           c = Normal(SubSeq(n, 1, HeadCount) \o summary \o SubSeq(n, i, Len(n)))
  BY DEF Compressions
<1> HIDE DEF n
<1>3. CASE c = n
  BY <1>1, <1>3
<1>4. CASE \E summary \in Summaries, i \in {j \in starts : Len(n) >= 5 /\ j > HeadCount + 3} :
             c = Normal(SubSeq(n, 1, HeadCount) \o summary \o SubSeq(n, i, Len(n)))
  <2>1. PICK summary \in Summaries, i \in starts :
               /\ Len(n) >= 5 /\ i > HeadCount + 3
               /\ c = Normal(SubSeq(n, 1, HeadCount) \o summary \o SubSeq(n, i, Len(n)))
    BY <1>4
  <2>2. i \in 6..Len(n)
    <3>1. PICK j \in 1..Len(n) : i = AlignedStart(n, j)
      OBVIOUS
    <3>2. i \in 1..j
      BY <1>1, <3>1, AlignedStartIn
    <3>3. Len(n) \in Nat
      BY <1>1, LenProperties
    <3>. QED BY <2>1, <3>2, <3>3 DEF HeadCount
  <2> DEFINE x == SubSeq(n, 1, HeadCount) \o summary \o SubSeq(n, i, Len(n))
  <2>3. n # <<>> /\ n[1].role = "user"
    <3>1. n # <<>>
      BY <2>1, EmptySeq
    <3>. QED BY <1>1, <3>1, ValidIsAnswered
  <2>4. /\ x \in Seq(Messages(t)) /\ x # <<>> /\ x[1].role = "user"
        /\ SingleAnswers(n) => Keeps(x, n)
    BY <1>1, <2>1, <2>2, <2>3, PartsAreSound
  <2> HIDE DEF x
  <2>5. /\ c \in Seq(Messages(t)) /\ Valid(c) /\ c # <<>>
        /\ SingleAnswers(x) => Keeps(c, x)
    <3>1. c = Normal(x)
      BY <2>1 DEF x
    <3>. QED BY <2>4, <3>1, NormalIsSound DEF Keeps
  <2>6. SingleAnswers(msgs) => Keeps(c, msgs)
    BY <1>1, <2>4, <2>5 DEF Keeps
  <2>. QED BY <2>5, <2>6
<1>. QED BY <1>2, <1>3, <1>4

\* The rows of which each write succeeded.
LEMMA KeptRows ==
  ASSUME NEW t \in Nat, NEW rows \in Seq(Messages(t)), SingleAnswers(rows),
         NEW kept \in SUBSET DOMAIN rows
  PROVE  LET s == FlattenSeq([k \in DOMAIN rows |->
                                IF k \in kept THEN <<rows[k]>> ELSE <<>>])
         IN  /\ s \in Seq(Messages(t)) /\ Keeps(s, rows)
             /\ kept = DOMAIN rows => s = rows
<1> DEFINE M == Messages(t)
           N == Len(rows)
           seqs == [k \in DOMAIN rows |-> IF k \in kept THEN <<rows[k]>> ELSE <<>>]
           s == FlattenSeq(seqs)
<1>0. /\ N \in Nat /\ DOMAIN rows = 1..N /\ rows \in Seq(M)
      /\ \A k \in 1..N : rows[k] \in M
  BY LenProperties, ElementOfSeq
<1>1. \A k \in 1..N : seqs[k] = IF k \in kept THEN <<rows[k]>> ELSE <<>>
  BY <1>0
<1>2. seqs \in Seq(Seq(M)) /\ Len(seqs) = N
  <2>1. \A k \in 1..N : <<rows[k]>> \in Seq(M) /\ <<>> \in Seq(M)
    BY <1>0
  <2>2. \A k \in 1..N : seqs[k] \in Seq(M)
    BY <1>1, <2>1
  <2>3. seqs = [k \in 1..N |-> seqs[k]]
    BY <1>0
  <2> HIDE DEF seqs, M
  <2>4. seqs \in [1..N -> Seq(M)]
    BY <2>2, <2>3
  <2>. QED BY <1>0, <2>4, SeqDef, LenProperties
<1> HIDE DEF seqs
<1>3. CASE N = 0
  <2>1. rows = <<>> /\ seqs = <<>>
    BY <1>2, <1>3, EmptySeq
  <2>2. s = <<>>
    BY <1>2, <1>3, <2>1, Zenon DEF FlattenSeq
  <2>3. <<>> \in Seq(M) /\ DOMAIN <<>> = {}
    BY EmptySeq
  <2>4. Keeps(<<>>, rows)
    BY <2>3 DEF Keeps, SingleAnswers
  <2>. QED BY <2>1, <2>2, <2>3, <2>4 DEF seqs
<1>4. CASE N # 0
  <2>1. seqs # <<>> /\ 1 \in 1..N
    BY <1>0, <1>2, <1>4, EmptySeq
  <2>2. PICK f \in [1..N -> Seq(M)] : Joins(f, seqs, N) /\ FlattenSeq(seqs) = f[N]
    BY <1>2, <2>1, FlattenIsJoin
  <2>3. s \in Seq(M)
    BY <2>1, <2>2, <1>0
  <2>4. ASSUME NEW n \in 1..N PROVE MadeFrom(seqs[n], rows, 0 + n)
    <3>1. CASE n \in kept
      <4>1. seqs[n] = <<rows[n]>>
        BY <1>1, <3>1, Zenon
      <4>5. DOMAIN <<rows[n]>> = {1} /\ <<rows[n]>>[1] = rows[n]
        OBVIOUS
      <4>2. 0 + n = n /\ n \in DOMAIN rows /\ n >= n
        BY <1>0
      <4>3. DOMAIN seqs[n] = {1} /\ seqs[n][1] = rows[n]
        BY <4>1, <4>5
      <4>4. MadeFrom(seqs[n], rows, n)
        BY <4>2, <4>3 DEF MadeFrom
      <4>. QED BY <4>2, <4>4
    <3>2. CASE n \notin kept
      <4>1. seqs[n] = <<>>
        BY <1>1, <3>2, Zenon
      <4>2. DOMAIN <<>> = {}
        OBVIOUS
      <4>. QED BY <4>1, <4>2 DEF MadeFrom
    <3>. QED BY <3>1, <3>2
  <2>5. Keeps(s, rows)
    <3>1. 0 + Len(seqs) <= Len(rows) /\ 0 \in Nat
      BY <1>0, <1>2
    <3>. QED BY <1>2, <2>1, <2>4, <3>1, OneAnswerJoin DEF Keeps
  <2>6. ASSUME kept = DOMAIN rows PROVE s = rows
    <3> DEFINE X == {n \in 1..N : f[n] = SubSeq(rows, 1, n)}
    <3>1. \A n \in 1..N : seqs[n] = <<rows[n]>>
      BY <1>0, <1>1, <2>6
    <3>2. \A n \in 1..N : SubSeq(rows, 1, n) = SubSeq(rows, 1, n - 1) \o <<rows[n]>>
      BY <1>0, SubSeqRecursiveSecond
    <3>3. 1 \in X
      <4>1. f[1] = <<rows[1]>> /\ 1 - 1 < 1
        BY <2>1, <2>2, <3>1 DEF Joins
      <4>2. SubSeq(rows, 1, 1) = <<rows[1]>>
        <5>1. SubSeq(rows, 1, 1 - 1) = <<>>
          BY SubSeqEmpty
        <5>2. <<>> \o <<rows[1]>> = <<rows[1]>>
          <6>1. <<rows[1]>> \in Seq(M)
            BY <1>0, <2>1
          <6>. QED BY <6>1, ConcatEmptySeq
        <5>. QED BY <2>1, <3>2, <5>1, <5>2
      <4>. QED BY <2>1, <4>1, <4>2
    <3>4. ASSUME NEW n \in 1..N - 1, n \in X PROVE n + 1 \in X
      <4>1. n + 1 \in 1..N /\ n + 1 \in 2..N /\ (n + 1) - 1 = n
        BY <1>0
      <4>2. f[n + 1] = f[n] \o <<rows[n + 1]>>
        BY <2>2, <3>1, <4>1 DEF Joins
      <4>3. SubSeq(rows, 1, n + 1) = SubSeq(rows, 1, n) \o <<rows[n + 1]>>
        BY <3>2, <4>1
      <4>. QED BY <3>4, <4>1, <4>2, <4>3
    <3> HIDE DEF X
    <3>5. \A n \in 1..N : n \in X
      BY <1>0, <2>1, <3>3, <3>4, ReachesAll
    <3>6. f[N] = SubSeq(rows, 1, N)
      BY <1>0, <2>1, <3>5 DEF X
    <3>. QED BY <2>2, <3>6, SubSeqFull
  <2>. QED BY <2>3, <2>5, <2>6 DEF seqs
<1>. QED BY <1>3, <1>4

LEMMA ResultsAreSound ==
  ASSUME NEW t \in Nat, NEW ids \in Seq(CallIds)
  PROVE  /\ Results(ids, t) \in Seq(Messages(t)) /\ Len(Results(ids, t)) = Len(ids)
         /\ \A k \in 1..Len(ids) :
              /\ Results(ids, t)[k].role = "tool" /\ Results(ids, t)[k].ids = <<ids[k]>>
              /\ Results(ids, t)[k] = Message("tool", <<ids[k]>>, t)
         /\ SingleAnswers(Results(ids, t))
         /\ \A k \in DOMAIN Results(ids, t) : ~ Plain(Results(ids, t)[k])
<1> DEFINE r == Results(ids, t)
           N == Len(ids)
<1>1. N \in Nat /\ DOMAIN ids = 1..N /\ \A k \in 1..N : ids[k] \in CallIds
  BY LenProperties, ElementOfSeq
<1>2. r = [k \in 1..N |-> Message("tool", <<ids[k]>>, t)]
  BY <1>1 DEF Results
<1>3. ASSUME NEW id \in CallIds
      PROVE  /\ Message("tool", <<id>>, t) \in Messages(t) /\ ~ Plain(Message("tool", <<id>>, t))
             /\ Message("tool", <<id>>, t).role = "tool" /\ Message("tool", <<id>>, t).ids = <<id>>
  <2>1. <<id>> \in Seq(CallIds) /\ DOMAIN <<id>> = {1}
    OBVIOUS
  <2>. QED BY <2>1 DEF Message, Messages, Plain
<1> HIDE DEF r
<1>4. \A k \in 1..N : r[k] = Message("tool", <<ids[k]>>, t)
  BY <1>2
<1>5. \A k \in 1..N : r[k] \in Messages(t) /\ ~ Plain(r[k])
                      /\ r[k].role = "tool" /\ r[k].ids = <<ids[k]>>
  BY <1>1, <1>3, <1>4
<1>6. r \in Seq(Messages(t)) /\ Len(r) = N /\ DOMAIN r = 1..N
  <2>1. r \in [1..N -> Messages(t)]
    BY <1>2, <1>5
  <2>. QED BY <1>1, <2>1, SeqDef, LenProperties
<1>7. SingleAnswers(r)
  BY <1>5, <1>6 DEF SingleAnswers
<1>. QED BY <1>4, <1>5, <1>6, <1>7 DEF r

\* Writing rows: every write that fails is damage, and the rows of a turn whose answer
\* is not stored yet keep the answers of the store single.
LEMMA PersistIsSound ==
  ASSUME NEW t \in Nat, store \in Seq(Messages(t)), damage \in Nat, SingleAnswers(store),
         NEW rows \in Seq(Messages(t)), SingleAnswers(rows),
         \A i \in DOMAIN store : \A j \in DOMAIN rows :
            Plain(store[i]) => rows[j].turn # store[i].turn,
         Persist(rows)
  PROVE  /\ store' \in Seq(Messages(t)) /\ damage' \in Nat /\ SingleAnswers(store')
         /\ run.mode = "workflow" => store' = store /\ damage' = damage
         /\ damage' = 0 /\ run.mode # "workflow" => store' = store \o rows
         /\ damage' = 0 => damage = 0
         /\ \A k \in DOMAIN store' :
              \/ store'[k].turn = 0
              \/ \E q \in DOMAIN store : store'[k] = store[q]
              \/ \E q \in DOMAIN rows : store'[k] = rows[q]
<1>1. CASE run.mode = "workflow"
  BY <1>1 DEF Persist
<1>2. CASE run.mode # "workflow"
  <2> DEFINE Kept(kept) == FlattenSeq([k \in DOMAIN rows |->
                                         IF k \in kept THEN <<rows[k]>> ELSE <<>>])
             M == Messages(t)
  <2>1. PICK kept \in SUBSET DOMAIN rows :
           /\ store' = store \o Kept(kept)
           /\ damage' = damage + Cardinality(DOMAIN rows \ kept)
    BY <1>2 DEF Persist
  <2> DEFINE s == Kept(kept)
  <2>2. s \in Seq(M) /\ Keeps(s, rows) /\ (kept = DOMAIN rows => s = rows)
    BY KeptRows
  <2> HIDE DEF s, Kept
  <2>3. store' = store \o s
    BY <2>1 DEF s
  <2>4. IsFiniteSet(DOMAIN rows \ kept)
    <3>1. DOMAIN rows = 1..Len(rows) /\ Len(rows) \in Nat
      BY LenProperties
    <3>2. IsFiniteSet(1..Len(rows))
      BY <3>1, FS_Interval
    <3>3. DOMAIN rows \ kept \subseteq 1..Len(rows)
      BY <3>1
    <3>. QED BY <3>2, <3>3, FS_Subset
  <2>5. Cardinality(DOMAIN rows \ kept) \in Nat
    BY <2>4, FS_CardinalityType
  <2>6. damage' \in Nat /\ (damage' = 0 => damage = 0 /\ Cardinality(DOMAIN rows \ kept) = 0)
    BY <2>1, <2>5
  <2>7. damage' = 0 => store' = store \o rows
    <3>1. Cardinality(DOMAIN rows \ kept) = 0 => DOMAIN rows \ kept = {}
      BY <2>4, FS_EmptySet
    <3>. QED BY <2>2, <2>3, <2>6, <3>1
  <2>8. \A m \in M : Plain(m) => m.turn # 0
    BY DEF Messages, Plain
  <2>9. \A i \in DOMAIN store : store[i] \in M
    BY LenProperties, ElementOfSeq
  <2>10. ASSUME NEW i \in DOMAIN store, NEW j \in DOMAIN s, Plain(store[i])
         PROVE  s[j].turn # store[i].turn
    BY <2>2, <2>8, <2>9, <2>10 DEF Keeps
  <2> HIDE DEF M
  <2>11. store \in Seq(M)
    BY DEF M
  <2>12. SingleAnswers(store \o s)
    BY <2>2, <2>10, <2>11, SingleConcat DEF Keeps, M
  <2>13. /\ store \o s \in Seq(M)
         /\ \A k \in DOMAIN store : (store \o s)[k] = store[k]
         /\ \A h \in DOMAIN s : (store \o s)[Len(store) + h] = s[h]
         /\ \A k \in DOMAIN (store \o s) : k \in DOMAIN store \/ \E h \in DOMAIN s : k = Len(store) + h
    BY <2>2, <2>11, ConcatParts
  <2>14. ASSUME NEW k \in DOMAIN (store \o s), (store \o s)[k].turn # 0
         PROVE  \/ \E q \in DOMAIN store : (store \o s)[k] = store[q]
                \/ \E q \in DOMAIN rows : (store \o s)[k] = rows[q]
    <3>1. CASE k \in DOMAIN store
      BY <2>13, <3>1
    <3>2. CASE \E h \in DOMAIN s : k = Len(store) + h
      <4>1. PICK h \in DOMAIN s : k = Len(store) + h
        BY <3>2
      <4>2. (store \o s)[k] = s[h]
        BY <2>13, <4>1
      <4>. QED BY <2>2, <2>14, <4>2 DEF Keeps
    <3>. QED BY <2>13, <3>1, <3>2
  <2>15. \A k \in DOMAIN store' :
              \/ store'[k].turn = 0
              \/ \E q \in DOMAIN store : store'[k] = store[q]
              \/ \E q \in DOMAIN rows : store'[k] = rows[q]
    BY <2>3, <2>14
  <2>. QED BY <1>2, <2>3, <2>6, <2>7, <2>12, <2>13, <2>15 DEF M
<1>. QED BY <1>1, <1>2

\* A user message can follow any valid transcript.
LEMMA UserAppended ==
  ASSUME NEW t \in Nat, NEW h \in Seq(Messages(t)), Valid(h), NEW m \in Messages(t), m.role = "user"
  PROVE  /\ Append(h, m) \in Seq(Messages(t)) /\ Valid(Append(h, m)) /\ Append(h, m) # <<>>
         /\ Len(h) + 1 \in DOMAIN Append(h, m) /\ Append(h, m)[Len(h) + 1] = m
         /\ \A i \in DOMAIN h : i \in DOMAIN Append(h, m) /\ Append(h, m)[i] = h[i]
<1>1. m.ids = <<>> /\ m.role # "tool"
  BY DEF Messages
<1>2. <<m>> \in Seq(Messages(t)) /\ Answered(<<m>>) /\ <<m>>[1] = m
  BY <1>1, AnsweredOne
<1>3. Append(h, m) = h \o <<m>>
  BY AppendIsConcat
<1>4. /\ Append(h, m) \in Seq(Messages(t)) /\ Append(h, m) # <<>>
      /\ DOMAIN Append(h, m) = 1..Len(h) + 1 /\ Append(h, m)[Len(h) + 1] = m
      /\ DOMAIN h = 1..Len(h) /\ Len(h) \in Nat
      /\ \A i \in 1..Len(h) : Append(h, m)[i] = h[i]
  BY AppendProperties, LenProperties
<1>5. Valid(Append(h, m))
  <2>1. CASE h = <<>>
    <3>1. Append(h, m) = <<m>>
      BY <2>1
    <3>. QED BY <1>2, <3>1, ValidIsAnswered
  <2>2. CASE h # <<>>
    BY <1>2, <1>3, <2>2, ValidConcat
  <2>. QED BY <2>1, <2>2
<1>. QED BY <1>4, <1>5

LEMMA MessagesGrow ==
  ASSUME NEW t \in Nat, NEW s \in Seq(Messages(t))
  PROVE  s \in Seq(Messages(t + 1))
<1>1. Messages(t) \subseteq Messages(t + 1)
  BY DEF Messages
<1>. QED BY <1>1, SeqMonotonic


-----------------------------------------------------------------------------
Kinds == {None, "parallel", "serial", "terminal", "fill", "final"}

Places == {"idle", "top", "compress", "queued", "calling", "tools", "guards",
           "over", "stageB", "stageC", "refused"}

Run == [pc : Places, mode : Modes \cup {None}, iterations : Nat, reserved : Nat,
        llmCalls : Nat, executed : Nat, retries : [Retries -> Nat], warnings : Nat,
        batch : Batches \cup {<<>>}, todo : SUBSET CallIds, kind : Kinds,
        asking : CallIds \cup {NoCall}, nudged : BOOLEAN, terminalUsed : BOOLEAN,
        refused : BOOLEAN]

TypeInv ==
  /\ run \in Run /\ turn \in 0..MaxTurns /\ damage \in Nat /\ trimmed \in BOOLEAN
  /\ store \in Seq(Messages(turn)) /\ context \in Seq(Messages(turn))

IsIdle == run.pc = "idle"

\* What is known of a run by its place: nobody is asked outside a tool, only the
\* salvage of a workflow run can be refused.
PhaseInv ==
  /\ IsIdle => run = Idle
  /\ active = IF IsIdle THEN 0 ELSE 1
  /\ ~ IsIdle => run.mode \in Modes /\ turn # 0
  /\ run.pc \notin {"tools", "stageB", "stageC"} => run.asking = NoCall
  /\ run.refused => run.pc = "refused"
  /\ run.pc \in {"stageB", "stageC", "refused"} => run.mode = "workflow"

\* The results a batch of n calls still owes when d of them are in the transcript.
Rest(n, d, t) == Results([k \in 1..(n - d) |-> d + k], t)

Owed(d) == Rest(Len(run.batch), d, turn)

\* While tools run, the transcript is one that becomes valid once the results still
\* owed are added; of a gathered batch all are owed until the last call is done.
BatchInv ==
  run.pc = "tools" =>
    /\ run.batch \in Batches /\ run.kind \in {"parallel", "serial", "terminal", "fill"}
    /\ run.todo # {} /\ run.todo \subseteq 1..Len(run.batch)
    /\ run.kind \in {"terminal", "fill"} => Len(run.batch) = 1
    /\ run.asking \in Startable \cup {NoCall}
    /\ \E d \in 0..(Len(run.batch) - 1) :
         /\ IF run.kind = "parallel" THEN d = 0 ELSE run.todo = (d + 1)..Len(run.batch)
         /\ Valid(context \o Owed(d))
         /\ damage = 0 /\ run.mode = "chat" => Valid(store \o Owed(d))

Ready == {"top", "compress", "queued", "calling", "guards", "over"}

\* Between two batches the transcript is valid, and the request of the run is in it
\* unless it was compressed in memory.
ContextInv ==
  /\ ~ IsIdle => context # <<>>
  /\ run.pc \in Ready => Valid(context)
  /\ ~ IsIdle /\ ~ trimmed => \E i \in DOMAIN context : IsRequest(context[i])

\* Without damage the stored transcript is as good as the one in memory, and a chat
\* at rest ends with an answer.
StoreInv ==
  damage = 0 =>
    /\ ~ (run.pc = "tools" /\ run.mode = "chat") => Valid(store)
    /\ run.mode = "chat" => store # <<>>
    /\ run.mode # "chat" /\ store # <<>> => Plain(store[Len(store)])

\* Answers are single, and the current run has none yet.
AnswerInv ==
  /\ SingleAnswers(store)
  /\ ~ IsIdle => \A i \in DOMAIN store : Plain(store[i]) => store[i].turn # turn

\* Calls of a batch are paid for before the first one starts, an iteration before the
\* call of the model it allows.
CostInv ==
  /\ run.reserved <= MaxToolCalls /\ run.executed <= run.reserved
  /\ run.pc = "tools" => run.executed + Cardinality(run.todo) <= run.reserved
  /\ run.llmCalls <= MaxIterations
  /\ run.pc \in {"top", "tools", "guards"} => run.llmCalls <= run.iterations
  /\ run.pc \in {"compress", "queued"} => run.llmCalls < run.iterations
  /\ run.pc = "calling" => run.llmCalls <= run.iterations
  /\ run.pc \in {"top", "compress", "queued", "calling", "tools", "guards"}
       => run.iterations < MaxIterations
  /\ run.pc = "over" => run.llmCalls < MaxIterations

TurnInv == /\ TypeInv /\ PhaseInv /\ BatchInv /\ ContextInv
           /\ StoreInv /\ AnswerInv /\ CostInv

-----------------------------------------------------------------------------
LEMMA IdleIsRun == Idle \in Run
BY TurnAssumption DEF Idle, Run, Places, Kinds, Retries, NoCall

LEMMA InitIsSound == TurnInit => TurnInv
<1> SUFFICES ASSUME TurnInit PROVE TurnInv
  OBVIOUS
<1>1. /\ run = Idle /\ run.pc = "idle" /\ run.mode = None /\ run.asking = NoCall
      /\ run.refused = FALSE /\ run.llmCalls = 0 /\ run.executed = 0 /\ run.reserved = 0
  BY DEF TurnInit, Idle
<1>2. <<>> \in Seq(Messages(turn)) /\ DOMAIN <<>> = {}
  BY EmptySeq
<1>3. Valid(<<>>) /\ SingleAnswers(<<>>)
  BY <1>2 DEF Valid, SingleAnswers
<1>4. TypeInv
  <2>1. run \in Run
    BY IdleIsRun DEF TurnInit
  <2>2. turn = 0 /\ 0 \in 0..MaxTurns
    BY TurnAssumption DEF TurnInit
  <2>. QED BY <1>2, <2>1, <2>2 DEF TurnInit, TypeInv
<1>5. PhaseInv /\ BatchInv /\ ContextInv
  BY <1>1 DEF TurnInit, PhaseInv, BatchInv, ContextInv, IsIdle, Ready
<1>6. StoreInv /\ AnswerInv
  BY <1>1, <1>3 DEF TurnInit, StoreInv, AnswerInv, IsIdle, None
<1>7. CostInv
  BY <1>1, TurnAssumption DEF CostInv
<1>. QED BY <1>4, <1>5, <1>6, <1>7 DEF TurnInv

\* A step of a run that leaves its transcripts alone, outside a batch.
LEMMA QuietStep ==
  ASSUME TurnInv, UNCHANGED <<store, context, turn, active, damage, trimmed>>,
         run' \in Run, run'.mode = run.mode, run.pc \notin {"idle", "tools"},
         run'.pc \notin {"idle", "tools"}, run'.pc \in Ready => run.pc \in Ready,
         PhaseInv', CostInv'
  PROVE  TurnInv'
<1>1. TypeInv'
  BY DEF TurnInv, TypeInv
<1>2. BatchInv'
  BY DEF BatchInv
<1>3. ContextInv'
  <2>1. \A m : IsRequest(m)' <=> IsRequest(m)
    BY DEF IsRequest
  <2>. QED BY <2>1 DEF TurnInv, ContextInv, IsIdle
<1>4. StoreInv' /\ AnswerInv'
  BY DEF TurnInv, StoreInv, AnswerInv, IsIdle
<1>. QED BY <1>1, <1>2, <1>3, <1>4 DEF TurnInv

LEMMA RunFields ==
  ASSUME run \in Run
  PROVE  /\ run.iterations \in Nat /\ run.reserved \in Nat /\ run.llmCalls \in Nat
         /\ run.executed \in Nat /\ run.warnings \in Nat /\ run.pc \in Places
         /\ run.todo \in SUBSET CallIds /\ run.retries \in [Retries -> Nat]
         /\ run.nudged \in BOOLEAN /\ run.refused \in BOOLEAN
BY DEF Run

LEMMA QuietSteps ==
  ASSUME TurnInv,
         BeginIteration \/ SkipCompression \/ CallModel \/ ModelAsksTooMuch \/ GoOn
         \/ AskFinal \/ FinalRefused
  PROVE  TurnInv'
<1>0. run \in Run
  BY DEF TurnInv, TypeInv
<1>inv. PhaseInv /\ CostInv /\ MaxBatch \in Nat \ {0} /\ MaxIterations \in Nat \ {0} /\ MaxToolCalls \in Nat
  BY TurnAssumption DEF TurnInv
<1>nat. /\ run.iterations \in Nat /\ run.reserved \in Nat /\ run.llmCalls \in Nat
      /\ run.iterations + 1 \in Nat /\ run.llmCalls + 1 \in Nat
  BY <1>0, RunFields
<1>one. 1 \in CallIds
  BY TurnAssumption DEF CallIds
<1>1. CASE BeginIteration
  <2>1. PICK pc \in {"over", "compress"} :
          /\ run.iterations + 1 >= MaxIterations => pc = "over"
          /\ run' = [run EXCEPT !.iterations = run.iterations + 1, !.pc = pc]
    BY <1>1 DEF BeginIteration
  <2>2. /\ run' \in Run /\ run'.mode = run.mode /\ run'.pc = pc /\ run'.asking = run.asking
        /\ run'.iterations = run.iterations + 1 /\ run'.llmCalls = run.llmCalls
        /\ run'.reserved = run.reserved /\ run'.executed = run.executed
        /\ run'.refused = run.refused
    BY <1>0, <1>nat, <2>1 DEF Run, Places
  <2>3. run.pc = "top" /\ active' = active /\ turn' = turn
    BY <1>1 DEF BeginIteration
  <2>4. PhaseInv'
    BY <1>inv, <2>1, <2>2, <2>3 DEF PhaseInv, IsIdle
  <2>5. CostInv'
    BY <1>inv, <1>nat, <2>1, <2>2, <2>3 DEF CostInv
  <2>. QED BY <1>1, <2>1, <2>2, <2>3, <2>4, <2>5, QuietStep DEF BeginIteration, Ready
<1>2. CASE SkipCompression
  <2>1. /\ run' = [run EXCEPT !.pc = "queued"]
        /\ run.pc \in {"compress"} /\ active' = active /\ turn' = turn
    BY <1>2 DEF SkipCompression
  <2>2. /\ run' \in Run /\ run'.mode = run.mode /\ run'.pc = "queued" /\ run'.asking = run.asking
        /\ run'.iterations = run.iterations /\ run'.llmCalls = run.llmCalls
        /\ run'.reserved = run.reserved /\ run'.executed = run.executed
        /\ run'.refused = run.refused
    BY <1>0, <1>nat, <1>one, <2>1 DEF Run, Places, Kinds, NoCall
  <2>3. PhaseInv'
    BY <1>inv, <2>1, <2>2 DEF PhaseInv, IsIdle
  <2>4. CostInv'
    BY <1>inv, <1>nat, <2>1, <2>2 DEF CostInv
  <2>. QED BY <1>2, <2>1, <2>2, <2>3, <2>4, QuietStep DEF SkipCompression, Ready
<1>3. CASE CallModel
  <2>1. /\ run' = [run EXCEPT !.pc = "calling", !.llmCalls = run.llmCalls + 1]
        /\ run.pc \in {"queued"} /\ active' = active /\ turn' = turn
    BY <1>3 DEF CallModel
  <2>2. /\ run' \in Run /\ run'.mode = run.mode /\ run'.pc = "calling" /\ run'.asking = run.asking
        /\ run'.iterations = run.iterations /\ run'.llmCalls = run.llmCalls + 1
        /\ run'.reserved = run.reserved /\ run'.executed = run.executed
        /\ run'.refused = run.refused
    BY <1>0, <1>nat, <1>one, <2>1 DEF Run, Places, Kinds, NoCall
  <2>3. PhaseInv'
    BY <1>inv, <2>1, <2>2 DEF PhaseInv, IsIdle
  <2>4. CostInv'
    BY <1>inv, <1>nat, <2>1, <2>2 DEF CostInv
  <2>. QED BY <1>3, <2>1, <2>2, <2>3, <2>4, QuietStep DEF CallModel, Ready
<1>4. CASE ModelAsksTooMuch
  <2>1. /\ run' = [run EXCEPT !.pc = "over"]
        /\ run.pc \in {"calling"} /\ active' = active /\ turn' = turn
    BY <1>4 DEF ModelAsksTooMuch
  <2>2. /\ run' \in Run /\ run'.mode = run.mode /\ run'.pc = "over" /\ run'.asking = run.asking
        /\ run'.iterations = run.iterations /\ run'.llmCalls = run.llmCalls
        /\ run'.reserved = run.reserved /\ run'.executed = run.executed
        /\ run'.refused = run.refused
    BY <1>0, <1>nat, <1>one, <2>1 DEF Run, Places, Kinds, NoCall
  <2>3. PhaseInv'
    BY <1>inv, <2>1, <2>2 DEF PhaseInv, IsIdle
  <2>4. CostInv'
    BY <1>inv, <1>nat, <2>1, <2>2 DEF CostInv
  <2>. QED BY <1>4, <2>1, <2>2, <2>3, <2>4, QuietStep DEF ModelAsksTooMuch, Ready
<1>5. CASE GoOn
  <2>1. /\ run' = [run EXCEPT !.pc = "top", !.batch = <<>>, !.kind = None]
        /\ run.pc \in {"guards"} /\ active' = active /\ turn' = turn
    BY <1>5 DEF GoOn
  <2>2. /\ run' \in Run /\ run'.mode = run.mode /\ run'.pc = "top" /\ run'.asking = run.asking
        /\ run'.iterations = run.iterations /\ run'.llmCalls = run.llmCalls
        /\ run'.reserved = run.reserved /\ run'.executed = run.executed
        /\ run'.refused = run.refused
    BY <1>0, <1>nat, <1>one, <2>1 DEF Run, Places, Kinds, NoCall
  <2>3. PhaseInv'
    BY <1>inv, <2>1, <2>2 DEF PhaseInv, IsIdle
  <2>4. CostInv'
    BY <1>inv, <1>nat, <2>1, <2>2 DEF CostInv
  <2>. QED BY <1>5, <2>1, <2>2, <2>3, <2>4, QuietStep DEF GoOn, Ready
<1>6. CASE AskFinal
  <2>1. /\ run' = [run EXCEPT !.asking = 1]
        /\ run.pc \in {"stageB", "stageC"} /\ active' = active /\ turn' = turn
    BY <1>6 DEF AskFinal, InFinal
  <2>2. /\ run' \in Run /\ run'.mode = run.mode /\ run'.pc = run.pc /\ run'.asking = 1
        /\ run'.iterations = run.iterations /\ run'.llmCalls = run.llmCalls
        /\ run'.reserved = run.reserved /\ run'.executed = run.executed
        /\ run'.refused = run.refused
    BY <1>0, <1>nat, <1>one, <2>1 DEF Run, Places, Kinds, NoCall
  <2>3. PhaseInv'
    BY <1>inv, <2>1, <2>2 DEF PhaseInv, IsIdle
  <2>4. CostInv'
    BY <1>inv, <1>nat, <2>1, <2>2 DEF CostInv
  <2>. QED BY <1>6, <2>1, <2>2, <2>3, <2>4, QuietStep DEF AskFinal, InFinal, Ready
<1>7. CASE FinalRefused
  <2>1. /\ run' = [run EXCEPT !.pc = "refused", !.refused = TRUE, !.asking = NoCall]
        /\ run.pc \in {"stageB", "stageC"} /\ active' = active /\ turn' = turn
    BY <1>7 DEF FinalRefused, InFinal
  <2>2. /\ run' \in Run /\ run'.mode = run.mode /\ run'.pc = "refused" /\ run'.asking = NoCall
        /\ run'.iterations = run.iterations /\ run'.llmCalls = run.llmCalls
        /\ run'.reserved = run.reserved /\ run'.executed = run.executed
        /\ run'.refused = TRUE
    BY <1>0, <1>nat, <1>one, <2>1 DEF Run, Places, Kinds, NoCall
  <2>3. PhaseInv'
    BY <1>inv, <2>1, <2>2 DEF PhaseInv, IsIdle
  <2>4. CostInv'
    BY <1>inv, <1>nat, <2>1, <2>2 DEF CostInv
  <2>. QED BY <1>7, <2>1, <2>2, <2>3, <2>4, QuietStep DEF FinalRefused, InFinal, Ready
<1>. QED BY <1>1, <1>2, <1>3, <1>4, <1>5, <1>6, <1>7

\* The ways out of a run.
LEMMA FinalizeStep ==
  ASSUME TurnInv, ~ IsIdle, FinalizeTurn,
         store' \in Seq(Messages(turn)), damage' \in Nat, SingleAnswers(store'),
         damage' = 0 => /\ Valid(store')
                        /\ store' # <<>> => Plain(store'[Len(store')])
  PROVE  TurnInv'
<1>1. /\ run' = Idle /\ context' = <<>> /\ trimmed' = FALSE /\ turn' = turn /\ active' = 0
      /\ turn \in 0..MaxTurns
  BY DEF FinalizeTurn, TurnInv, TypeInv, PhaseInv
<1>2. /\ run'.pc = "idle" /\ run'.mode = None /\ run'.asking = NoCall
      /\ run'.refused = FALSE /\ run'.llmCalls = 0 /\ run'.executed = 0 /\ run'.reserved = 0
  BY <1>1 DEF Idle
<1>3. <<>> \in Seq(Messages(turn))
  BY EmptySeq
<1>4. TypeInv'
  <2>1. run' \in Run
    BY <1>1, IdleIsRun
  <2>. QED BY <1>1, <1>3, <2>1 DEF TypeInv
<1>5. PhaseInv'
  <2>1. Idle' = Idle
    BY DEF Idle
  <2>. QED BY <1>1, <1>2, <2>1 DEF PhaseInv, IsIdle
<1>6. BatchInv' /\ ContextInv'
  BY <1>2 DEF BatchInv, ContextInv, IsIdle, Ready
<1>7. StoreInv' /\ AnswerInv'
  BY <1>2 DEF StoreInv, AnswerInv, IsIdle, None
<1>8. CostInv'
  BY <1>2, TurnAssumption DEF CostInv
<1>. QED BY <1>4, <1>5, <1>6, <1>7, <1>8 DEF TurnInv

LEMMA AbortStep ==
  ASSUME TurnInv, ~ IsIdle, Abort
  PROVE  TurnInv'
<1>1. /\ store' = store /\ store \in Seq(Messages(turn)) /\ damage \in Nat
      /\ FinalizeTurn /\ SingleAnswers(store) /\ StoreInv
      /\ damage' = damage + (IF run.mode = "chat" THEN 1 ELSE 0)
  BY DEF Abort, TurnInv, TypeInv, AnswerInv
<1>2. damage' \in Nat /\ (damage' = 0 => damage = 0 /\ run.mode # "chat")
  BY <1>1
<1>3. damage' = 0 => Valid(store) /\ (store # <<>> => Plain(store[Len(store)]))
  BY <1>1, <1>2 DEF StoreInv
<1>. QED BY <1>1, <1>2, <1>3, FinalizeStep

LEMMA AnswerType ==
  ASSUME turn \in Nat, turn # 0
  PROVE  /\ Answer \in Messages(turn) /\ Plain(Answer) /\ Answer.turn = turn
         /\ Answer.role = "assistant" /\ Answer.ids = <<>>
BY EmptySeq DEF Answer, Message, Messages, Plain

\* The results of a last call, if any, and the answer.
LEMMA SaveStep ==
  ASSUME TurnInv, ~ IsIdle, FinalizeTurn,
         NEW rows \in Seq(Messages(turn)), \A k \in DOMAIN rows : ~ Plain(rows[k]),
         \A k \in DOMAIN rows : rows[k].turn = turn,
         damage = 0 /\ run.mode = "chat" => Valid(store \o rows),
         Persist(Append(rows, Answer))
  PROVE  TurnInv'
<1> DEFINE M == Messages(turn)
           all == Append(rows, Answer)
<1>1. /\ turn \in Nat /\ turn # 0 /\ store \in Seq(M) /\ damage \in Nat /\ StoreInv
      /\ run.mode = "chat" \/ run.mode = "workflow"
      /\ SingleAnswers(store)
      /\ \A i \in DOMAIN store : Plain(store[i]) => store[i].turn # turn
  <2>1. store \in Seq(M) /\ damage \in Nat /\ turn \in 0..MaxTurns
    BY DEF TurnInv, TypeInv
  <2>2. turn # 0 /\ run.mode \in Modes
    BY DEF TurnInv, PhaseInv
  <2>3. StoreInv /\ AnswerInv
    BY DEF TurnInv
  <2>4. /\ SingleAnswers(store)
        /\ \A i \in DOMAIN store : Plain(store[i]) => store[i].turn # turn
    BY <2>3 DEF AnswerInv
  <2>5. turn \in Nat /\ (run.mode = "chat" \/ run.mode = "workflow")
    <3>1. turn \in Nat
      BY <2>1
    <3>2. Modes \subseteq {"chat", "workflow"}
      BY TurnAssumption
    <3>. QED BY <2>2, <3>1, <3>2
  <2>. QED BY <2>1, <2>2, <2>3, <2>4, <2>5
<1>2. Answer \in M /\ Plain(Answer) /\ Answer.turn = turn /\ Answer.role = "assistant"
      /\ Answer.ids = <<>>
  BY <1>1, AnswerType
<1>3. /\ all \in Seq(M) /\ all = rows \o <<Answer>> /\ all[Len(rows) + 1] = Answer
      /\ Len(all) = Len(rows) + 1 /\ DOMAIN all = 1..Len(rows) + 1 /\ DOMAIN rows = 1..Len(rows)
      /\ Len(rows) \in Nat
      /\ \A k \in 1..Len(rows) : all[k] = rows[k]
  BY <1>2, AppendProperties, AppendIsConcat, LenProperties
<1> HIDE DEF all
<1>4. SingleAnswers(all)
  <2> SUFFICES ASSUME NEW i \in DOMAIN all, NEW j \in DOMAIN all, Plain(all[i]), j > i PROVE FALSE
    BY DEF SingleAnswers
  <2>1. i \in DOMAIN rows
    BY <1>3
  <2>. QED BY <1>3, <2>1
<1>5. \A j \in DOMAIN all : all[j].turn = turn
  BY <1>2, <1>3
<1>6. /\ store' \in Seq(M) /\ damage' \in Nat /\ SingleAnswers(store')
      /\ run.mode = "workflow" => store' = store /\ damage' = damage
      /\ damage' = 0 /\ run.mode # "workflow" => store' = store \o all
      /\ damage' = 0 => damage = 0
  <2>1. \A i \in DOMAIN store : \A j \in DOMAIN all : Plain(store[i]) => all[j].turn # store[i].turn
    BY <1>1, <1>5
  <2>2. Persist(all)
    BY DEF all
  <2>. QED BY <1>1, <1>3, <1>4, <2>1, <2>2, PersistIsSound
<1>7. ASSUME damage' = 0, run.mode = "chat"
      PROVE  Valid(store') /\ Plain(store'[Len(store')])
  <2> DEFINE s == store \o rows
  <2>1. Valid(s) /\ store # <<>> /\ store' = store \o all
    BY <1>1, <1>6, <1>7 DEF StoreInv
  <2>2. <<Answer>> \in Seq(M) /\ Answered(<<Answer>>) /\ Len(<<Answer>>) = 1 /\ <<Answer>>[1] = Answer
    BY <1>1, <1>2, AnsweredOne
  <2>3. s \in Seq(M) /\ store' = s \o <<Answer>>
    <3>1. store \o (rows \o <<Answer>>) = (store \o rows) \o <<Answer>>
      BY <1>1, <2>2, ConcatAssociative
    <3>. QED BY <1>1, <1>3, <2>1, <3>1, ConcatProperties
  <2>4. s # <<>>
    BY <1>1, <2>1, ConcatEqualIffEmpty
  <2> HIDE DEF s
  <2>5. Valid(s \o <<Answer>>)
    BY <1>1, <2>1, <2>2, <2>3, <2>4, ValidConcat
  <2>6. /\ Len(s) \in Nat /\ Len(s \o <<Answer>>) = Len(s) + 1
        /\ (s \o <<Answer>>)[Len(s) + 1] = <<Answer>>[1]
    <3>1. s \o <<Answer>> = Append(s, Answer)
      BY <1>2, <2>3, AppendIsConcat
    <3>. QED BY <1>2, <2>2, <2>3, <3>1, AppendProperties, LenProperties
  <2>. QED BY <1>2, <2>2, <2>3, <2>5, <2>6
<1>8. damage' = 0 => Valid(store') /\ (store' # <<>> => Plain(store'[Len(store')]))
  <2>1. CASE run.mode = "chat"
    BY <1>7, <2>1
  <2>2. CASE run.mode = "workflow"
    BY <1>1, <1>6, <2>2 DEF StoreInv
  <2>. QED BY <1>1, <2>1, <2>2
<1>. QED BY <1>6, <1>8, FinalizeStep

LEMMA SaveTurnStep ==
  ASSUME TurnInv, run.pc \notin {"idle", "tools"}, SaveTurn
  PROVE  TurnInv'
<1> DEFINE M == Messages(turn)
<1>1. turn \in Nat /\ turn # 0 /\ store \in Seq(M) /\ ~ IsIdle /\ FinalizeTurn
  BY TurnAssumption DEF TurnInv, TypeInv, PhaseInv, IsIdle, SaveTurn
<1>2. <<>> \in Seq(M) /\ DOMAIN <<>> = {}
  BY EmptySeq
<1>3. Append(<<>>, Answer) = <<Answer>>
  OBVIOUS
<1>4. damage = 0 => Valid(store \o <<>>)
  <2>1. store \o <<>> = store
    BY <1>1, ConcatEmptySeq
  <2>. QED BY <2>1 DEF TurnInv, StoreInv
<1>5. Persist(Append(<<>>, Answer))
  BY <1>3 DEF SaveTurn
<1>. QED BY <1>1, <1>2, <1>4, <1>5, SaveStep

-----------------------------------------------------------------------------
\* What else begins or goes on without a batch.
LEMMA StartStep ==
  ASSUME TurnInv, NEW mode \in Modes, Start(mode)
  PROVE  TurnInv'
<1> DEFINE M == Messages(turn + 1)
           request == Message("user", <<>>, turn + 1)
<1>1. /\ run.pc = "idle" /\ turn < MaxTurns /\ turn' = turn + 1 /\ active' = active + 1
      /\ trimmed' = FALSE
      /\ run' = [Idle EXCEPT !.pc = "top", !.mode = mode]
      /\ \E history \in IF mode = "chat" THEN {Normal(store), <<>>} ELSE {<<>>} :
            context' = Append(history, request)
      /\ \/ mode = "workflow" /\ UNCHANGED <<store, damage>>
         \/ mode = "chat" /\ store' = Append(store, request) /\ UNCHANGED damage
         \/ mode = "chat" /\ UNCHANGED store /\ damage < MaxDamage /\ damage' = damage + 1
  BY DEF Start
<1>2. /\ turn \in Nat /\ turn \in 0..MaxTurns /\ store \in Seq(Messages(turn)) /\ damage \in Nat
      /\ StoreInv /\ AnswerInv /\ active = 0 /\ run = Idle
  <2>1. turn \in 0..MaxTurns /\ store \in Seq(Messages(turn)) /\ damage \in Nat
    BY DEF TurnInv, TypeInv
  <2>2. active = 0 /\ run = Idle
    BY <1>1 DEF TurnInv, PhaseInv, IsIdle
  <2>. QED BY <2>1, <2>2 DEF TurnInv
<1>3. /\ run'.pc = "top" /\ run'.mode = mode /\ run'.asking = NoCall /\ run'.refused = FALSE
      /\ run'.llmCalls = 0 /\ run'.executed = 0 /\ run'.reserved = 0 /\ run'.iterations = 0
      /\ run' \in Run
  <2>1. run' \in Run
    <3>1. Idle \in Run
      BY IdleIsRun
    <3>. QED BY <1>1, <3>1 DEF Run, Places
  <2>. QED BY <1>1, <2>1 DEF Idle
<1>4. /\ request \in M /\ request.role = "user" /\ request.turn = turn + 1 /\ request.ids = <<>>
      /\ ~ Plain(request)
  BY <1>2, EmptySeq DEF Message, Messages, Plain
<1>5. store \in Seq(M)
  BY <1>2, MessagesGrow
<1> HIDE DEF request
<1>6. /\ context' \in Seq(M) /\ Valid(context') /\ context' # <<>>
      /\ \E i \in DOMAIN context' : context'[i] = request
  <2>1. PICK history \in {Normal(store), <<>>} : context' = Append(history, request)
    BY <1>1
  <2>2. Normal(store) \in Seq(Messages(turn)) /\ Valid(Normal(store))
    BY <1>2, NormalIsSound
  <2>3. Normal(store) \in Seq(M)
    BY <1>2, <2>2, MessagesGrow
  <2>4. history \in Seq(M) /\ Valid(history)
    <3>1. <<>> \in Seq(M) /\ DOMAIN <<>> = {}
      BY EmptySeq
    <3>2. Valid(<<>>)
      BY <3>1 DEF Valid
    <3>. QED BY <2>2, <2>3, <3>1, <3>2
  <2>5. turn + 1 \in Nat
    BY <1>2
  <2>. QED BY <1>4, <2>1, <2>4, <2>5, UserAppended
<1>7. TypeInv'
  <2>1. store' \in Seq(M) /\ damage' \in Nat
    <3>1. Append(store, request) \in Seq(M)
      BY <1>4, <1>5, AppendProperties
    <3>2. store' = store \/ store' = Append(store, request)
      BY <1>1 DEF request
    <3>3. damage' = damage \/ damage' = damage + 1
      BY <1>1
    <3>4. store' \in Seq(M)
      BY ONLY <1>5, <3>1, <3>2
    <3>5. damage' \in Nat
      BY <1>2, <3>3
    <3>. QED BY <3>4, <3>5
  <2>2. turn' \in 0..MaxTurns
    BY <1>1, <1>2, TurnAssumption
  <2>. QED BY <1>1, <1>3, <1>6, <2>1, <2>2 DEF TypeInv
<1>8. PhaseInv'
  BY <1>1, <1>2, <1>3 DEF PhaseInv, IsIdle
<1>9. BatchInv'
  BY <1>3 DEF BatchInv
<1>10. ContextInv'
  <2>2. PICK i \in DOMAIN context' : context'[i] = request
    BY <1>6
  <2>3. IsRequest(context[i])'
    BY <1>1, <1>4, <2>2 DEF IsRequest
  <2>. QED BY <1>3, <1>6, <2>3 DEF ContextInv, IsIdle
<1>11. StoreInv'
  <2>1. SUFFICES ASSUME damage' = 0
                 PROVE  /\ Valid(store')
                        /\ run'.mode = "chat" => store' # <<>>
                        /\ run'.mode # "chat" /\ store' # <<>> => Plain(store'[Len(store')])
    BY DEF StoreInv
  <2>2. run.mode # "chat" /\ run.pc = "idle"
    BY <1>2 DEF Idle, None
  <2>3. CASE mode = "workflow" /\ UNCHANGED <<store, damage>>
    BY <1>2, <1>3, <2>1, <2>2, <2>3 DEF StoreInv
  <2>4. CASE mode = "chat" /\ store' = Append(store, request) /\ UNCHANGED damage
    <3>1. Valid(store)
      BY <1>2, <2>1, <2>2, <2>4 DEF StoreInv
    <3>2. turn + 1 \in Nat
      BY <1>2
    <3>3. Valid(Append(store, request)) /\ Append(store, request) # <<>>
      BY <1>4, <1>5, <3>1, <3>2, UserAppended
    <3>4. run'.mode = "chat" /\ store' = Append(store, request)
      BY <1>3, <2>4
    <3>. QED BY <3>3, <3>4
  <2>5. CASE mode = "chat" /\ damage' = damage + 1
    BY <1>2, <2>1, <2>5
  <2>. QED BY <1>1, <2>3, <2>4, <2>5 DEF request
<1>12. AnswerInv'
  <2>0. turn + 1 \in Nat
    BY <1>2
  <2>1. \A i \in DOMAIN store : store[i].turn # turn + 1
    <3> SUFFICES ASSUME NEW i \in DOMAIN store PROVE store[i].turn # turn + 1
      OBVIOUS
    <3>1. store[i] \in Messages(turn)
      BY <1>2, LenProperties, ElementOfSeq
    <3>. QED BY <1>2, <3>1, MessageType
  <2>2. SingleAnswers(store)
    BY <1>2 DEF AnswerInv
  <2>3. CASE store' = store
    BY <1>1, <2>1, <2>2, <2>3 DEF AnswerInv
  <2>4. CASE store' = Append(store, request)
    <3>1. /\ DOMAIN store = 1..Len(store) /\ Len(store) \in Nat
          /\ DOMAIN store' = 1..Len(store) + 1 /\ store'[Len(store) + 1] = request
          /\ \A i \in 1..Len(store) : store'[i] = store[i]
      BY <1>4, <1>5, <2>4, AppendProperties, LenProperties
    <3>2. SingleAnswers(store')
      <4> SUFFICES ASSUME NEW i \in DOMAIN store', NEW j \in DOMAIN store', Plain(store'[i]), j > i
                   PROVE  store'[j].turn # store'[i].turn
        BY DEF SingleAnswers
      <4>1. i \in DOMAIN store /\ store'[i] = store[i]
        BY <1>4, <3>1
      <4>2. CASE j \in DOMAIN store
        BY <2>2, <3>1, <4>1, <4>2 DEF SingleAnswers
      <4>3. CASE j = Len(store) + 1
        BY <1>4, <2>1, <3>1, <4>1, <4>3
      <4>. QED BY <3>1, <4>2, <4>3
    <3>3. \A i \in DOMAIN store' : Plain(store'[i]) => store'[i].turn # turn'
      BY <1>1, <1>4, <2>1, <3>1
    <3>. QED BY <3>2, <3>3 DEF AnswerInv
  <2>. QED BY <1>1, <2>3, <2>4 DEF request
<1>13. CostInv'
  BY <1>3, TurnAssumption DEF CostInv
<1>. QED BY <1>7, <1>8, <1>9, <1>10, <1>11, <1>12, <1>13 DEF TurnInv

-----------------------------------------------------------------------------
\* A step of a run to a place outside a batch.
LEMMA MoveStep ==
  ASSUME TurnInv, UNCHANGED <<turn, active>>, run' \in Run, run'.mode = run.mode,
         run.pc # "idle", run'.pc \notin {"idle", "tools"},
         trimmed' \in BOOLEAN, damage' \in Nat,
         store' \in Seq(Messages(turn)), context' \in Seq(Messages(turn)), context' # <<>>,
         run'.pc \in Ready => Valid(context'),
         ~ trimmed' => \E i \in DOMAIN context' : IsRequest(context'[i]),
         SingleAnswers(store'),
         \A i \in DOMAIN store' : Plain(store'[i]) => store'[i].turn # turn,
         damage' = 0 /\ run.mode = "chat" => Valid(store') /\ store' # <<>>,
         damage' = 0 /\ run.mode # "chat" => store' = store /\ damage = 0,
         PhaseInv', CostInv'
  PROVE  TurnInv'
<1>1. TypeInv'
  BY DEF TurnInv, TypeInv
<1>2. BatchInv'
  BY DEF BatchInv
<1>3. ContextInv'
  BY DEF ContextInv, IsRequest, IsIdle
<1>4. StoreInv'
  BY DEF TurnInv, StoreInv
<1>5. AnswerInv'
  BY DEF AnswerInv
<1>. QED BY <1>1, <1>2, <1>3, <1>4, <1>5 DEF TurnInv

\* What the proofs of the steps of a run need of its state.
LEMMA RunningFacts ==
  ASSUME TurnInv, run.pc # "idle"
  PROVE  /\ turn \in Nat /\ turn # 0 /\ damage \in Nat /\ trimmed \in BOOLEAN
         /\ store \in Seq(Messages(turn)) /\ context \in Seq(Messages(turn)) /\ context # <<>>
         /\ run \in Run /\ run.mode \in {"chat", "workflow"} /\ ~ IsIdle /\ active = 1
         /\ SingleAnswers(store)
         /\ \A i \in DOMAIN store : Plain(store[i]) => store[i].turn # turn
         /\ ~ trimmed => \E i \in DOMAIN context : IsRequest(context[i])
         /\ damage = 0 /\ run.mode = "chat" => store # <<>>
<1>1. /\ store \in Seq(Messages(turn)) /\ context \in Seq(Messages(turn))
      /\ damage \in Nat /\ turn \in 0..MaxTurns /\ run \in Run /\ trimmed \in BOOLEAN
  BY DEF TurnInv, TypeInv
<1>2. turn # 0 /\ run.mode \in Modes /\ active = 1 /\ ~ IsIdle
  BY DEF TurnInv, PhaseInv, IsIdle
<1>3. Modes \subseteq {"chat", "workflow"} /\ turn \in Nat
  BY <1>1, TurnAssumption
<1>4. /\ SingleAnswers(store)
      /\ \A i \in DOMAIN store : Plain(store[i]) => store[i].turn # turn
  BY <1>2 DEF TurnInv, AnswerInv
<1>5. /\ context # <<>>
      /\ ~ trimmed => \E i \in DOMAIN context : IsRequest(context[i])
  BY <1>2 DEF TurnInv, ContextInv
<1>6. damage = 0 /\ run.mode = "chat" => store # <<>>
  BY DEF TurnInv, StoreInv
<1>. QED BY <1>1, <1>2, <1>3, <1>4, <1>5, <1>6

LEMMA RetryStep ==
  ASSUME TurnInv, NEW kind \in Retries, ModelMustRetry(kind)
  PROVE  TurnInv'
<1>1. /\ run.pc = "calling" /\ context' = Append(context, Note)
      /\ run' = [run EXCEPT !.pc = "top", !.retries[kind] = @ + 1]
      /\ UNCHANGED <<store, turn, active, damage, trimmed>>
  BY DEF ModelMustRetry
<1>2. /\ turn \in Nat /\ turn # 0 /\ damage \in Nat /\ trimmed \in BOOLEAN
      /\ store \in Seq(Messages(turn)) /\ context \in Seq(Messages(turn)) /\ context # <<>>
      /\ run \in Run /\ SingleAnswers(store)
      /\ \A i \in DOMAIN store : Plain(store[i]) => store[i].turn # turn
      /\ ~ trimmed => \E i \in DOMAIN context : IsRequest(context[i])
      /\ damage = 0 /\ run.mode = "chat" => store # <<>>
  BY <1>1, RunningFacts
<1>3. PhaseInv /\ CostInv /\ Valid(context) /\ (damage = 0 => Valid(store))
  BY <1>1 DEF TurnInv, ContextInv, StoreInv, Ready
<1>4. /\ run' \in Run /\ run'.mode = run.mode /\ run'.pc = "top" /\ run'.asking = run.asking
      /\ run'.iterations = run.iterations /\ run'.llmCalls = run.llmCalls
      /\ run'.reserved = run.reserved /\ run'.executed = run.executed
      /\ run'.refused = run.refused
  <2>1. run.retries \in [Retries -> Nat]
    BY <1>2, RunFields
  <2>2. [run.retries EXCEPT ![kind] = run.retries[kind] + 1] \in [Retries -> Nat]
    BY <2>1
  <2>3. run' = [run EXCEPT !.pc = "top", !.retries = [run.retries EXCEPT ![kind] = run.retries[kind] + 1]]
    BY <1>1
  <2>. QED BY <1>2, <2>2, <2>3 DEF Run, Places
<1>5. PhaseInv'
  BY <1>1, <1>3, <1>4 DEF PhaseInv, IsIdle
<1>6. CostInv'
  BY <1>1, <1>3, <1>4 DEF CostInv
<1>7. /\ context' \in Seq(Messages(turn)) /\ Valid(context') /\ context' # <<>>
      /\ ~ trimmed => \E i \in DOMAIN context' : IsRequest(context'[i])
  <2>1. Note \in Messages(turn) /\ Note.role = "user"
    BY <1>2, NoteType
  <2>. QED BY <1>1, <1>2, <1>3, <2>1, UserAppended
<1>. QED BY <1>1, <1>2, <1>3, <1>4, <1>5, <1>6, <1>7, MoveStep

LEMMA CompressFacts ==
  ASSUME TurnInv, run.pc = "compress", run' = [run EXCEPT !.pc = "queued"],
         UNCHANGED <<turn, active>>
  PROVE  /\ PhaseInv' /\ CostInv' /\ run' \in Run /\ run'.mode = run.mode /\ run'.pc = "queued"
         /\ Valid(context) /\ (damage = 0 => Valid(store))
<1>1. PhaseInv /\ CostInv /\ Valid(context) /\ (damage = 0 => Valid(store)) /\ run \in Run
  BY DEF TurnInv, TypeInv, ContextInv, StoreInv, Ready
<1>2. /\ run' \in Run /\ run'.mode = run.mode /\ run'.pc = "queued" /\ run'.asking = run.asking
      /\ run'.iterations = run.iterations /\ run'.llmCalls = run.llmCalls
      /\ run'.reserved = run.reserved /\ run'.executed = run.executed
      /\ run'.refused = run.refused
  BY <1>1 DEF Run, Places
<1>3. PhaseInv'
  BY <1>1, <1>2 DEF PhaseInv, IsIdle
<1>4. CostInv'
  BY <1>1, <1>2 DEF CostInv
<1>. QED BY <1>1, <1>2, <1>3, <1>4

LEMMA CompressInMemoryStep ==
  ASSUME TurnInv, CompressInMemory
  PROVE  TurnInv'
<1>1. /\ run.pc = "compress" /\ run' = [run EXCEPT !.pc = "queued"] /\ trimmed' = TRUE
      /\ context' \in Compressions(context)
      /\ UNCHANGED <<store, turn, active, damage>>
  BY DEF CompressInMemory
<1>2. /\ turn \in Nat /\ turn # 0 /\ damage \in Nat
      /\ store \in Seq(Messages(turn)) /\ context \in Seq(Messages(turn)) /\ context # <<>>
      /\ run \in Run /\ SingleAnswers(store)
      /\ \A i \in DOMAIN store : Plain(store[i]) => store[i].turn # turn
      /\ damage = 0 /\ run.mode = "chat" => store # <<>>
  BY <1>1, RunningFacts
<1>3. /\ PhaseInv' /\ CostInv' /\ run' \in Run /\ run'.mode = run.mode /\ run'.pc = "queued"
      /\ Valid(context) /\ (damage = 0 => Valid(store))
  BY <1>1, CompressFacts
<1>4. context[1].role = "user"
  BY <1>2, <1>3, ValidIsAnswered
<1>5. context' \in Seq(Messages(turn)) /\ Valid(context') /\ context' # <<>>
  BY <1>1, <1>2, <1>4, CompressionsAreSound
<1>. QED BY <1>1, <1>2, <1>3, <1>5, MoveStep

LEMMA CompressStoredStep ==
  ASSUME TurnInv, CompressStored
  PROVE  TurnInv'
<1>1. /\ run.pc = "compress" /\ run.mode = "chat" /\ run' = [run EXCEPT !.pc = "queued"]
      /\ store' \in Compressions(store) /\ context' = Restored(store')
      /\ UNCHANGED <<turn, active, damage, trimmed>>
  BY DEF CompressStored
<1> DEFINE M == Messages(turn)
<1>2. /\ turn \in Nat /\ turn # 0 /\ damage \in Nat /\ trimmed \in BOOLEAN
      /\ store \in Seq(M) /\ SingleAnswers(store)
      /\ \A i \in DOMAIN store : Plain(store[i]) => store[i].turn # turn
      /\ damage = 0 => store # <<>>
  BY <1>1, RunningFacts
<1>3. /\ PhaseInv' /\ CostInv' /\ run' \in Run /\ run'.mode = run.mode /\ run'.pc = "queued"
      /\ (damage = 0 => Valid(store))
  BY <1>1, CompressFacts
<1>4. damage = 0 => store # <<>> /\ store[1].role = "user"
  BY <1>2, <1>3, ValidIsAnswered
<1>5. /\ store' \in Seq(M) /\ Valid(store') /\ Keeps(store', store)
      /\ damage = 0 => store' # <<>>
  BY <1>1, <1>2, <1>4, CompressionsAreSound
<1>6. \A i \in DOMAIN store' : Plain(store'[i]) => store'[i].turn # turn
  <2> SUFFICES ASSUME NEW i \in DOMAIN store', Plain(store'[i]) PROVE store'[i].turn # turn
    OBVIOUS
  <2>1. store'[i].turn # 0
    <3>1. store'[i] \in M
      BY <1>5, LenProperties, ElementOfSeq
    <3>. QED BY <3>1 DEF Messages, Plain
  <2>. QED BY <1>2, <1>5, <2>1 DEF Keeps
<1>7. /\ context' \in Seq(M) /\ Valid(context') /\ context' # <<>>
      /\ \E i \in DOMAIN context' : IsRequest(context'[i])
  <2> DEFINE request == Message("user", <<>>, turn)
  <2>1. CASE \E i \in DOMAIN store' : IsRequest(store'[i])
    <3>1. context' = store'
      BY <1>1, <2>1 DEF Restored
    <3>. QED BY <1>5, <2>1, <3>1
  <2>2. CASE ~ \E i \in DOMAIN store' : IsRequest(store'[i])
    <3>1. context' = Append(store', request)
      BY <1>1, <2>2 DEF Restored
    <3>2. request \in M /\ request.role = "user" /\ IsRequest(request)
      BY <1>2, EmptySeq DEF Message, Messages, IsRequest
    <3> HIDE DEF request
    <3>. QED BY <1>2, <1>5, <3>1, <3>2, UserAppended
  <2>. QED BY <2>1, <2>2
<1>. QED BY <1>1, <1>2, <1>3, <1>5, <1>6, <1>7, MoveStep DEF Keeps

-----------------------------------------------------------------------------
\* Calls and results of a batch.
LEMMA BatchType ==
  ASSUME NEW ids \in Batches
  PROVE  /\ Len(ids) \in CallIds /\ ids = [k \in 1..Len(ids) |-> k] /\ ids \in Seq(CallIds)
         /\ Len(ids) \in Nat /\ ToSet(ids) = 1..Len(ids) /\ DOMAIN ids = 1..Len(ids)
         /\ 1..Len(ids) \subseteq CallIds
<1>1. PICK n \in CallIds : ids = [k \in 1..n |-> k]
  BY DEF Batches
<1>2. n \in Nat /\ 1..n \subseteq CallIds
  BY TurnAssumption DEF CallIds
<1>3. ids \in Seq(CallIds) /\ Len(ids) = n
  BY <1>1, <1>2
<1>. QED BY <1>1, <1>2, <1>3 DEF ToSet

LEMMA BatchMessage ==
  ASSUME NEW ids \in Batches, turn \in Nat, turn # 0
  PROVE  LET b == Message("assistant", ids, turn)
         IN  b \in Messages(turn) /\ ~ Plain(b) /\ b.role = "assistant" /\ b.ids = ids /\ b.turn = turn
<1>1. /\ Len(ids) \in CallIds /\ ids = [k \in 1..Len(ids) |-> k] /\ ids \in Seq(CallIds)
      /\ Len(ids) \in Nat
  BY BatchType
<1>2. ids # <<>>
  BY <1>1, TurnAssumption DEF CallIds
<1>3. \A i, j \in DOMAIN ids : ids[i] = ids[j] => i = j
  BY <1>1
<1>. QED BY <1>1, <1>2, <1>3 DEF Message, Messages, Plain

LEMMA RestType ==
  ASSUME NEW t \in Nat, NEW n \in CallIds, NEW d \in 0..n
  PROVE  LET r == Rest(n, d, t)
         IN  /\ r \in Seq(Messages(t)) /\ Len(r) = n - d /\ DOMAIN r = 1..(n - d)
             /\ \A k \in 1..(n - d) : r[k] = Message("tool", <<d + k>>, t)
             /\ \A k \in DOMAIN r : ~ Plain(r[k]) /\ r[k].turn = t
             /\ n = d => r = <<>>
<1> DEFINE ids == [k \in 1..(n - d) |-> d + k]
           r == Results(ids, t)
<1>1. n \in Nat /\ d \in Nat /\ n - d \in Nat /\ 1..n \subseteq CallIds
  BY TurnAssumption DEF CallIds
<1>2. ids \in Seq(CallIds) /\ Len(ids) = n - d /\ \A k \in 1..(n - d) : ids[k] = d + k
  BY <1>1
<1>3. Rest(n, d, t) = r
  BY DEF Rest
<1> HIDE DEF ids
<1>4. /\ r \in Seq(Messages(t)) /\ Len(r) = n - d
      /\ \A k \in 1..(n - d) : r[k] = Message("tool", <<ids[k]>>, t)
      /\ \A k \in DOMAIN r : ~ Plain(r[k])
  BY <1>2, ResultsAreSound
<1> HIDE DEF r
<1>5. DOMAIN r = 1..(n - d)
  BY <1>1, <1>4, LenProperties
<1>6. \A k \in DOMAIN r : r[k].turn = t
  BY <1>4, <1>5 DEF Message
<1>7. n = d => r = <<>>
  BY <1>1, <1>4, EmptySeq
<1>. QED BY <1>2, <1>3, <1>4, <1>5, <1>6, <1>7

\* The next result, and then the others.
LEMMA RestSplit ==
  ASSUME NEW t \in Nat, NEW n \in CallIds, NEW d \in 0..(n - 1)
  PROVE  /\ Results(<<d + 1>>, t) \in Seq(Messages(t))
         /\ \A k \in DOMAIN Results(<<d + 1>>, t) :
              ~ Plain(Results(<<d + 1>>, t)[k]) /\ Results(<<d + 1>>, t)[k].turn = t
         /\ Rest(n, d, t) = Results(<<d + 1>>, t) \o Rest(n, d + 1, t)
<1> DEFINE a == Results(<<d + 1>>, t)
           b == Rest(n, d + 1, t)
           r == Rest(n, d, t)
<1>1. /\ n \in Nat /\ d \in Nat /\ n - d \in Nat /\ n - (d + 1) \in Nat /\ d + 1 \in CallIds
      /\ d + 1 \in 0..n /\ d \in 0..n
  BY TurnAssumption DEF CallIds
<1>2. <<d + 1>> \in Seq(CallIds) /\ Len(<<d + 1>>) = 1 /\ <<d + 1>>[1] = d + 1
  BY <1>1
<1>3. /\ a \in Seq(Messages(t)) /\ Len(a) = 1
      /\ a[1] = Message("tool", <<d + 1>>, t)
      /\ \A k \in DOMAIN a : ~ Plain(a[k])
  <2>1. /\ a \in Seq(Messages(t)) /\ Len(a) = Len(<<d + 1>>)
        /\ \A k \in 1..Len(<<d + 1>>) : a[k] = Message("tool", <<<<d + 1>>[k]>>, t)
        /\ \A k \in DOMAIN a : ~ Plain(a[k])
    BY <1>2, ResultsAreSound
  <2>. QED BY <1>2, <2>1
<1>4. /\ b \in Seq(Messages(t)) /\ Len(b) = n - (d + 1)
      /\ \A k \in 1..(n - (d + 1)) : b[k] = Message("tool", <<(d + 1) + k>>, t)
  BY <1>1, RestType
<1>5. /\ r \in Seq(Messages(t)) /\ Len(r) = n - d
      /\ \A k \in 1..(n - d) : r[k] = Message("tool", <<d + k>>, t)
  BY <1>1, RestType
<1> HIDE DEF a, b, r
<1>6. DOMAIN a = 1..1 /\ DOMAIN b = 1..(n - (d + 1)) /\ DOMAIN r = 1..(n - d)
  BY <1>1, <1>3, <1>4, <1>5, LenProperties
<1>7. \A k \in DOMAIN a : a[k].turn = t
  BY <1>3, <1>6 DEF Message
<1>8. r = a \o b
  <2>1. /\ a \o b \in Seq(Messages(t)) /\ DOMAIN (a \o b) = 1..(1 + (n - (d + 1)))
        /\ (a \o b)[1] = a[1]
        /\ \A h \in DOMAIN b : (a \o b)[1 + h] = b[h]
    <3>1. /\ a \o b \in Seq(Messages(t)) /\ DOMAIN (a \o b) = 1..Len(a) + Len(b)
          /\ \A i \in DOMAIN a : (a \o b)[i] = a[i]
          /\ \A h \in DOMAIN b : (a \o b)[Len(a) + h] = b[h]
      <4>1. a \in Seq(Messages(t)) /\ b \in Seq(Messages(t))
        BY <1>3, <1>4
      <4>. QED BY ONLY <4>1, ConcatParts
    <3>2. 1 \in DOMAIN a
      BY <1>6
    <3>. QED BY <1>3, <1>4, <3>1, <3>2
  <2>2. \A k \in 1..(n - d) : (a \o b)[k] = r[k]
    <3> SUFFICES ASSUME NEW k \in 1..(n - d) PROVE (a \o b)[k] = r[k]
      OBVIOUS
    <3>1. CASE k = 1
      BY <1>1, <1>3, <1>5, <2>1, <3>1
    <3>2. CASE k # 1
      <4>1. k - 1 \in DOMAIN b /\ 1 + (k - 1) = k /\ (d + 1) + (k - 1) = d + k
        BY <1>1, <1>6, <3>2
      <4>2. (a \o b)[k] = b[k - 1]
        BY <2>1, <4>1
      <4>3. b[k - 1] = Message("tool", <<d + k>>, t)
        BY <1>4, <1>6, <4>1
      <4>. QED BY <1>5, <4>2, <4>3
    <3>. QED BY <3>1, <3>2
  <2>3. 1 + (n - (d + 1)) = n - d
    BY <1>1
  <2>4. Len(a \o b) = n - d
    BY <1>1, <2>1, <2>3, LenProperties
  <2>. QED BY <1>1, <1>5, <1>6, <2>1, <2>2, <2>3, <2>4, SeqEqual
<1>. QED BY <1>3, <1>7, <1>8 DEF a, b, r

\* Rows of the current run, none of them an answer, are written.
LEMMA RowsPersisted ==
  ASSUME TurnInv, run.pc # "idle", NEW rows \in Seq(Messages(turn)),
         \A k \in DOMAIN rows : ~ Plain(rows[k]) /\ rows[k].turn = turn,
         Persist(rows)
  PROVE  /\ store' \in Seq(Messages(turn)) /\ damage' \in Nat /\ SingleAnswers(store')
         /\ \A i \in DOMAIN store' : Plain(store'[i]) => store'[i].turn # turn
         /\ run.mode = "workflow" => store' = store /\ damage' = damage
         /\ damage' = 0 /\ run.mode = "chat" => store' = store \o rows
         /\ damage' = 0 => damage = 0
         /\ damage' = 0 /\ run.mode = "chat" => store' # <<>>
<1> DEFINE M == Messages(turn)
<1>1. /\ turn \in Nat /\ turn # 0 /\ damage \in Nat /\ store \in Seq(M)
      /\ run.mode \in {"chat", "workflow"} /\ SingleAnswers(store)
      /\ \A i \in DOMAIN store : Plain(store[i]) => store[i].turn # turn
      /\ damage = 0 /\ run.mode = "chat" => store # <<>>
  BY RunningFacts
<1>2. SingleAnswers(rows)
  BY DEF SingleAnswers
<1>3. \A i \in DOMAIN store : \A j \in DOMAIN rows : Plain(store[i]) => rows[j].turn # store[i].turn
  BY <1>1
<1>4. /\ store' \in Seq(Messages(turn)) /\ damage' \in Nat /\ SingleAnswers(store')
      /\ run.mode = "workflow" => store' = store /\ damage' = damage
      /\ damage' = 0 /\ run.mode # "workflow" => store' = store \o rows
      /\ damage' = 0 => damage = 0
      /\ \A k \in DOMAIN store' :
           \/ store'[k].turn = 0
           \/ \E q \in DOMAIN store : store'[k] = store[q]
           \/ \E q \in DOMAIN rows : store'[k] = rows[q]
  BY <1>1, <1>2, <1>3, PersistIsSound
<1>5. \A i \in DOMAIN store' : Plain(store'[i]) => store'[i].turn # turn
  BY <1>1, <1>4
<1>6. damage' = 0 /\ run.mode = "chat" => store' # <<>>
  BY <1>1, <1>4, ConcatEqualIffEmpty
<1>. QED BY <1>1, <1>4, <1>5, <1>6

LEMMA RequestKept ==
  ASSUME NEW a \in Seq(Messages(turn)), NEW b \in Seq(Messages(turn)),
         \E i \in DOMAIN a : IsRequest(a[i])
  PROVE  \E i \in DOMAIN (a \o b) : IsRequest((a \o b)[i])
<1>1. PICK i \in DOMAIN a : IsRequest(a[i])
  OBVIOUS
<1>2. i \in DOMAIN (a \o b) /\ (a \o b)[i] = a[i]
  <2>1. /\ DOMAIN (a \o b) = 1..Len(a) + Len(b) /\ DOMAIN a = 1..Len(a)
        /\ Len(a) \in Nat /\ Len(b) \in Nat
        /\ \A j \in DOMAIN a : (a \o b)[j] = a[j]
    BY ONLY a \in Seq(Messages(turn)), b \in Seq(Messages(turn)), ConcatParts
  <2>. QED BY <2>1
<1>. QED BY <1>1, <1>2

\* A step of a run into a batch or inside of it.
LEMMA BatchStep ==
  ASSUME TurnInv, UNCHANGED <<turn, active, trimmed>>, run' \in Run, run'.mode = run.mode,
         run.pc # "idle", run'.pc = "tools", damage' \in Nat,
         store' \in Seq(Messages(turn)), context' \in Seq(Messages(turn)), context' # <<>>,
         ~ trimmed' => \E i \in DOMAIN context' : IsRequest(context'[i]),
         SingleAnswers(store'),
         \A i \in DOMAIN store' : Plain(store'[i]) => store'[i].turn # turn,
         damage' = 0 /\ run.mode = "chat" => store' # <<>>,
         damage' = 0 /\ run.mode # "chat" => store' = store /\ damage = 0,
         BatchInv', PhaseInv', CostInv'
  PROVE  TurnInv'
<1>1. TypeInv'
  BY DEF TurnInv, TypeInv
<1>3. ContextInv'
  BY DEF ContextInv, IsRequest, IsIdle, Ready
<1>4. StoreInv'
  BY DEF TurnInv, StoreInv
<1>5. AnswerInv'
  BY DEF AnswerInv
<1>. QED BY <1>1, <1>3, <1>4, <1>5 DEF TurnInv

LEMMA BatchRows ==
  ASSUME NEW ids \in Batches, turn \in Nat, turn # 0
  PROVE  LET b == Message("assistant", ids, turn)
             block == <<b>> \o Results(ids, turn)
         IN  /\ Results(ids, turn) = Rest(Len(ids), 0, turn)
             /\ Results(ids, turn) \in Seq(Messages(turn))
             /\ <<b>> \in Seq(Messages(turn)) /\ block \in Seq(Messages(turn)) /\ Answered(block)
             /\ \A k \in DOMAIN <<b>> : ~ Plain(<<b>>[k]) /\ <<b>>[k].turn = turn
             /\ \A k \in DOMAIN block : ~ Plain(block[k]) /\ block[k].turn = turn
<1> DEFINE b == Message("assistant", ids, turn)
           r == Results(ids, turn)
           block == <<b>> \o r
           n == Len(ids)
<1>1. b \in Messages(turn) /\ ~ Plain(b) /\ b.role = "assistant" /\ b.ids = ids /\ b.turn = turn
  BY BatchMessage
<1>2. n \in CallIds /\ ids = [k \in 1..n |-> k] /\ ids \in Seq(CallIds) /\ n \in Nat
  BY BatchType
<1>3. r = Rest(n, 0, turn)
  <2>1. [k \in 1..(n - 0) |-> 0 + k] = ids
    BY <1>2
  <2>. QED BY <2>1 DEF Rest
<1>4. /\ r \in Seq(Messages(turn)) /\ Len(r) = n /\ DOMAIN r = 1..n
      /\ \A k \in 1..n : r[k] = Message("tool", <<k>>, turn)
      /\ \A k \in DOMAIN r : ~ Plain(r[k]) /\ r[k].turn = turn
  <2>1. 0 \in 0..n /\ n - 0 = n /\ \A k \in 1..n : 0 + k = k
    BY <1>2
  <2> DEFINE q == Rest(n, 0, turn)
  <2>2. /\ q \in Seq(Messages(turn)) /\ Len(q) = n - 0 /\ DOMAIN q = 1..(n - 0)
        /\ \A k \in 1..(n - 0) : q[k] = Message("tool", <<0 + k>>, turn)
        /\ \A k \in DOMAIN q : ~ Plain(q[k]) /\ q[k].turn = turn
    <3>1. turn \in Nat /\ n \in CallIds /\ 0 \in 0..n
      BY <1>2, <2>1
    <3> HIDE DEF n
    <3>. QED BY ONLY <3>1, RestType
  <2>3. r = q
    BY <1>3
  <2> HIDE DEF q, r
  <2>4. q \in Seq(Messages(turn)) /\ Len(q) = n /\ DOMAIN q = 1..n
        /\ \A k \in DOMAIN q : ~ Plain(q[k]) /\ q[k].turn = turn
    BY <2>1, <2>2
  <2>5. \A k \in 1..n : q[k] = Message("tool", <<k>>, turn)
    BY <2>1, <2>2
  <2>. QED BY <2>3, <2>4, <2>5
<1>5. \A k \in 1..n : r[k].role = "tool" /\ r[k].ids = <<b.ids[k]>>
  BY <1>1, <1>2, <1>4 DEF Message
<1>6. <<b>> \in Seq(Messages(turn)) /\ DOMAIN <<b>> = {1} /\ <<b>>[1] = b /\ Len(<<b>>) = 1
  BY <1>1
<1>7. \A k \in DOMAIN <<b>> : ~ Plain(<<b>>[k]) /\ <<b>>[k].turn = turn
  BY <1>1, <1>6
<1> HIDE DEF b, r
<1>8. block \in Seq(Messages(turn)) /\ Answered(block)
  BY <1>1, <1>4, <1>5, AnsweredBatch
<1>9. \A k \in DOMAIN block : ~ Plain(block[k]) /\ block[k].turn = turn
  <2>1. /\ \A i \in DOMAIN <<b>> : block[i] = <<b>>[i]
        /\ \A h \in DOMAIN r : block[Len(<<b>>) + h] = r[h]
        /\ \A i \in DOMAIN block : i \in DOMAIN <<b>> \/ \E h \in DOMAIN r : i = Len(<<b>>) + h
    <3> DEFINE one == <<b>>
    <3>1. one \in Seq(Messages(turn)) /\ r \in Seq(Messages(turn))
      BY <1>4, <1>6
    <3>2. block = one \o r
      OBVIOUS
    <3> HIDE DEF one, block
    <3>3. /\ \A i \in DOMAIN one : (one \o r)[i] = one[i]
          /\ \A h \in DOMAIN r : (one \o r)[Len(one) + h] = r[h]
          /\ \A i \in DOMAIN (one \o r) : i \in DOMAIN one \/ \E h \in DOMAIN r : i = Len(one) + h
      BY ONLY <3>1, ConcatParts
    <3>. QED BY <3>2, <3>3 DEF one
  <2> SUFFICES ASSUME NEW k \in DOMAIN block PROVE ~ Plain(block[k]) /\ block[k].turn = turn
    OBVIOUS
  <2>2. CASE k \in DOMAIN <<b>>
    BY <1>7, <2>1, <2>2
  <2>3. CASE \E h \in DOMAIN r : k = Len(<<b>>) + h
    <3>1. PICK h \in DOMAIN r : k = Len(<<b>>) + h
      BY <2>3
    <3>2. block[k] = r[h]
      BY <2>1, <3>1
    <3>. QED BY <1>4, <3>2
  <2>. QED BY <2>1, <2>2, <2>3
<1>. QED BY <1>3, <1>4, <1>6, <1>7, <1>8, <1>9 DEF b, r

LEMMA MixedCallsStep ==
  ASSUME TurnInv, NEW ids \in Batches, ModelCallsTools(ids, "mixed")
  PROVE  TurnInv'
<1> DEFINE M == Messages(turn)
           b == Message("assistant", ids, turn)
           r == Results(ids, turn)
           block == <<b>> \o r
<1>1. /\ run.pc = "calling" /\ Admitted(Len(ids))
      /\ context' = ((context \o <<b>>) \o r) \o <<Note>>
      /\ Persist(block)
      /\ run' = [run EXCEPT !.pc = "top", !.reserved = run.reserved + Len(ids)]
      /\ UNCHANGED <<turn, active, trimmed>>
  BY DEF ModelCallsTools
<1>2. /\ turn \in Nat /\ turn # 0 /\ damage \in Nat /\ trimmed \in BOOLEAN
      /\ store \in Seq(M) /\ context \in Seq(M) /\ context # <<>>
      /\ run \in Run /\ run.mode \in {"chat", "workflow"}
      /\ ~ trimmed => \E i \in DOMAIN context : IsRequest(context[i])
  BY <1>1, RunningFacts
<1>3. PhaseInv /\ CostInv /\ Valid(context) /\ (damage = 0 => Valid(store))
  BY <1>1 DEF TurnInv, ContextInv, StoreInv, Ready
<1>4. /\ r \in Seq(M) /\ <<b>> \in Seq(M) /\ block \in Seq(M) /\ Answered(block)
      /\ \A k \in DOMAIN block : ~ Plain(block[k]) /\ block[k].turn = turn
  BY <1>2, BatchRows
<1>len. Len(ids) \in Nat /\ Len(ids) \in CallIds
  BY BatchType
<1> HIDE DEF b, r
<1>5. /\ store' \in Seq(M) /\ damage' \in Nat /\ SingleAnswers(store')
      /\ \A i \in DOMAIN store' : Plain(store'[i]) => store'[i].turn # turn
      /\ run.mode = "workflow" => store' = store /\ damage' = damage
      /\ damage' = 0 /\ run.mode = "chat" => store' = store \o block
      /\ damage' = 0 => damage = 0
      /\ damage' = 0 /\ run.mode = "chat" => store' # <<>>
  BY <1>1, <1>4, RowsPersisted
<1>6. damage' = 0 /\ run.mode = "chat" => Valid(store')
  <2>1. damage = 0 /\ run.mode = "chat" => store # <<>>
    BY <1>1, RunningFacts
  <2>. QED BY <1>2, <1>3, <1>4, <1>5, <2>1, ValidConcat
<1>7. /\ context' \in Seq(M) /\ Valid(context') /\ context' # <<>>
      /\ ~ trimmed => \E i \in DOMAIN context' : IsRequest(context'[i])
  <2>1. (context \o <<b>>) \o r = context \o block
    BY <1>2, <1>4, ConcatAssociative
  <2> DEFINE c == context \o block
  <2>2. Valid(c) /\ c # <<>> /\ c \in Seq(M)
    BY <1>2, <1>3, <1>4, ValidConcat
  <2>3. ~ trimmed => \E i \in DOMAIN c : IsRequest(c[i])
    BY <1>2, <1>4, RequestKept
  <2>4. context' = c \o <<Note>>
    BY <1>1, <2>1
  <2> HIDE DEF c
  <2>5. <<Note>> \in Seq(M) /\ Answered(<<Note>>)
    BY <1>2, NoteType
  <2>6. Valid(context') /\ context' # <<>> /\ context' \in Seq(M)
    BY <1>2, <2>2, <2>4, <2>5, ValidConcat
  <2>7. ~ trimmed => \E i \in DOMAIN context' : IsRequest(context'[i])
    BY <2>2, <2>3, <2>4, <2>5, RequestKept
  <2>. QED BY <2>6, <2>7
<1>nat. /\ run.reserved \in Nat /\ run.executed \in Nat /\ MaxToolCalls \in Nat
        /\ run.iterations \in Nat /\ run.llmCalls \in Nat /\ MaxIterations \in Nat
  BY <1>2, RunFields, TurnAssumption
<1>8. /\ run' \in Run /\ run'.mode = run.mode /\ run'.pc = "top" /\ run'.asking = run.asking
      /\ run'.iterations = run.iterations /\ run'.llmCalls = run.llmCalls
      /\ run'.reserved = run.reserved + Len(ids) /\ run'.executed = run.executed
      /\ run'.refused = run.refused
  <2>1. run.reserved + Len(ids) \in Nat
    BY <1>len, <1>nat
  <2>. QED BY <1>1, <1>2, <2>1 DEF Run, Places
<1>9. PhaseInv'
  BY <1>1, <1>3, <1>8 DEF PhaseInv, IsIdle
<1>10. CostInv'
  BY <1>1, <1>3, <1>8, <1>len, <1>nat DEF CostInv, Admitted
<1>. QED BY <1>1, <1>2, <1>5, <1>6, <1>7, <1>8, <1>9, <1>10, MoveStep

LEMMA CallsStep ==
  ASSUME ~ FillPlanBatched, TurnInv, NEW ids \in Batches, NEW kind \in BatchKinds(ids), kind # "mixed",
         ModelCallsTools(ids, kind)
  PROVE  TurnInv'
<1> DEFINE M == Messages(turn)
           b == Message("assistant", ids, turn)
           r == Results(ids, turn)
           one == <<b>>
           block == one \o r
           n == Len(ids)
<1>1. /\ run.pc = "calling" /\ Admitted(n)
      /\ context' = Append(context, b) /\ Persist(one)
      /\ run' = [run EXCEPT !.pc = "tools", !.reserved = run.reserved + n,
                            !.batch = ids, !.todo = ToSet(ids), !.kind = kind]
      /\ UNCHANGED <<turn, active, trimmed>>
  BY DEF ModelCallsTools
<1>2. /\ turn \in Nat /\ turn # 0 /\ damage \in Nat /\ trimmed \in BOOLEAN
      /\ store \in Seq(M) /\ context \in Seq(M) /\ context # <<>>
      /\ run \in Run /\ run.mode \in {"chat", "workflow"}
      /\ ~ trimmed => \E i \in DOMAIN context : IsRequest(context[i])
      /\ damage = 0 /\ run.mode = "chat" => store # <<>>
  BY <1>1, RunningFacts
<1>3. PhaseInv /\ CostInv /\ Valid(context) /\ (damage = 0 => Valid(store))
  BY <1>1 DEF TurnInv, ContextInv, StoreInv, Ready
<1>4. /\ r = Rest(n, 0, turn) /\ r \in Seq(M) /\ one \in Seq(M) /\ block \in Seq(M)
      /\ Answered(block) /\ \A k \in DOMAIN one : ~ Plain(one[k]) /\ one[k].turn = turn
  BY <1>2, BatchRows
<1>5. b \in M
  BY <1>2, BatchMessage
<1>len. n \in Nat /\ n \in CallIds /\ ToSet(ids) = 1..n /\ 1..n \subseteq CallIds /\ n # 0
  BY BatchType, TurnAssumption DEF CallIds
<1>6. /\ kind \in {"parallel", "serial", "terminal", "fill"}
      /\ kind \in {"terminal", "fill"} => n = 1
  BY DEF BatchKinds
<1>7. context' = context \o one
  <2>1. context \in Seq(M) /\ b \in M
    BY <1>2, <1>5
  <2> HIDE DEF b
  <2>2. Append(context, b) = context \o <<b>>
    BY ONLY <2>1, AppendIsConcat
  <2>. QED BY <1>1, <2>2
<1> HIDE DEF b, r, one
<1>8. /\ store' \in Seq(M) /\ damage' \in Nat /\ SingleAnswers(store')
      /\ \A i \in DOMAIN store' : Plain(store'[i]) => store'[i].turn # turn
      /\ run.mode = "workflow" => store' = store /\ damage' = damage
      /\ damage' = 0 /\ run.mode = "chat" => store' = store \o one
      /\ damage' = 0 => damage = 0
      /\ damage' = 0 /\ run.mode = "chat" => store' # <<>>
  BY <1>1, <1>4, RowsPersisted
<1>9. damage' = 0 /\ run.mode = "chat" => Valid(store' \o r)
  <2>1. Valid(store) /\ store # <<>> => Valid(store \o block)
    BY <1>2, <1>4, ValidConcat
  <2>2. store \o block = (store \o one) \o r
    <3>1. store \in Seq(M) /\ one \in Seq(M) /\ r \in Seq(M)
      BY <1>2, <1>4
    <3>. QED BY ONLY <3>1, ConcatAssociative
  <2>. QED BY <1>2, <1>3, <1>8, <2>1, <2>2
<1>10. /\ context' \in Seq(M) /\ context' # <<>> /\ Valid(context' \o r)
       /\ ~ trimmed => \E i \in DOMAIN context' : IsRequest(context'[i])
  <2>1. Valid(context \o block)
    BY <1>2, <1>3, <1>4, ValidConcat
  <2>2. context \o block = (context \o one) \o r
    <3>1. context \in Seq(M) /\ one \in Seq(M) /\ r \in Seq(M)
      BY <1>2, <1>4
    <3>. QED BY ONLY <3>1, ConcatAssociative
  <2>3. context \o one \in Seq(M) /\ context \o one # <<>>
    BY <1>2, <1>4, ConcatProperties, ConcatEqualIffEmpty
  <2>4. ~ trimmed => \E i \in DOMAIN (context \o one) : IsRequest((context \o one)[i])
    BY <1>2, <1>4, RequestKept
  <2>. QED BY <1>7, <2>1, <2>2, <2>3, <2>4
<1>nat. /\ run.reserved \in Nat /\ run.executed \in Nat /\ MaxToolCalls \in Nat
        /\ run.iterations \in Nat /\ run.llmCalls \in Nat /\ MaxIterations \in Nat
  BY <1>2, RunFields, TurnAssumption
<1>11. /\ run' \in Run /\ run'.mode = run.mode /\ run'.pc = "tools" /\ run'.asking = run.asking
       /\ run'.iterations = run.iterations /\ run'.llmCalls = run.llmCalls
       /\ run'.reserved = run.reserved + n /\ run'.executed = run.executed
       /\ run'.refused = run.refused /\ run'.batch = ids /\ run'.todo = 1..n /\ run'.kind = kind
  <2>1. run.reserved + n \in Nat
    BY <1>len, <1>nat
  <2>. QED BY <1>1, <1>2, <1>6, <1>len, <2>1 DEF Run, Places, Kinds
<1>12. PhaseInv'
  BY <1>1, <1>3, <1>11 DEF PhaseInv, IsIdle
<1>13. CostInv'
  <2>1. Cardinality(1..n) = n
    BY <1>len, FS_Interval
  <2>. QED BY <1>1, <1>3, <1>11, <1>len, <1>nat, <2>1 DEF CostInv, Admitted
<1>14. BatchInv'
  <2>1. /\ run'.todo # {} /\ run'.todo \subseteq 1..Len(run'.batch)
        /\ run'.asking = NoCall
    BY <1>1, <1>3, <1>11, <1>len DEF PhaseInv
  <2>2. /\ 0 \in 0..(Len(run'.batch) - 1)
        /\ run'.kind # "parallel" => run'.todo = (0 + 1)..Len(run'.batch)
    BY <1>11, <1>len
  <2>3. Rest(Len(run'.batch), 0, turn') = r
    BY <1>1, <1>4, <1>11
  <2>4. Owed(0)' = r
    BY <2>3 DEF Owed
  <2>5. /\ Valid(context \o Owed(0))'
        /\ (damage = 0 /\ run.mode = "chat" => Valid(store \o Owed(0)))'
    BY <1>9, <1>10, <1>11, <2>4
  <2>6. run'.batch \in Batches /\ run'.kind \in {"parallel", "serial", "terminal", "fill"}
        /\ (run'.kind \in {"terminal", "fill"} => Len(run'.batch) = 1)
    BY <1>6, <1>11
  <2>. QED BY <2>1, <2>2, <2>5, <2>6 DEF BatchInv
<1>. QED BY <1>1, <1>2, <1>8, <1>10, <1>11, <1>12, <1>13, <1>14, BatchStep

\* What a batch under way looks like.
LEMMA BatchFacts ==
  ASSUME TurnInv, run.pc = "tools"
  PROVE  LET n == Len(run.batch)
         IN  /\ n \in CallIds /\ n \in Nat /\ n # 0 /\ run.batch = [k \in 1..n |-> k]
             /\ run.batch \in Batches
             /\ run.kind \in {"parallel", "serial", "terminal", "fill"}
             /\ run.kind \in {"terminal", "fill"} => n = 1
             /\ run.todo # {} /\ run.todo \subseteq 1..n
             /\ run.asking \in Startable \cup {NoCall}
             /\ \E d \in 0..(n - 1) :
                  /\ IF run.kind = "parallel" THEN d = 0 ELSE run.todo = (d + 1)..n
                  /\ Startable = IF run.kind = "parallel" THEN run.todo ELSE {d + 1}
                  /\ Valid(context \o Rest(n, d, turn))
                  /\ damage = 0 /\ run.mode = "chat" => Valid(store \o Rest(n, d, turn))
<1> DEFINE n == Len(run.batch)
<1>1. /\ run.batch \in Batches /\ run.kind \in {"parallel", "serial", "terminal", "fill"}
      /\ run.todo # {} /\ run.todo \subseteq 1..n
      /\ run.kind \in {"terminal", "fill"} => n = 1
      /\ run.asking \in Startable \cup {NoCall}
      /\ \E d \in 0..(n - 1) :
           /\ IF run.kind = "parallel" THEN d = 0 ELSE run.todo = (d + 1)..n
           /\ Valid(context \o Owed(d))
           /\ damage = 0 /\ run.mode = "chat" => Valid(store \o Owed(d))
  BY DEF TurnInv, BatchInv
<1>2. n \in CallIds /\ n \in Nat /\ run.batch = [k \in 1..n |-> k]
  BY <1>1, BatchType
<1>3. n # 0
  BY <1>2, TurnAssumption DEF CallIds
<1>4. PICK d \in 0..(n - 1) :
        /\ IF run.kind = "parallel" THEN d = 0 ELSE run.todo = (d + 1)..n
        /\ Valid(context \o Owed(d))
        /\ damage = 0 /\ run.mode = "chat" => Valid(store \o Owed(d))
  BY <1>1
<1>5. Startable = IF run.kind = "parallel" THEN run.todo ELSE {d + 1}
  <2>1. CASE run.kind = "parallel"
    BY <2>1 DEF Startable
  <2>2. CASE run.kind # "parallel"
    <3> DEFINE first == {m \in DOMAIN run.batch : run.batch[m] \in run.todo
                           /\ \A l \in 1..(m - 1) : run.batch[l] \notin run.todo}
    <3>1. first = {d + 1}
      <4>1. run.todo = (d + 1)..n /\ d \in Nat /\ d + 1 \in 1..n
        BY <1>2, <1>3, <1>4, <2>2
      <4>2. DOMAIN run.batch = 1..n /\ \A k \in 1..n : run.batch[k] = k
        BY <1>2
      <4>3. d + 1 \in first
        <5>1. \A l \in 1..((d + 1) - 1) : run.batch[l] \notin run.todo
          BY <1>2, <4>1, <4>2
        <5>. QED BY <1>2, <4>1, <4>2, <5>1
      <4>4. ASSUME NEW m \in first PROVE m = d + 1
        <5>1. m \in 1..n /\ m \in run.todo
          BY <4>2
        <5>2. m > d + 1 => d + 1 \in 1..(m - 1)
          BY <1>2, <4>1, <5>1
        <5>3. d + 1 \in 1..(m - 1) => run.batch[d + 1] \notin run.todo
          OBVIOUS
        <5>4. run.batch[d + 1] \in run.todo
          BY <1>2, <4>1, <4>2
        <5>. QED BY <1>2, <4>1, <5>1, <5>2, <5>3, <5>4
      <4> HIDE DEF first
      <4>. QED BY <4>3, <4>4
    <3>2. Startable = {run.batch[m] : m \in first}
      BY <2>2 DEF Startable
    <3>3. run.batch[d + 1] = d + 1
      BY <1>2, <1>3, <1>4
    <3> HIDE DEF first
    <3>. QED BY <2>2, <3>1, <3>2, <3>3
  <2>. QED BY <2>1, <2>2
<1>. QED BY <1>1, <1>2, <1>3, <1>4, <1>5 DEF Owed

LEMMA AskUserStep ==
  ASSUME TurnInv, NEW id \in CallIds, AskUser(id)
  PROVE  TurnInv'
<1>1. /\ run.pc = "tools" /\ id \in Startable /\ run' = [run EXCEPT !.asking = id]
      /\ UNCHANGED <<store, context, turn, active, damage, trimmed>>
  BY DEF AskUser, MayStart
<1>2. /\ turn \in Nat /\ damage \in Nat /\ trimmed \in BOOLEAN
      /\ store \in Seq(Messages(turn)) /\ context \in Seq(Messages(turn)) /\ context # <<>>
      /\ run \in Run /\ run.mode \in {"chat", "workflow"} /\ SingleAnswers(store)
      /\ \A i \in DOMAIN store : Plain(store[i]) => store[i].turn # turn
      /\ ~ trimmed => \E i \in DOMAIN context : IsRequest(context[i])
      /\ damage = 0 /\ run.mode = "chat" => store # <<>>
  BY <1>1, RunningFacts
<1>3. PhaseInv /\ CostInv /\ BatchInv
  BY DEF TurnInv
<1>4. /\ run' \in Run /\ run'.mode = run.mode /\ run'.pc = "tools" /\ run'.asking = id
      /\ run'.iterations = run.iterations /\ run'.llmCalls = run.llmCalls
      /\ run'.reserved = run.reserved /\ run'.executed = run.executed
      /\ run'.refused = run.refused /\ run'.batch = run.batch /\ run'.todo = run.todo
      /\ run'.kind = run.kind
  BY <1>1, <1>2 DEF Run
<1>5. PhaseInv'
  BY <1>1, <1>3, <1>4 DEF PhaseInv, IsIdle
<1>6. CostInv'
  BY <1>1, <1>3, <1>4 DEF CostInv
<1>7. BatchInv'
  <2>1. Startable' = Startable
    BY <1>4 DEF Startable
  <2>2. \A d : Owed(d)' = Owed(d)
    BY <1>1, <1>4 DEF Owed
  <2>. QED BY <1>1, <1>3, <1>4, <2>1, <2>2 DEF BatchInv
<1>. QED BY <1>1, <1>2, <1>4, <1>5, <1>6, <1>7, BatchStep

\* The rows a finished call adds pay off what the batch owes.
LEMMA FinishedRows ==
  ASSUME TurnInv, run.pc = "tools", NEW id \in Startable
  PROVE  LET n == Len(run.batch)
             rest == run.todo \ {id}
             rows == IF run.kind # "parallel" THEN Results(<<id>>, turn)
                     ELSE IF rest = {} THEN Results(run.batch, turn) ELSE <<>>
         IN  /\ id \in run.todo
             /\ rows \in Seq(Messages(turn))
             /\ \A k \in DOMAIN rows : ~ Plain(rows[k]) /\ rows[k].turn = turn
             /\ run.asking \in rest \cup {id, NoCall}
             /\ run.kind # "parallel" => run.asking \in {id, NoCall}
             /\ \E d \in 0..n :
                  /\ IF rest = {} THEN d = n ELSE d < n
                  /\ rest # {} => IF run.kind = "parallel" THEN d = 0 ELSE rest = (d + 1)..n
                  /\ Valid(context \o (rows \o Rest(n, d, turn)))
                  /\ damage = 0 /\ run.mode = "chat" => Valid(store \o (rows \o Rest(n, d, turn)))
<1> DEFINE M == Messages(turn)
           n == Len(run.batch)
           rest == run.todo \ {id}
           rows == IF run.kind # "parallel" THEN Results(<<id>>, turn)
                   ELSE IF rest = {} THEN Results(run.batch, turn) ELSE <<>>
<1>1. /\ n \in CallIds /\ n \in Nat /\ n # 0 /\ run.batch \in Batches
      /\ run.asking \in Startable \cup {NoCall} /\ run.todo \subseteq 1..n
      /\ turn \in Nat /\ turn # 0
  BY BatchFacts, RunningFacts
<1>2. PICK d \in 0..(n - 1) :
        /\ IF run.kind = "parallel" THEN d = 0 ELSE run.todo = (d + 1)..n
        /\ Startable = IF run.kind = "parallel" THEN run.todo ELSE {d + 1}
        /\ Valid(context \o Rest(n, d, turn))
        /\ damage = 0 /\ run.mode = "chat" => Valid(store \o Rest(n, d, turn))
  BY BatchFacts
<1>3. /\ id \in run.todo /\ run.asking \in rest \cup {id, NoCall}
      /\ run.kind # "parallel" => run.asking \in {id, NoCall}
  BY <1>1, <1>2
<1>4. ASSUME NEW e \in 0..n, rows \in Seq(M),
             \A k \in DOMAIN rows : ~ Plain(rows[k]) /\ rows[k].turn = turn,
             IF rest = {} THEN e = n ELSE e < n,
             rest # {} => IF run.kind = "parallel" THEN e = 0 ELSE rest = (e + 1)..n,
             Rest(n, d, turn) = rows \o Rest(n, e, turn)
      PROVE  /\ rows \in Seq(M)
             /\ \A k \in DOMAIN rows : ~ Plain(rows[k]) /\ rows[k].turn = turn
             /\ \E x \in 0..n :
                  /\ IF rest = {} THEN x = n ELSE x < n
                  /\ rest # {} => IF run.kind = "parallel" THEN x = 0 ELSE rest = (x + 1)..n
                  /\ Valid(context \o (rows \o Rest(n, x, turn)))
                  /\ damage = 0 /\ run.mode = "chat" => Valid(store \o (rows \o Rest(n, x, turn)))
  <2> HIDE DEF rows, rest, n
  <2>. QED BY <1>2, <1>4
<1>5. CASE run.kind # "parallel"
  <2>1. id = d + 1 /\ d \in Nat /\ d + 1 \in 0..n /\ rest = ((d + 1) + 1)..n
        /\ (rest = {} => d + 1 = n) /\ (rest # {} => d + 1 < n)
    <3>1. Startable = {d + 1} /\ run.todo = (d + 1)..n
      BY <1>2, <1>5
    <3>2. id = d + 1 /\ d \in Nat /\ d + 1 \in 0..n
      BY <1>1, <3>1
    <3>3. rest = ((d + 1)..n) \ {d + 1}
      BY <3>1, <3>2
    <3> HIDE DEF n, rest
    <3>4. rest = ((d + 1) + 1)..n
      BY <1>1, <3>2, <3>3
    <3>. QED BY <1>1, <3>2, <3>4
  <2>2. rows = Results(<<d + 1>>, turn)
    BY <1>5, <2>1
  <2>3. /\ rows \in Seq(M) /\ \A k \in DOMAIN rows : ~ Plain(rows[k]) /\ rows[k].turn = turn
        /\ Rest(n, d, turn) = rows \o Rest(n, d + 1, turn)
    <3> DEFINE a == Results(<<d + 1>>, turn)
    <3>1. turn \in Nat /\ n \in CallIds /\ d \in 0..(n - 1)
      BY <1>1
    <3> HIDE DEF n
    <3>2. /\ a \in Seq(M) /\ \A k \in DOMAIN a : ~ Plain(a[k]) /\ a[k].turn = turn
          /\ Rest(n, d, turn) = a \o Rest(n, d + 1, turn)
      BY ONLY <3>1, RestSplit
    <3>3. rows = a
      BY <2>2
    <3> HIDE DEF a, rows
    <3>. QED BY <3>2, <3>3
  <2>4. rest = {} \/ rest # {}
    OBVIOUS
  <2> HIDE DEF rows, rest
  <2>. QED BY <1>3, <1>4, <1>5, <2>1, <2>3 DEF rows, rest
<1>6. CASE run.kind = "parallel" /\ rest = {}
  <2>1. rows = Results(run.batch, turn)
    BY <1>6
  <2> DEFINE a == Results(run.batch, turn)
  <2>2. a = Rest(n, 0, turn)
    BY <1>1, BatchRows
  <2>3. turn \in Nat /\ n \in CallIds /\ 0 \in 0..n /\ n \in 0..n /\ d = 0
    BY <1>1, <1>2, <1>6
  <2> HIDE DEF n
  <2>4. /\ Rest(n, 0, turn) \in Seq(M)
        /\ \A k \in DOMAIN Rest(n, 0, turn) : ~ Plain(Rest(n, 0, turn)[k]) /\ Rest(n, 0, turn)[k].turn = turn
    BY ONLY <2>3, RestType
  <2>5. Rest(n, n, turn) = <<>>
    BY ONLY <2>3, RestType
  <2>6. rows = Rest(n, 0, turn)
    BY <2>1, <2>2
  <2> HIDE DEF rows, a
  <2>7. /\ rows \in Seq(M) /\ \A k \in DOMAIN rows : ~ Plain(rows[k]) /\ rows[k].turn = turn
    BY <2>4, <2>6
  <2>8. Rest(n, d, turn) = rows \o Rest(n, n, turn)
    BY <2>3, <2>5, <2>6, <2>7, ConcatEmptySeq
  <2> HIDE DEF rest
  <2>. QED BY <1>3, <1>4, <1>6, <2>3, <2>7, <2>8 DEF rows, rest, n
<1>7. CASE run.kind = "parallel" /\ rest # {}
  <2>1. rows = <<>>
    BY <1>7
  <2>2. turn \in Nat /\ n \in CallIds /\ 0 \in 0..n /\ d = 0 /\ 0 < n
    BY <1>1, <1>2, <1>7
  <2>3. Rest(n, 0, turn) \in Seq(M)
    <3> HIDE DEF n
    <3>. QED BY ONLY <2>2, RestType
  <2>4. <<>> \in Seq(M) /\ DOMAIN <<>> = {}
    BY EmptySeq
  <2>5. /\ rows \in Seq(M) /\ \A k \in DOMAIN rows : ~ Plain(rows[k]) /\ rows[k].turn = turn
    BY <2>1, <2>4
  <2> HIDE DEF rows, n
  <2>6. Rest(n, d, turn) = rows \o Rest(n, 0, turn)
    BY <2>1, <2>2, <2>3, ConcatEmptySeq
  <2> HIDE DEF rest
  <2>. QED BY <1>3, <1>4, <1>7, <2>2, <2>5, <2>6 DEF rows, rest, n
<1>. QED BY <1>5, <1>6, <1>7

LEMMA TerminalStep ==
  ASSUME TurnInv, run.pc = "tools", NEW id \in Startable, NEW executions,
         run.kind = "terminal", Finished(id, TRUE, executions)
  PROVE  TurnInv'
<1> DEFINE M == Messages(turn)
           n == Len(run.batch)
           rest == run.todo \ {id}
           rows == Results(<<id>>, turn)
<1>1. /\ turn \in Nat /\ store \in Seq(M) /\ ~ IsIdle
  BY RunningFacts
<1>2. n = 1 /\ n \in CallIds /\ run.todo \subseteq 1..n
  BY BatchFacts
<1>3. /\ id \in run.todo /\ rows \in Seq(M)
      /\ \A k \in DOMAIN rows : ~ Plain(rows[k]) /\ rows[k].turn = turn
      /\ \E d \in 0..n :
           /\ IF rest = {} THEN d = n ELSE d < n
           /\ damage = 0 /\ run.mode = "chat" => Valid(store \o (rows \o Rest(n, d, turn)))
  BY FinishedRows
<1>4. rest = {}
  BY <1>2, <1>3
<1>5. damage = 0 /\ run.mode = "chat" => Valid(store \o (rows \o Rest(n, n, turn)))
  BY <1>3, <1>4
<1>6. Rest(n, n, turn) = <<>>
  <2>1. turn \in Nat /\ n \in CallIds /\ n \in 0..n
    BY <1>1, <1>2
  <2> HIDE DEF n
  <2>. QED BY ONLY <2>1, RestType
<1> HIDE DEF rows
<1>7. rows \o <<>> = rows
  BY <1>3, ConcatEmptySeq
<1>8. FinalizeTurn /\ Persist(Append(rows, Answer))
  BY DEF Finished, rows
<1>. QED BY <1>1, <1>3, <1>5, <1>6, <1>7, <1>8, SaveStep

LEMMA FinishedFacts ==
  ASSUME TurnInv, run.pc = "tools", NEW id \in Startable, NEW ok \in BOOLEAN,
         NEW executions \in {0, 1}, ~ (run.kind = "terminal" /\ ok), Finished(id, ok, executions)
  PROVE  LET rest == run.todo \ {id}
         IN  /\ UNCHANGED <<turn, active, trimmed>> /\ run' \in Run /\ run'.mode = run.mode
             /\ run'.pc = (IF rest = {} THEN "guards" ELSE "tools")
             /\ run'.asking \in rest \cup {NoCall}
             /\ run.kind # "parallel" => run'.asking = NoCall
             /\ run'.batch = run.batch /\ run'.todo = rest /\ run'.kind = run.kind
             /\ PhaseInv' /\ CostInv'
<1> DEFINE n == Len(run.batch)
           rest == run.todo \ {id}
<1>1. /\ run' = [run EXCEPT
                   !.todo = rest, !.executed = run.executed + executions,
                   !.pc = IF rest = {} THEN "guards" ELSE run.pc,
                   !.asking = IF run.asking = id THEN NoCall ELSE run.asking,
                   !.nudged = run.nudged \/ Nudge(ok) # <<>>,
                   !.terminalUsed = run.terminalUsed \/ run.kind = "terminal"]
      /\ UNCHANGED <<turn, active, trimmed>>
  BY DEF Finished
<1>2. /\ id \in run.todo /\ run.asking \in rest \cup {id, NoCall}
      /\ run.kind # "parallel" => run.asking \in {id, NoCall}
  BY FinishedRows
<1>3. run \in Run /\ PhaseInv /\ CostInv
  BY DEF TurnInv, TypeInv
<1>4. /\ run.reserved \in Nat /\ run.executed \in Nat /\ MaxToolCalls \in Nat
      /\ run.iterations \in Nat /\ run.llmCalls \in Nat /\ MaxIterations \in Nat
      /\ run.executed + executions \in Nat
  BY <1>3, RunFields, TurnAssumption
<1>5. rest \in SUBSET CallIds
  BY <1>3, RunFields
<1>6. /\ run' \in Run /\ run'.mode = run.mode
      /\ run'.pc = (IF rest = {} THEN "guards" ELSE "tools")
      /\ run'.asking = (IF run.asking = id THEN NoCall ELSE run.asking)
      /\ run'.batch = run.batch /\ run'.todo = rest /\ run'.kind = run.kind
      /\ run'.iterations = run.iterations /\ run'.llmCalls = run.llmCalls
      /\ run'.reserved = run.reserved /\ run'.executed = run.executed + executions
      /\ run'.refused = run.refused
  <2> DEFINE pc == IF rest = {} THEN "guards" ELSE run.pc
             asking == IF run.asking = id THEN NoCall ELSE run.asking
             nudged == run.nudged \/ Nudge(ok) # <<>>
             used == run.terminalUsed \/ run.kind = "terminal"
  <2>1. pc \in Places /\ asking \in CallIds \cup {NoCall} /\ nudged \in BOOLEAN /\ used \in BOOLEAN
    BY <1>3 DEF Run, Places
  <2>2. run' = [run EXCEPT !.todo = rest, !.executed = run.executed + executions, !.pc = pc,
                           !.asking = asking, !.nudged = nudged, !.terminalUsed = used]
    BY <1>1
  <2>3. pc = IF rest = {} THEN "guards" ELSE "tools"
    OBVIOUS
  <2> HIDE DEF pc, asking, nudged, used, rest
  <2>4. run' \in Run
    BY <1>3, <1>4, <1>5, <2>1, <2>2 DEF Run
  <2>5. /\ run'.mode = run.mode /\ run'.pc = pc /\ run'.asking = asking
        /\ run'.batch = run.batch /\ run'.todo = rest /\ run'.kind = run.kind
        /\ run'.iterations = run.iterations /\ run'.llmCalls = run.llmCalls
        /\ run'.reserved = run.reserved /\ run'.executed = run.executed + executions
        /\ run'.refused = run.refused
    BY <1>3, <2>2 DEF Run
  <2>. QED BY <2>3, <2>4, <2>5 DEF asking
<1>7. /\ run'.asking \in rest \cup {NoCall}
      /\ run.kind # "parallel" => run'.asking = NoCall
      /\ rest = {} => run'.asking = NoCall
  BY <1>2, <1>6
<1>8. PhaseInv'
  BY <1>1, <1>3, <1>6, <1>7 DEF PhaseInv, IsIdle
<1>9. CostInv'
  <2>1. /\ IsFiniteSet(run.todo) /\ Cardinality(run.todo) \in Nat
        /\ Cardinality(rest) = Cardinality(run.todo) - 1 /\ Cardinality(rest) \in Nat
    <3>1. n \in Nat /\ run.todo \subseteq 1..n
      BY BatchFacts
    <3>2. IsFiniteSet(1..n)
      BY <3>1, FS_Interval
    <3>3. IsFiniteSet(run.todo)
      BY <3>1, <3>2, FS_Subset
    <3>4. IsFiniteSet(rest) /\ Cardinality(rest) = Cardinality(run.todo) - 1
      BY <1>2, <3>3, FS_RemoveElement
    <3>. QED BY <3>3, <3>4, FS_CardinalityType
  <2>2. run.executed + Cardinality(run.todo) <= run.reserved /\ run.reserved <= MaxToolCalls
    BY <1>3 DEF CostInv
  <2> HIDE DEF rest
  <2>3. /\ run'.executed <= run'.reserved
        /\ run'.executed + Cardinality(run'.todo) <= run'.reserved
    BY <1>4, <1>6, <2>1, <2>2
  <2>. QED BY <1>3, <1>4, <1>6, <2>2, <2>3 DEF CostInv
<1>. QED BY <1>1, <1>6, <1>7, <1>8, <1>9

LEMMA NudgeType ==
  ASSUME turn \in Nat, NEW ok \in BOOLEAN
  PROVE  /\ Nudge(ok) \in Seq(Messages(turn)) /\ Answered(Nudge(ok))
         /\ run.kind # "fill" => Nudge(ok) = <<>>
BY NoteType DEF Nudge

\* A call is done, and its result is not the answer of the turn.
LEMMA GoesOnStep ==
  ASSUME TurnInv, run.pc = "tools", NEW id \in Startable, NEW ok \in BOOLEAN,
         NEW executions \in {0, 1}, ~ (run.kind = "terminal" /\ ok), Finished(id, ok, executions)
  PROVE  TurnInv'
<1> DEFINE M == Messages(turn)
           n == Len(run.batch)
           rest == run.todo \ {id}
           rows == IF run.kind # "parallel" THEN Results(<<id>>, turn)
                   ELSE IF rest = {} THEN Results(run.batch, turn) ELSE <<>>
           c == context \o rows
<1>1. context' = c \o Nudge(ok) /\ Persist(rows)
  BY DEF Finished
<1>2. /\ UNCHANGED <<turn, active, trimmed>> /\ run' \in Run /\ run'.mode = run.mode
      /\ run'.pc = (IF rest = {} THEN "guards" ELSE "tools")
      /\ run'.asking \in rest \cup {NoCall}
      /\ run.kind # "parallel" => run'.asking = NoCall
      /\ run'.batch = run.batch /\ run'.todo = rest /\ run'.kind = run.kind
      /\ PhaseInv' /\ CostInv'
  BY FinishedFacts
<1>3. /\ id \in run.todo /\ rows \in Seq(M)
      /\ \A k \in DOMAIN rows : ~ Plain(rows[k]) /\ rows[k].turn = turn
      /\ \E d \in 0..n :
           /\ IF rest = {} THEN d = n ELSE d < n
           /\ rest # {} => IF run.kind = "parallel" THEN d = 0 ELSE rest = (d + 1)..n
           /\ Valid(context \o (rows \o Rest(n, d, turn)))
           /\ damage = 0 /\ run.mode = "chat" => Valid(store \o (rows \o Rest(n, d, turn)))
  BY FinishedRows
<1>4. /\ turn \in Nat /\ turn # 0 /\ damage \in Nat /\ trimmed \in BOOLEAN
      /\ store \in Seq(M) /\ context \in Seq(M) /\ context # <<>>
      /\ run.mode \in {"chat", "workflow"}
      /\ ~ trimmed => \E i \in DOMAIN context : IsRequest(context[i])
  BY RunningFacts
<1>5. /\ n \in CallIds /\ n \in Nat /\ n # 0 /\ run.batch \in Batches
      /\ run.kind \in {"parallel", "serial", "terminal", "fill"}
      /\ run.kind \in {"terminal", "fill"} => n = 1
      /\ run.todo \subseteq 1..n
  BY BatchFacts
<1>6. Nudge(ok) \in Seq(M) /\ Answered(Nudge(ok)) /\ (run.kind # "fill" => Nudge(ok) = <<>>)
  BY <1>4, NudgeType
<1>7. rest # {} => Nudge(ok) = <<>>
  <2>1. n = 1 => rest = {}
    BY <1>3, <1>5
  <2>2. run.kind = "fill" => n = 1
    BY <1>5
  <2>. QED BY <1>6, <2>1, <2>2
<1> HIDE DEF rows, rest, n
<1>8. /\ store' \in Seq(M) /\ damage' \in Nat /\ SingleAnswers(store')
      /\ \A i \in DOMAIN store' : Plain(store'[i]) => store'[i].turn # turn
      /\ run.mode = "workflow" => store' = store /\ damage' = damage
      /\ damage' = 0 /\ run.mode = "chat" => store' = store \o rows
      /\ damage' = 0 => damage = 0
      /\ damage' = 0 /\ run.mode = "chat" => store' # <<>>
  BY <1>1, <1>3, RowsPersisted
<1>9. c \in Seq(M) /\ c # <<>> /\ (~ trimmed => \E i \in DOMAIN c : IsRequest(c[i]))
  <2>1. c \in Seq(M) /\ c # <<>>
    BY <1>3, <1>4, ConcatProperties, ConcatEqualIffEmpty
  <2>2. ~ trimmed => \E i \in DOMAIN c : IsRequest(c[i])
    BY <1>3, <1>4, RequestKept
  <2>. QED BY <2>1, <2>2
<1>10. /\ context' \in Seq(M) /\ context' # <<>>
       /\ ~ trimmed => \E i \in DOMAIN context' : IsRequest(context'[i])
  <2> HIDE DEF c
  <2>1. context' \in Seq(M) /\ context' # <<>>
    BY <1>1, <1>6, <1>9, ConcatProperties, ConcatEqualIffEmpty
  <2>2. ~ trimmed => \E i \in DOMAIN context' : IsRequest(context'[i])
    BY <1>1, <1>6, <1>9, RequestKept
  <2>. QED BY <2>1, <2>2
<1>11. CASE rest = {}
  <2>1. /\ Valid(context \o (rows \o Rest(n, n, turn)))
        /\ damage = 0 /\ run.mode = "chat" => Valid(store \o (rows \o Rest(n, n, turn)))
    BY <1>3, <1>11
  <2>2. Rest(n, n, turn) = <<>>
    <3>1. turn \in Nat /\ n \in CallIds /\ n \in 0..n
      BY <1>4, <1>5
    <3>. QED BY ONLY <3>1, RestType
  <2>3. rows \o <<>> = rows
    BY <1>3, ConcatEmptySeq
  <2>4. Valid(c) /\ (damage = 0 /\ run.mode = "chat" => Valid(store \o rows))
    BY <2>1, <2>2, <2>3
  <2>5. Valid(context')
    <3> HIDE DEF c
    <3>. QED BY <1>1, <1>4, <1>6, <1>9, <2>4, ValidConcat
  <2>6. damage' = 0 /\ run.mode = "chat" => Valid(store')
    BY <1>8, <2>4
  <2>7. run'.pc = "guards"
    BY <1>2, <1>11
  <2>. QED BY <1>2, <1>4, <1>8, <1>10, <2>5, <2>6, <2>7, MoveStep
<1>12. CASE rest # {}
  <2>1. PICK d \in 0..n :
           /\ d < n
           /\ IF run.kind = "parallel" THEN d = 0 ELSE rest = (d + 1)..n
           /\ Valid(context \o (rows \o Rest(n, d, turn)))
           /\ damage = 0 /\ run.mode = "chat" => Valid(store \o (rows \o Rest(n, d, turn)))
    BY <1>3, <1>12
  <2> DEFINE r == Rest(n, d, turn)
  <2>2. r \in Seq(M)
    <3>1. turn \in Nat /\ n \in CallIds /\ d \in 0..n
      BY <1>4, <1>5
    <3>. QED BY ONLY <3>1, RestType
  <2>3. context' = c
    <3> HIDE DEF c
    <3>. QED BY <1>1, <1>7, <1>9, <1>12, ConcatEmptySeq
  <2>4. Owed(d)' = r
    BY <1>2 DEF Owed, n
  <2> HIDE DEF r
  <2>5. Valid(context' \o r)
    <3>1. context \in Seq(M) /\ rows \in Seq(M) /\ r \in Seq(M)
      BY <1>3, <1>4, <2>2
    <3>2. context \o (rows \o r) = (context \o rows) \o r
      BY ONLY <3>1, ConcatAssociative
    <3>. QED BY <2>1, <2>3, <3>2 DEF r
  <2>6. damage' = 0 /\ run.mode = "chat" => Valid(store' \o r)
    <3>1. store \in Seq(M) /\ rows \in Seq(M) /\ r \in Seq(M)
      BY <1>3, <1>4, <2>2
    <3>2. store \o (rows \o r) = (store \o rows) \o r
      BY ONLY <3>1, ConcatAssociative
    <3>. QED BY <1>8, <2>1, <3>2 DEF r
  <2>7. /\ (Valid(context \o Owed(d)))'
        /\ (damage = 0 /\ run.mode = "chat" => Valid(store \o Owed(d)))'
    BY <1>2, <2>4, <2>5, <2>6
  <2>8. Startable' = IF run.kind = "parallel" THEN rest ELSE Startable'
    BY <1>2 DEF Startable
  <2>9. run'.asking \in Startable' \cup {NoCall}
    BY <1>2, <2>8
  <2>10. /\ run'.batch \in Batches /\ run'.kind \in {"parallel", "serial", "terminal", "fill"}
         /\ run'.todo # {} /\ run'.todo \subseteq 1..Len(run'.batch)
         /\ run'.kind \in {"terminal", "fill"} => Len(run'.batch) = 1
    BY <1>2, <1>5, <1>12 DEF n, rest
  <2>11. /\ d \in 0..(Len(run'.batch) - 1)
         /\ IF run'.kind = "parallel" THEN d = 0 ELSE run'.todo = (d + 1)..Len(run'.batch)
    <3>1. Len(run'.batch) = n
      BY <1>2 DEF n
    <3>2. d \in 0..(n - 1)
      BY <1>5, <2>1
    <3>. QED BY <1>2, <2>1, <3>1, <3>2
  <2>12. BatchInv'
    BY <2>7, <2>9, <2>10, <2>11 DEF BatchInv
  <2>13. run'.pc = "tools"
    BY <1>2, <1>12
  <2>. QED BY <1>2, <1>4, <1>8, <1>10, <2>12, <2>13, BatchStep
<1>. QED BY <1>11, <1>12

LEMMA FinishedStep ==
  ASSUME TurnInv, run.pc = "tools", NEW id \in Startable, NEW ok \in BOOLEAN,
         NEW executions \in {0, 1}, Finished(id, ok, executions)
  PROVE  TurnInv'
<1>1. CASE run.kind = "terminal" /\ ok
  <2>1. ok = TRUE
    BY <1>1
  <2>. QED BY <1>1, <2>1, TerminalStep
<1>2. CASE ~ (run.kind = "terminal" /\ ok)
  BY <1>2, GoesOnStep
<1>. QED BY <1>1, <1>2

LEMMA ToolSteps ==
  ASSUME TurnInv, NEW id \in CallIds, RunTool(id) \/ BlockTool(id) \/ AskUser(id) \/ Approve \/ Deny
  PROVE  TurnInv'
<1>1. CASE RunTool(id)
  BY <1>1, FinishedStep DEF RunTool, MayStart
<1>2. CASE BlockTool(id)
  BY <1>2, FinishedStep DEF BlockTool, MayStart
<1>3. CASE AskUser(id)
  BY <1>3, AskUserStep
<1>4. run.asking # NoCall /\ run.pc = "tools" => run.asking \in Startable
  BY BatchFacts
<1>5. CASE Approve
  BY <1>4, <1>5, FinishedStep DEF Approve
<1>6. CASE Deny
  BY <1>4, <1>6, FinishedStep DEF Deny
<1>. QED BY <1>1, <1>2, <1>3, <1>5, <1>6

\* The second warning ends the turn, the first one does not.
LEMMA LoopDetectedStep ==
  ASSUME TurnInv, LoopDetected
  PROVE  TurnInv'
<1>1. CASE run.warnings = 1
  BY <1>1, SaveTurnStep DEF LoopDetected
<1>2. CASE run.warnings # 1
  <2>1. /\ run' = [run EXCEPT !.pc = "top", !.batch = <<>>, !.kind = None, !.warnings = run.warnings + 1]
        /\ run.pc = "guards" /\ UNCHANGED <<store, context, turn, active, damage, trimmed>>
    BY <1>2 DEF LoopDetected
  <2>2. run \in Run /\ PhaseInv /\ CostInv
    BY DEF TurnInv, TypeInv
  <2>3. run.warnings + 1 \in Nat
    BY <2>2, RunFields
  <2>4. /\ run' \in Run /\ run'.mode = run.mode /\ run'.pc = "top" /\ run'.asking = run.asking
        /\ run'.iterations = run.iterations /\ run'.llmCalls = run.llmCalls
        /\ run'.reserved = run.reserved /\ run'.executed = run.executed
        /\ run'.refused = run.refused
    BY <2>1, <2>2, <2>3 DEF Run, Places, Kinds
  <2>5. PhaseInv'
    BY <2>1, <2>2, <2>4 DEF PhaseInv, IsIdle
  <2>6. CostInv'
    BY <2>1, <2>2, <2>4 DEF CostInv
  <2>. QED BY <2>1, <2>4, <2>5, <2>6, QuietStep DEF Ready
<1>. QED BY <1>1, <1>2

\* The salvage of a workflow run: nothing of it is stored.
LEMMA FinalCallStep ==
  ASSUME TurnInv, run.mode = "workflow", run.pc \in {"over", "stageB"},
         NEW pc \in {"stageB", "stageC"}, NEW calls \in {0, 1},
         run.pc = "stageB" => calls = 0, FinalCall(pc, calls)
  PROVE  TurnInv'
<1> DEFINE M == Messages(turn)
           b == Message("assistant", <<1>>, turn)
           more == <<Note, b>>
<1>1. /\ context' = context \o more
      /\ store' = store /\ damage' = damage /\ UNCHANGED <<turn, active, trimmed>>
      /\ run' = [run EXCEPT !.pc = pc, !.llmCalls = run.llmCalls + calls, !.todo = {1},
                            !.batch = <<1>>, !.kind = "final", !.asking = NoCall]
  BY DEF FinalCall, Persist
<1>2. /\ turn \in Nat /\ turn # 0 /\ damage \in Nat /\ trimmed \in BOOLEAN
      /\ store \in Seq(M) /\ context \in Seq(M) /\ context # <<>>
      /\ run \in Run /\ SingleAnswers(store)
      /\ \A i \in DOMAIN store : Plain(store[i]) => store[i].turn # turn
      /\ ~ trimmed => \E i \in DOMAIN context : IsRequest(context[i])
  BY RunningFacts
<1>3. PhaseInv /\ CostInv
  BY DEF TurnInv
<1>4. /\ run.reserved \in Nat /\ run.executed \in Nat /\ MaxToolCalls \in Nat
      /\ run.iterations \in Nat /\ run.llmCalls \in Nat /\ MaxIterations \in Nat
      /\ run.llmCalls + calls \in Nat
  BY <1>2, RunFields, TurnAssumption
<1>5. <<1>> \in Batches /\ {1} \in SUBSET CallIds /\ 1 \in CallIds
  <2>1. 1 \in CallIds
    BY TurnAssumption DEF CallIds
  <2>2. <<1>> = [k \in 1..1 |-> k]
    OBVIOUS
  <2>. QED BY <2>1, <2>2 DEF Batches
<1>6. b \in M
  BY <1>2, <1>5, BatchMessage
<1>7. more \in Seq(M)
  BY <1>2, <1>6, NoteType
<1> HIDE DEF more
<1>8. /\ context' \in Seq(M) /\ context' # <<>>
      /\ ~ trimmed => \E i \in DOMAIN context' : IsRequest(context'[i])
  <2>1. context' \in Seq(M) /\ context' # <<>>
    BY <1>1, <1>2, <1>7, ConcatProperties, ConcatEqualIffEmpty
  <2>2. ~ trimmed => \E i \in DOMAIN context' : IsRequest(context'[i])
    BY <1>1, <1>2, <1>7, RequestKept
  <2>. QED BY <2>1, <2>2
<1>9. /\ run' \in Run /\ run'.mode = run.mode /\ run'.pc = pc /\ run'.asking = NoCall
      /\ run'.iterations = run.iterations /\ run'.llmCalls = run.llmCalls + calls
      /\ run'.reserved = run.reserved /\ run'.executed = run.executed
      /\ run'.refused = run.refused
  BY <1>1, <1>2, <1>4, <1>5 DEF Run, Places, Kinds
<1>10. PhaseInv'
  BY <1>1, <1>3, <1>9 DEF PhaseInv, IsIdle
<1>11. CostInv'
  BY <1>1, <1>3, <1>4, <1>9 DEF CostInv
<1>12. damage' = 0 => store' = store /\ damage = 0
  BY <1>1
<1>. QED BY <1>1, <1>2, <1>8, <1>9, <1>10, <1>11, <1>12, MoveStep DEF Ready

LEMMA FinishSteps ==
  ASSUME TurnInv, Finish
  PROVE  TurnInv'
<1>1. CASE GiveUp
  BY <1>1, SaveTurnStep DEF GiveUp
<1>2. CASE Rescue
  <2>1. run.pc = "over" /\ run.mode = "workflow" /\ FinalCall("stageB", 1)
    BY <1>2 DEF Rescue, MustRescue
  <2>. QED BY <2>1, FinalCallStep
<1>3. CASE RescueByLoop
  <2>1. run.pc = "over" /\ run.mode = "workflow" /\ FinalCall("stageC", 1)
    BY <1>3 DEF RescueByLoop, MustRescue
  <2>. QED BY <2>1, FinalCallStep
<1>4. CASE AskFinal
  BY <1>4, QuietSteps
<1>5. CASE FinalSucceeds
  BY <1>5, SaveTurnStep DEF FinalSucceeds, InFinal
<1>6. CASE FinalRefused
  BY <1>6, QuietSteps
<1>7. CASE FinalGivesUp
  BY <1>7, SaveTurnStep DEF FinalGivesUp
<1>8. CASE FinalFails
  <2>1. CASE run.pc = "stageB" /\ FinalCall("stageC", 0)
    <3>1. run.mode = "workflow"
      BY <2>1 DEF TurnInv, PhaseInv
    <3>. QED BY <2>1, <3>1, FinalCallStep
  <2>2. CASE run.pc = "stageC" /\ SaveTurn
    BY <2>2, SaveTurnStep
  <2>. QED BY <1>8, <2>1, <2>2 DEF FinalFails
<1>. QED BY <1>1, <1>2, <1>3, <1>4, <1>5, <1>6, <1>7, <1>8 DEF Finish

\* The inductive step, one action after the other.
LEMMA TurnStep ==
  ASSUME ~ FillPlanBatched, TurnInv, [TurnNext]_turnVars
  PROVE  TurnInv'
<1>1. ASSUME NEW mode \in Modes, Start(mode) PROVE TurnInv'
  BY <1>1, StartStep
<1>2. CASE Think
  <2>1. CASE BeginIteration \/ SkipCompression \/ CallModel \/ ModelAsksTooMuch
    BY <2>1, QuietSteps
  <2>2. CASE CompressStored \/ CompressInMemory
    BY <2>2, CompressStoredStep, CompressInMemoryStep
  <2>3. CASE ModelTimesOut \/ ModelAnswers
    BY <2>3, SaveTurnStep DEF ModelTimesOut, ModelAnswers
  <2>4. CASE ModelFails
    BY <2>4, AbortStep DEF ModelFails, IsIdle
  <2>5. CASE \E kind \in Retries : ModelMustRetry(kind)
    BY <2>5, RetryStep
  <2>6. CASE \E ids \in Batches : \E kind \in BatchKinds(ids) : ModelCallsTools(ids, kind)
    BY <2>6, MixedCallsStep, CallsStep
  <2>. QED BY <1>2, <2>1, <2>2, <2>3, <2>4, <2>5, <2>6 DEF Think
<1>3. CASE Act
  <2>0. 1 \in CallIds
    BY TurnAssumption DEF CallIds
  <2>1. CASE (\E id \in CallIds : RunTool(id) \/ BlockTool(id) \/ AskUser(id)) \/ Approve \/ Deny
    BY <2>0, <2>1, ToolSteps
  <2>2. CASE PromptFails
    BY <2>2, AbortStep DEF PromptFails, IsIdle
  <2>3. CASE GoOn
    BY <2>3, QuietSteps
  <2>4. CASE LoopDetected
    BY <2>4, LoopDetectedStep
  <2>. QED BY <1>3, <2>1, <2>2, <2>3, <2>4 DEF Act
<1>4. CASE Finish
  BY <1>4, FinishSteps
<1>5. CASE Cancel
  BY <1>5, AbortStep DEF Cancel, IsIdle
<1>6. CASE UNCHANGED turnVars
  <2>1. UNCHANGED <<store, context, run, turn, active, damage, trimmed>>
    BY <1>6 DEF turnVars
  <2>2. Startable' = Startable /\ \A d : Owed(d)' = Owed(d)
    BY <2>1 DEF Startable, Owed
  <2>3. \A m : IsRequest(m)' <=> IsRequest(m)
    BY <2>1 DEF IsRequest
  <2>4. TypeInv' /\ PhaseInv' /\ StoreInv' /\ AnswerInv' /\ CostInv'
    BY <2>1 DEF TurnInv, TypeInv, PhaseInv, StoreInv, AnswerInv, CostInv, IsIdle
  <2>5. BatchInv'
    BY <2>1, <2>2 DEF TurnInv, BatchInv
  <2>6. ContextInv'
    BY <2>1, <2>3 DEF TurnInv, ContextInv, IsIdle
  <2>. QED BY <2>4, <2>5, <2>6 DEF TurnInv
<1>. QED BY <1>1, <1>2, <1>3, <1>4, <1>5, <1>6 DEF TurnNext

LEMMA TurnInvHolds ==
  ASSUME ~ FillPlanBatched
  PROVE  TurnSpec => []TurnInv
<1>1. TurnInit => TurnInv
  BY InitIsSound
<1>2. TurnInv /\ [TurnNext]_turnVars => TurnInv'
  BY TurnStep
<1>. QED BY <1>1, <1>2, PTL DEF TurnSpec

-----------------------------------------------------------------------------
LEMMA InvGivesContext == TurnInv => ContextIsValid
BY DEF TurnInv, ContextInv, Ready, ContextIsValid, MustRescue

\* What the model is sent: after every mixture of aborted turns, lost rows, repairs and
\* compressions the transcript of a call is one a provider accepts (context.py, loop.py).
THEOREM ContextStaysValid ==
  ASSUME ~ FillPlanBatched
  PROVE  TurnSpec => []ContextIsValid
<1>1. TurnSpec => []TurnInv
  BY TurnInvHolds
<1>2. TurnInv => ContextIsValid
  BY InvGivesContext
<1>. QED BY <1>1, <1>2, PTL

LEMMA InvGivesLoad == TurnInv => LoadRepairsOnlyDamage
<1> SUFFICES ASSUME TurnInv PROVE LoadRepairsOnlyDamage
  OBVIOUS
<1>1. store \in Seq(Messages(turn)) /\ turn \in Nat /\ turn \in 0..MaxTurns
  BY TurnAssumption DEF TurnInv, TypeInv
<1>2. Valid(Normal(store))
  BY <1>1, NormalIsSound
<1>3. ASSUME damage = 0, run.pc = "idle"
      PROVE  Valid(store) /\ (store # <<>> => Plain(store[Len(store)]))
  <2>1. run = Idle
    BY <1>3 DEF TurnInv, PhaseInv, IsIdle
  <2>2. run.mode # "chat"
    BY <2>1 DEF Idle, None
  <2>. QED BY <1>3, <2>2 DEF TurnInv, StoreInv
<1>4. damage = 0 => Normal(store) = store \/ run.pc # "idle"
  BY <1>1, <1>3, NormalOfValid
<1>5. ASSUME damage = 0, run.pc = "idle", store # <<>>
      PROVE  Last(store) \in [role : {"assistant"}, ids : {<<>>}, turn : 1..turn]
  <2>1. Last(store) = store[Len(store)] /\ Len(store) \in 1..Len(store)
    BY <1>1, <1>5, EmptySeq, LenProperties DEF Last
  <2>2. Last(store) \in Messages(turn) /\ Plain(Last(store))
    BY <1>1, <1>3, <1>5, <2>1, ElementOfSeq
  <2> DEFINE m == Last(store)
  <2>3. m \in [role : {"user", "assistant", "tool"}, ids : Seq(CallIds), turn : 0..turn]
        /\ m.turn # 0 /\ m.role = "assistant" /\ m.ids = <<>>
    BY <2>2 DEF Messages, Plain
  <2> HIDE DEF m
  <2>4. m.turn \in 1..turn
    BY <1>1, <2>3
  <2>5. m \in [role : {"assistant"}, ids : {<<>>}, turn : 1..turn]
    BY <2>3, <2>4
  <2>. QED BY <2>5 DEF m
<1>. QED BY <1>2, <1>4, <1>5 DEF LoadRepairsOnlyDamage

LEMMA InvGivesRest ==
  TurnInv => RequestReachesModel /\ OneAnswerPerTurn /\ WithinBudget /\ NoPromptAfterRefusal
<1> SUFFICES ASSUME TurnInv
             PROVE  RequestReachesModel /\ OneAnswerPerTurn /\ WithinBudget /\ NoPromptAfterRefusal
  OBVIOUS
<1>1. RequestReachesModel
  BY DEF TurnInv, ContextInv, IsIdle, RequestReachesModel
<1>2. OneAnswerPerTurn
  <2>1. SingleAnswers(store)
    BY DEF TurnInv, AnswerInv
  <2>. QED BY <2>1 DEF SingleAnswers, Plain, OneAnswerPerTurn
<1>3. WithinBudget
  BY DEF TurnInv, CostInv, WithinBudget
<1>4. NoPromptAfterRefusal
  BY DEF TurnInv, PhaseInv, NoPromptAfterRefusal, InFinal
<1>. QED BY <1>1, <1>2, <1>3, <1>4

\* Whatever was aborted, lost, summarised or refused: the stored transcript loads and is
\* repaired only where something was lost, the request reaches the model, a turn is stored
\* with at most one answer, costs stay within the budgets and a refusal is final (loop.py).
THEOREM TurnStaysSound ==
  ASSUME ~ FillPlanBatched
  PROVE  TurnSpec => []TurnIsSound
<1>1. TurnSpec => []TurnInv
  BY TurnInvHolds
<1>2. TurnInv => TurnIsSound
  BY InvGivesLoad, InvGivesRest DEF TurnIsSound
<1>. QED BY <1>1, <1>2, PTL

\* The chat and its run keep their types: no place, mode, message or call id outside the
\* ones loop.py and context.py know.
THEOREM TurnStaysTyped ==
  ASSUME ~ FillPlanBatched
  PROVE  TurnSpec => []TurnTypeOK
<1>1. TurnSpec => []TurnInv
  BY TurnInvHolds
<1>2. TurnInv => TurnTypeOK
  <2> SUFFICES ASSUME TurnInv PROVE TurnTypeOK
    OBVIOUS
  <2>1. /\ run \in Run /\ turn \in 0..MaxTurns /\ turn \in Nat
        /\ store \in Seq(Messages(turn)) /\ context \in Seq(Messages(turn))
    BY TurnAssumption DEF TurnInv, TypeInv
  <2>2. /\ run.pc \in Places /\ run.mode \in Modes \cup {None}
        /\ run.asking \in CallIds \cup {NoCall} /\ run.todo \subseteq CallIds
    BY <2>1 DEF Run
  <2>3. active \in {0, 1}
    BY DEF TurnInv, PhaseInv
  <2>4. ASSUME NEW msgs \in Seq(Messages(turn)), NEW i \in DOMAIN msgs
        PROVE  /\ msgs[i].role \in {"user", "assistant", "tool"}
               /\ msgs[i].turn \in 0..turn /\ ToSet(msgs[i].ids) \subseteq CallIds
    <3>1. msgs[i] \in Messages(turn)
      BY LenProperties, ElementOfSeq
    <3>2. /\ msgs[i].role \in {"user", "assistant", "tool"} /\ msgs[i].turn \in 0..turn
          /\ msgs[i].ids \in Seq(CallIds)
      BY <2>1, <3>1, MessageType
    <3>3. ToSet(msgs[i].ids) \subseteq CallIds
      BY <3>2, LenProperties, ElementOfSeq DEF ToSet
    <3>. QED BY <3>2, <3>3
  <2>. QED BY <2>1, <2>2, <2>3, <2>4 DEF TurnTypeOK, Places
<1>. QED BY <1>1, <1>2, PTL
=============================================================================
