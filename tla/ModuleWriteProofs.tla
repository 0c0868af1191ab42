-------------------------- MODULE ModuleWriteProofs --------------------------
(***************************************************************************)
(* The properties of ModuleWrite, for any number of calls, texts, words,   *)
(* requests, any size of the pages and each manner of EDT's answers.  The  *)
(* hash of the first page guards the write.  Faithful says what makes that *)
(* enough: as long as the module is the text of the hash, what was read is *)
(* its first pages but for breaks, and what was decided was decided of it. *)
(* A call that saw the module leave that text and come back is one of      *)
(* `returned`.                                                             *)
(***************************************************************************)
EXTENDS ModuleWrite, SequenceTheorems, FiniteSetTheorems, TLAPS

States == {"idle", "read", "edit", "backup", "write"}

Job == [req : Requests, page : 0..MaxPages, read : Text, hash : Text \cup {NoText},
        updated : Text \cup {NoText}]

Typed(c) ==
  /\ pc[c] = "idle" => job[c] = NoJob
  /\ pc[c] # "idle" => job[c] \in Job
  /\ pc[c] = "read" => job[c].page < MaxPages
  /\ pc[c] \in {"backup", "write"} => job[c].updated \in Text \ {job[c].read}
  /\ pc[c] = "write" => job[c].read \in backups

TypeInv ==
  /\ edt \in Manner /\ module \in Text /\ backups \subseteq Text
  /\ pc \in [Calls -> States] /\ DOMAIN job = Calls
  /\ \A c \in Calls : Typed(c)
  /\ edits \in 0..MaxEdits /\ calls \in 0..MaxCalls /\ returned \subseteq Calls

\* The requested edit of what was read, within its guards.
Decided(c) ==
  LET req == job[c].req
      text == job[c].read IN
  /\ job[c].updated = ApplyModuleEdit(text, req, MethodText(module, req.method))
  /\ req.expectedHash \in {NoText, module} /\ req.expectedSource \in {NoText, text}
  /\ TooMuchRemoved(text, job[c].updated) => req.allowLargeDeletion

\* The first pages of the module are read, and there are more.
Reading(c) ==
  LET from == job[c].page * PageSize
      first == SubSeq(module, 1, EndOf(module, from)) IN
  /\ job[c].page = 0 => job[c].read = <<>>
  /\ job[c].page # 0 => edt.next /\ EndOf(module, from) < Len(module)
  /\ OnlyBreaksLost(job[c].read, first)
  /\ edt.break => job[c].read = first

Faithful(c) ==
  /\ pc[c] = "read" =>
       /\ job[c].hash # NoText => edt.hash
       /\ job[c].hash = NoText /\ edt.hash => job[c].page = 0 /\ job[c].read = <<>>
       /\ job[c].hash = module => Reading(c)
  /\ pc[c] \in {"edit", "backup", "write"} /\ job[c].hash = module => Received(job[c].read)
  /\ pc[c] \in {"backup", "write"} /\ job[c].hash = module => Decided(c)

WriteInv == \A c \in Calls \ returned : Faithful(c)

-----------------------------------------------------------------------------
(* Lines and breaks *)

LEMMA LengthOf ==
  ASSUME NEW n \in Nat
  PROVE  IsFiniteSet(1..n) /\ Cardinality(1..n) = n
<1>1. 1 \in Int /\ n \in Int
  OBVIOUS
<1>2. IsFiniteSet(1..n) /\ Cardinality(1..n) = IF 1 > n THEN 0 ELSE n - 1 + 1
  BY <1>1, FS_Interval, Zenon
<1>3. (IF 1 > n THEN 0 ELSE n - 1 + 1) = n
  OBVIOUS
<1> QED  BY <1>2, <1>3

LEMMA LineOfType ==
  ASSUME NEW text \in Text, NEW i
  PROVE  LineOf(text, i) \in 1..Len(text) + 1
<1> DEFINE S == {j \in DOMAIN text : j < i /\ text[j] = Break}
<1>1. Len(text) \in Nat /\ DOMAIN text = 1..Len(text)
  BY DEF Text
<1>2. IsFiniteSet(1..Len(text)) /\ Cardinality(1..Len(text)) = Len(text)
  BY <1>1, LengthOf
<1>3. S \in SUBSET (1..Len(text))
  BY <1>1
<1> HIDE DEF S
<1>4. Cardinality(S) \in Nat /\ Cardinality(S) <= Len(text)
  BY <1>2, <1>3, FS_Subset, FS_CardinalityType
<1> QED  BY <1>1, <1>4 DEF LineOf, S

\* Where lines end, and that more of them do not end earlier.
LEMMA EndOfBounds ==
  ASSUME NEW text \in Text, NEW m \in Int, NEW n \in Int, m <= n
  PROVE  /\ EndOf(text, m) \in 0..Len(text) /\ EndOf(text, n) \in 0..Len(text)
         /\ EndOf(text, m) <= EndOf(text, n)
<1> DEFINE S(k) == {i \in DOMAIN text : LineOf(text, i) <= k}
<1>1. Len(text) \in Nat /\ DOMAIN text = 1..Len(text)
  BY DEF Text
<1>2. IsFiniteSet(1..Len(text)) /\ Cardinality(1..Len(text)) = Len(text)
  BY <1>1, LengthOf
<1>3. S(n) \in SUBSET (1..Len(text))
  BY <1>1
<1>4. S(m) \in SUBSET S(n)
  <2>1. \A i \in DOMAIN text : LineOf(text, i) \in Int
    BY <1>1, LineOfType
  <2> QED  BY <2>1
<1>5. EndOf(text, m) = Cardinality(S(m)) /\ EndOf(text, n) = Cardinality(S(n))
  BY DEF EndOf
<1> HIDE DEF S
<1>6. IsFiniteSet(S(n)) /\ Cardinality(S(n)) <= Len(text)
  BY <1>2, <1>3, FS_Subset
<1>7. IsFiniteSet(S(m)) /\ Cardinality(S(m)) <= Cardinality(S(n))
  BY <1>4, <1>6, FS_Subset
<1>8. Cardinality(S(m)) \in Nat /\ Cardinality(S(n)) \in Nat
  BY <1>6, <1>7, FS_CardinalityType
<1> QED  BY <1>1, <1>5, <1>6, <1>7, <1>8

LEMMA NoLines ==
  ASSUME NEW text \in Text
  PROVE  EndOf(text, 0) = 0
<1>1. DOMAIN text = 1..Len(text) /\ Len(text) \in Nat
  BY DEF Text
<1>2. \A i \in DOMAIN text : ~(LineOf(text, i) <= 0)
  <2>1. \A i \in DOMAIN text : LineOf(text, i) \in 1..Len(text) + 1
    BY LineOfType
  <2> QED  BY <1>1, <2>1
<1>3. {i \in DOMAIN text : LineOf(text, i) <= 0} = {}
  BY <1>2
<1> QED  BY <1>3, FS_EmptySet DEF EndOf

\* A stretch of a text is a text.
LEMMA Stretch ==
  ASSUME NEW text \in Text, NEW k \in Nat, NEW n \in 0..Len(text)
  PROVE  SubSeq(text, k + 1, n) \in Text
<1>1. \A i \in k + 1 .. n : text[i] \in Symbols
  BY ElementOfSeq DEF Text
<1> QED  BY <1>1, SubSeqProperties DEF Text

LEMMA Trimmed ==
  ASSUME NEW text \in Text
  PROVE  /\ Trim(text) \in Text
         /\ Trim(text) # text => /\ text # <<>> /\ text[Len(text)] = Break
                                /\ Trim(text) = SubSeq(text, 1, Len(text) - 1)
<1>1. CASE EndsInBreak(text)
  <2>1. Len(text) \in Nat \ {0}
    BY <1>1, EmptySeq DEF EndsInBreak, Text
  <2>2. SubSeq(text, 0 + 1, Len(text) - 1) \in Text
    BY <2>1, Stretch
  <2> QED  BY <1>1, <2>2 DEF Trim, EndsInBreak
<1> QED  BY <1>1 DEF Trim

LEMMA LostFromNone == OnlyBreaksLost(<<>>, <<>>)
<1>1. [i \in {} |-> 0] \in [DOMAIN <<>> -> DOMAIN <<>>]
  OBVIOUS
<1> QED  BY <1>1 DEF OnlyBreaksLost

\* A page comes over with all its words.
LEMMA LostFromPage ==
  ASSUME NEW text \in Text
  PROVE  OnlyBreaksLost(text, text) /\ OnlyBreaksLost(Trim(text), text)
<1>1. DOMAIN text = 1..Len(text) /\ Len(text) \in Nat
  BY DEF Text
<1>2. OnlyBreaksLost(text, text)
  <2> DEFINE at == [i \in DOMAIN text |-> i]
  <2>1. at \in [DOMAIN text -> DOMAIN text] /\ \A i \in DOMAIN text : at[i] = i
    OBVIOUS
  <2> HIDE DEF at
  <2> QED  BY <2>1 DEF OnlyBreaksLost
<1>3. CASE Trim(text) # text
  <2> DEFINE cut == Trim(text)
             at == [i \in DOMAIN cut |-> i]
  <2>1. cut = SubSeq(text, 1, Len(text) - 1) /\ text[Len(text)] = Break /\ Len(text) >= 1 /\ cut \in Text
    BY <1>1, <1>3, Trimmed, EmptySeq DEF Text
  <2>2. \A i \in 1..(Len(text) - 1) : text[i] \in Symbols
    BY <1>1, ElementOfSeq DEF Text
  <2>3. Len(cut) = Len(text) - 1 /\ \A i \in 1..(Len(text) - 1) : cut[i] = text[i]
    BY <1>1, <2>1, <2>2, SubSeqProperties
  <2>4. DOMAIN cut = 1..(Len(text) - 1)
    BY <2>1, <2>3 DEF Text
  <2> HIDE DEF cut
  <2>5. at \in [DOMAIN cut -> DOMAIN text] /\ \A i \in DOMAIN cut : at[i] = i
    BY <1>1, <2>4
  <2> HIDE DEF at
  <2>6. \A k \in DOMAIN text : text[k] # Break => k \in DOMAIN cut
    BY <1>1, <2>1, <2>4
  <2>7. OnlyBreaksLost(cut, text)
    BY <2>3, <2>4, <2>5, <2>6 DEF OnlyBreaksLost
  <2> QED  BY <1>2, <2>7 DEF cut
<1> QED  BY <1>2, <1>3

\* Two pages one after the other.
LEMMA LostFromBoth ==
  ASSUME NEW a \in Text, NEW b \in Text, NEW A \in Text, NEW B \in Text,
         OnlyBreaksLost(a, A), OnlyBreaksLost(b, B)
  PROVE  OnlyBreaksLost(a \o b, A \o B)
<1>1. PICK f \in [DOMAIN a -> DOMAIN A] :
        /\ \A i, j \in DOMAIN a : i < j => f[i] < f[j]
        /\ \A i \in DOMAIN a : a[i] = A[f[i]]
        /\ \A k \in DOMAIN A : A[k] # Break => \E i \in DOMAIN a : f[i] = k
  BY DEF OnlyBreaksLost
<1>2. PICK g \in [DOMAIN b -> DOMAIN B] :
        /\ \A i, j \in DOMAIN b : i < j => g[i] < g[j]
        /\ \A i \in DOMAIN b : b[i] = B[g[i]]
        /\ \A k \in DOMAIN B : B[k] # Break => \E i \in DOMAIN b : g[i] = k
  BY DEF OnlyBreaksLost
<1>3. /\ DOMAIN a = 1..Len(a) /\ DOMAIN b = 1..Len(b) /\ DOMAIN A = 1..Len(A) /\ DOMAIN B = 1..Len(B)
      /\ Len(a) \in Nat /\ Len(b) \in Nat /\ Len(A) \in Nat /\ Len(B) \in Nat
  BY DEF Text
<1>4. /\ a \o b \in Seq(Symbols) /\ Len(a \o b) = Len(a) + Len(b)
      /\ \A i \in 1 .. Len(a) + Len(b) : (a \o b)[i] = IF i <= Len(a) THEN a[i] ELSE b[i - Len(a)]
  BY ConcatProperties DEF Text
<1>5. /\ A \o B \in Seq(Symbols) /\ Len(A \o B) = Len(A) + Len(B)
      /\ \A i \in 1 .. Len(A) + Len(B) : (A \o B)[i] = IF i <= Len(A) THEN A[i] ELSE B[i - Len(A)]
  BY ConcatProperties DEF Text
<1> DEFINE ab == a \o b
           AB == A \o B
           h == [i \in 1..(Len(a) + Len(b)) |-> IF i <= Len(a) THEN f[i] ELSE Len(A) + g[i - Len(a)]]
<1>6. DOMAIN ab = 1..(Len(a) + Len(b)) /\ DOMAIN AB = 1..(Len(A) + Len(B))
  BY <1>4, <1>5
<1>7. ASSUME NEW i \in 1..Len(a)
      PROVE  h[i] = f[i] /\ f[i] \in 1..Len(A) /\ ab[i] = a[i] /\ AB[f[i]] = A[f[i]]
  BY <1>1, <1>3, <1>4, <1>5
<1>8. ASSUME NEW i \in 1..Len(b)
      PROVE  /\ h[Len(a) + i] = Len(A) + g[i] /\ g[i] \in 1..Len(B)
             /\ ab[Len(a) + i] = b[i] /\ AB[Len(A) + g[i]] = B[g[i]]
  <2>1. g[i] \in 1..Len(B)
    BY <1>2, <1>3
  <2>2. Len(a) + i \in 1..(Len(a) + Len(b)) /\ ~(Len(a) + i <= Len(a)) /\ Len(a) + i - Len(a) = i
    BY <1>3
  <2>3. Len(A) + g[i] \in 1..(Len(A) + Len(B)) /\ ~(Len(A) + g[i] <= Len(A)) /\ Len(A) + g[i] - Len(A) = g[i]
    BY <1>3, <2>1
  <2> QED  BY <1>4, <1>5, <2>1, <2>2, <2>3, SMTT(30)
<1>9. \A i \in 1..(Len(a) + Len(b)) : i \in 1..Len(a) \/ \E j \in 1..Len(b) : i = Len(a) + j
  <2>1. ASSUME NEW i \in 1..(Len(a) + Len(b)), i \notin 1..Len(a)  PROVE i - Len(a) \in 1..Len(b) /\ i = Len(a) + (i - Len(a))
    BY <1>3, <2>1
  <2> QED  BY <2>1
<1>10. DOMAIN h = 1..(Len(a) + Len(b))
  OBVIOUS
<1> HIDE DEF h, ab, AB
<1>11. h \in [DOMAIN ab -> DOMAIN AB]
  <2>1. ASSUME NEW i \in 1..(Len(a) + Len(b))  PROVE h[i] \in 1..(Len(A) + Len(B))
    <3>1. CASE i \in 1..Len(a)
      BY <1>3, <1>7, <3>1
    <3>2. ASSUME NEW j \in 1..Len(b), i = Len(a) + j  PROVE h[i] \in 1..(Len(A) + Len(B))
      <4>1. h[i] = Len(A) + g[j] /\ g[j] \in 1..Len(B)
        BY <1>8, <3>2
      <4> QED  BY <1>3, <4>1
    <3> QED  BY <1>9, <3>1, <3>2
  <2>2. h = [i \in 1..(Len(a) + Len(b)) |-> h[i]]
    BY DEF h
  <2> QED  BY <1>6, <2>1, <2>2
<1>12. ASSUME NEW i \in DOMAIN ab, NEW j \in DOMAIN ab, i < j  PROVE h[i] < h[j]
  <2>1. CASE i \in 1..Len(a) /\ j \in 1..Len(a)
    BY <1>1, <1>3, <1>7, <1>12, <2>1
  <2>2. ASSUME i \in 1..Len(a), NEW l \in 1..Len(b), j = Len(a) + l  PROVE h[i] < h[j]
    BY <1>3, <1>7, <1>8, <2>2
  <2>3. ASSUME NEW k \in 1..Len(b), i = Len(a) + k, NEW l \in 1..Len(b), j = Len(a) + l  PROVE h[i] < h[j]
    <3>1. k \in DOMAIN b /\ l \in DOMAIN b /\ k < l
      BY <1>3, <1>12, <2>3
    <3>2. g[k] < g[l]
      BY <1>2, <3>1
    <3>3. g[k] \in 1..Len(B) /\ g[l] \in 1..Len(B)
      BY <1>8, <2>3
    <3>4. h[i] = Len(A) + g[k] /\ h[j] = Len(A) + g[l]
      BY <1>8, <2>3
    <3> QED  BY <1>3, <3>2, <3>3, <3>4
  <2>4. ASSUME NEW k \in 1..Len(b), i = Len(a) + k  PROVE j \notin 1..Len(a)
    BY <1>3, <1>12, <2>4
  <2> QED  BY <1>6, <1>9, <2>1, <2>2, <2>3, <2>4
<1>13. ASSUME NEW i \in DOMAIN ab  PROVE ab[i] = AB[h[i]]
  <2>1. CASE i \in 1..Len(a)
    BY <1>1, <1>3, <1>7, <2>1
  <2>2. ASSUME NEW j \in 1..Len(b), i = Len(a) + j  PROVE ab[i] = AB[h[i]]
    <3>1. b[j] = B[g[j]]
      BY <1>2, <1>3
    <3> QED  BY <1>8, <2>2, <3>1
  <2> QED  BY <1>6, <1>9, <2>1, <2>2
<1>14. ASSUME NEW k \in DOMAIN AB, AB[k] # Break  PROVE \E i \in DOMAIN ab : h[i] = k
  <2>1. CASE k \in 1..Len(A)
    <3>1. AB[k] = A[k]
      BY <1>3, <1>5, <2>1 DEF AB
    <3>2. PICK i \in DOMAIN a : f[i] = k
      BY <1>1, <1>3, <1>14, <2>1, <3>1
    <3>3. i \in DOMAIN ab /\ h[i] = k
      BY <1>3, <1>6, <1>7, <3>2
    <3> QED  BY <3>3
  <2>2. CASE k \notin 1..Len(A)
    <3>1. k - Len(A) \in 1..Len(B) /\ AB[k] = B[k - Len(A)]
      BY <1>3, <1>5, <1>6, <2>2 DEF AB
    <3>2. PICK i \in DOMAIN b : g[i] = k - Len(A)
      BY <1>2, <1>3, <1>14, <3>1
    <3>3. Len(a) + i \in DOMAIN ab /\ h[Len(a) + i] = k
      BY <1>3, <1>6, <1>8, <3>1, <3>2
    <3> QED  BY <3>3
  <2> QED  BY <2>1, <2>2
<1>15. OnlyBreaksLost(ab, AB)
  BY <1>11, <1>12, <1>13, <1>14 DEF OnlyBreaksLost
<1> QED  BY <1>15 DEF ab, AB

-----------------------------------------------------------------------------
(* The edit *)

\* Symbols of a text replaced by others are a text again.
LEMMA SpliceType ==
  ASSUME NEW text \in Text, NEW new \in Text, NEW i \in 1..Len(text), NEW n \in Nat
  PROVE  Splice(text, i, n, new) \in Text
<1>1. Len(text) \in Nat
  BY DEF Text
<1>2. SubSeq(text, 0 + 1, i - 1) \in Text
  BY <1>1, Stretch
<1>3. SubSeq(text, (i + n - 1) + 1, Len(text)) \in Text
  BY <1>1, Stretch
<1>4. SubSeq(text, 1, i - 1) \in Text /\ SubSeq(text, i + n, Len(text)) \in Text
  BY <1>1, <1>2, <1>3
<1> QED  BY <1>4, ConcatProperties DEF Splice, Text

LEMMA ReplaceUniqueType ==
  ASSUME NEW text \in Text, NEW old \in Text, NEW new \in Text
  PROVE  ReplaceUnique(text, old, new) \in Text \cup {NoText}
<1> DEFINE first == CHOOSE i \in Places(text, old) : \A j \in Places(text, old) : i <= j
<1>1. CASE old # <<>> /\ Once(text, old)
  <2>1. first \in Places(text, old)
    BY <1>1 DEF Once
  <2>2. first \in 1..Len(text) /\ Len(old) \in Nat
    BY <2>1 DEF Places, Text
  <2> HIDE DEF first
  <2>3. Splice(text, first, Len(old), new) \in Text
    BY <2>2, SpliceType
  <2> QED  BY <1>1, <2>3 DEF ReplaceUnique, first
<1>2. CASE ~(old # <<>> /\ Once(text, old))
  BY <1>2 DEF ReplaceUnique
<1> QED  BY <1>1, <1>2

LEMMA MethodTextType ==
  ASSUME NEW text \in Text, NEW m
  PROVE  MethodText(text, m) \in Text
<1> DEFINE spans == {s \in (1..Len(text)) \X (1..Len(text)) :
                       /\ {text[s[1]], text[s[2]]} \subseteq MethodWords[m]
                       /\ \A i \in DOMAIN text : text[i] \in MethodWords[m] => i \in s[1]..s[2]}
           span == CHOOSE s \in spans : TRUE
<1>1. CASE spans # {}
  <2>1. span \in spans
    BY <1>1
  <2>2. span[1] \in 1..Len(text) /\ span[2] \in 1..Len(text)
    BY <2>1
  <2> HIDE DEF span
  <2>3. span[1] - 1 \in Nat /\ span[2] \in 0..Len(text) /\ span[1] - 1 + 1 = span[1]
    BY <2>2 DEF Text
  <2>4. SubSeq(text, span[1], span[2]) \in Text
    BY <2>3, Stretch
  <2> QED  BY <1>1, <2>4 DEF MethodText, span
<1>2. CASE spans = {}
  BY <1>2, EmptySeq DEF MethodText, Text
<1> QED  BY <1>1, <1>2

LEMMA RangeType ==
  ASSUME NEW text \in Text, NEW start \in Int, NEW end \in Int, NEW new \in Text
  PROVE  ReplaceLineRange(text, start, end, new) \in Text \cup {NoText}
<1> DEFINE body == Trim(text)
           count == LineOf(body, Len(body) + 1)
           before == SubSeq(body, 1, EndOf(body, start - 1))
           after == SubSeq(body, EndOf(body, end) + 1, Len(body))
           lines == CASE end < count /\ new # <<>> -> before \o Trim(new) \o <<Break>> \o after
                      [] end < count /\ new = <<>> -> before \o after
                      [] end = count /\ new # <<>> -> before \o Trim(new)
                      [] end = count /\ new = <<>> -> Trim(before)
<1>1. body \in Text /\ Trim(new) \in Text /\ Len(body) \in Nat
  BY Trimmed DEF Text
<1>2. count \in Int
  BY <1>1, LineOfType
<1> HIDE DEF body
<1>3. EndOf(body, start - 1) \in 0..Len(body) /\ EndOf(body, end) \in 0..Len(body)
  BY <1>1, EndOfBounds
<1>4. SubSeq(body, 0 + 1, EndOf(body, start - 1)) \in Text
  BY <1>1, <1>3, Stretch
<1>5. before \in Text /\ after \in Text
  BY <1>1, <1>3, <1>4, Stretch
<1>6. <<Break>> \in Text
  BY DEF Text, Symbols
<1>7. \A s, t \in Text : s \o t \in Text
  BY ConcatProperties DEF Text
<1> HIDE DEF count, before, after
<1>8. CASE 1 <= start /\ start <= end /\ end <= count
  <2>1. Trim(before) \in Text
    BY <1>5, Trimmed
  <2>2. end < count \/ end = count
    BY <1>2, <1>8
  <2>3. before \o Trim(new) \in Text /\ before \o after \in Text
    BY <1>1, <1>5, <1>7
  <2>4. before \o Trim(new) \o <<Break>> \o after \in Text
    BY <1>5, <1>6, <1>7, <2>3
  <2>5. lines \in Text
    <3>1. CASE end < count
      BY <1>2, <2>3, <2>4, <3>1
    <3>2. CASE end = count
      BY <1>2, <2>1, <2>3, <3>2
    <3> QED  BY <2>2, <3>1, <3>2
  <2> HIDE DEF lines
  <2>6. (IF EndsInBreak(text) THEN lines \o <<Break>> ELSE lines) \in Text
    BY <1>6, <1>7, <2>5
  <2> QED  BY <1>8, <2>6 DEF ReplaceLineRange, lines, before, after, count, body
<1>9. CASE ~(1 <= start /\ start <= end /\ end <= count)
  BY <1>9 DEF ReplaceLineRange, count, body
<1> QED  BY <1>8, <1>9

LEMMA EditType ==
  ASSUME NEW text \in Text, NEW req \in Requests, NEW method \in Text
  PROVE  ApplyModuleEdit(text, req, method) \in Text \cup {NoText}
<1>1. /\ req.mode \in Modes /\ req.source \in Text /\ req.old \in Text
      /\ req.start \in Int /\ req.end \in Int
  BY WriteAssumption DEF Request
<1>2. /\ text \o req.source \in Text /\ req.source \o req.old \in Text
      /\ req.old \o req.source \in Text
  BY <1>1, ConcatProperties DEF Text
<1>3. /\ ReplaceUnique(text, req.old, req.source) \in Text \cup {NoText}
      /\ ReplaceUnique(text, req.old, req.source \o req.old) \in Text \cup {NoText}
      /\ ReplaceUnique(text, req.old, req.old \o req.source) \in Text \cup {NoText}
      /\ ReplaceUnique(text, method, req.source) \in Text \cup {NoText}
  BY <1>1, <1>2, ReplaceUniqueType
<1>4. ReplaceLineRange(text, req.start, req.end, req.source) \in Text \cup {NoText}
  BY <1>1, RangeType
<1> QED  BY <1>1, <1>2, <1>3, <1>4 DEF ApplyModuleEdit, Modes

\* A guarded edit leaves half of the lines.
LEMMA HalfIsKept ==
  ASSUME NEW before \in Text, NEW after \in Text, ~TooMuchRemoved(before, after)
  PROVE  2 * NonEmptyLines(after) >= NonEmptyLines(before)
<1>1. ASSUME NEW text \in Text  PROVE NonEmptyLines(text) \in Nat
  <2> DEFINE S == {LineOf(text, i) : i \in {j \in DOMAIN text : text[j] # Break}}
  <2>1. S \in SUBSET (1..Len(text) + 1)
    BY LineOfType
  <2>2. IsFiniteSet(1..Len(text) + 1)
    BY FS_Interval DEF Text
  <2> HIDE DEF S
  <2>3. Cardinality(S) \in Nat
    BY <2>1, <2>2, FS_Subset, FS_CardinalityType
  <2> QED  BY <2>3 DEF NonEmptyLines, S
<1> QED  BY <1>1 DEF TooMuchRemoved

-----------------------------------------------------------------------------
(* Types *)

\* The page a call asks for, and what comes over of it.
LEMMA PageType ==
  ASSUME NEW text \in Text, NEW from \in Nat
  PROVE  /\ EndOf(text, from) \in 0..Len(text) /\ EndOf(text, from + PageSize) \in EndOf(text, from)..Len(text)
         /\ SubSeq(text, EndOf(text, from) + 1, EndOf(text, from + PageSize)) \in Text
         /\ Chunk(text, from) \in Text
<1>1. from + PageSize \in Nat /\ from <= from + PageSize
  BY WriteAssumption
<1>2. /\ EndOf(text, from) \in 0..Len(text) /\ EndOf(text, from + PageSize) \in 0..Len(text)
      /\ EndOf(text, from) <= EndOf(text, from + PageSize)
  BY <1>1, EndOfBounds
<1>3. SubSeq(text, EndOf(text, from) + 1, EndOf(text, from + PageSize)) \in Text
  BY <1>2, Stretch
<1> QED  BY <1>2, <1>3, Trimmed DEF Chunk

\* What one call does is of its type when what it leaves of its own is.
LEMMA TypeOne ==
  ASSUME TypeInv, NEW c \in Calls, edt' = edt, module' \in Text, backups \subseteq backups', backups' \subseteq Text,
         pc' \in [Calls -> States], DOMAIN job' = Calls,
         \A d \in Calls \ {c} : pc'[d] = pc[d] /\ job'[d] = job[d],
         Typed(c)', edits' \in 0..MaxEdits, calls' \in 0..MaxCalls, returned' \subseteq Calls
  PROVE  TypeInv'
BY DEF TypeInv, Typed

LEMMA ReturnTypes ==
  ASSUME TypeInv, NEW c \in Calls, Return(c)
  PROVE  /\ pc' \in [Calls -> States] /\ DOMAIN job' = Calls /\ Typed(c)'
         /\ \A d \in Calls \ {c} : pc'[d] = pc[d] /\ job'[d] = job[d]
         /\ pc'[c] = "idle"
BY DEF TypeInv, Return, Typed, States

LEMMA ChangeTypes ==
  ASSUME TypeInv, NEW text, Change(text)
  PROVE  returned' \subseteq Calls /\ module' = text
BY DEF TypeInv, Change

LEMMA TypeStep == TypeInv /\ [Next]_vars => TypeInv'
<1> SUFFICES ASSUME TypeInv, [Next]_vars PROVE TypeInv'
  OBVIOUS
<1>a. /\ edt \in Manner /\ module \in Text /\ backups \subseteq Text /\ pc \in [Calls -> States] /\ DOMAIN job = Calls
      /\ edits \in 0..MaxEdits /\ calls \in 0..MaxCalls /\ returned \subseteq Calls
      /\ \A c \in Calls : Typed(c)
  BY DEF TypeInv
<1>1. ASSUME NEW c \in Calls, NEW req \in Requests, Start(c, req)  PROVE TypeInv'
  <2>1. pc[c] = "idle" /\ pc' = [pc EXCEPT ![c] = "read"] /\ job' = [job EXCEPT ![c].req = req]
        /\ calls' = calls + 1 /\ calls < MaxCalls
        /\ returned' = returned \ {c} /\ UNCHANGED <<edt, module, backups, edits>>
    BY <1>1 DEF Start
  <2>2. job'[c] = [NoJob EXCEPT !.req = req]
    BY <1>a, <2>1 DEF Typed
  <2>3. job'[c] \in Job /\ job'[c].page < MaxPages
    <3>1. job'[c] = [req |-> req, page |-> 0, read |-> <<>>, hash |-> NoText, updated |-> NoText]
      BY <2>2 DEF NoJob
    <3>2. <<>> \in Text
      BY EmptySeq DEF Text
    <3> QED  BY <3>1, <3>2, WriteAssumption DEF Job
  <2>4. calls' \in 0..MaxCalls
    BY <1>a, <2>1, WriteAssumption
  <2>5. pc' \in [Calls -> States] /\ pc'[c] = "read"
    BY <1>a, <2>1 DEF States
  <2> QED  BY <1>a, <2>1, <2>3, <2>4, <2>5, TypeOne DEF Typed
<1>2. ASSUME NEW c \in Calls, ReadPage(c)  PROVE TypeInv'
  <2>1. pc[c] = "read" /\ job[c] \in Job /\ job[c].page < MaxPages
    BY <1>2, <1>a DEF ReadPage, Typed
  <2>2. PICK read, hash, goesOn :
          /\ goesOn \in BOOLEAN /\ read = job[c].read \o Chunk(module, job[c].page * PageSize)
          /\ hash \in {job[c].hash, module, read} /\ (goesOn => job[c].page + 1 < MaxPages)
          /\ job' = [job EXCEPT ![c] = [req |-> @.req, updated |-> @.updated, page |-> @.page + 1,
                                         read |-> read, hash |-> hash]]
          /\ pc' = IF goesOn THEN pc ELSE [pc EXCEPT ![c] = "edit"]
    <3> DEFINE from == job[c].page * PageSize
               page == job[c].read \o Chunk(module, from)
               first == IF job[c].hash # NoText \/ ~edt.hash THEN job[c].hash ELSE module
               more == EndOf(module, from + PageSize) < Len(module) /\ edt.next /\ job[c].page + 1 < MaxPages
               hash == IF more \/ first # NoText THEN first ELSE page
    <3>1. /\ job' = [job EXCEPT ![c] = [req |-> @.req, updated |-> @.updated, page |-> @.page + 1,
                                         read |-> page, hash |-> hash]]
          /\ pc' = IF more THEN pc ELSE [pc EXCEPT ![c] = "edit"]
      BY <1>2 DEF ReadPage
    <3>2. hash \in {job[c].hash, module, page} /\ more \in BOOLEAN /\ (more => job[c].page + 1 < MaxPages)
      OBVIOUS
    <3>3. page = job[c].read \o Chunk(module, job[c].page * PageSize)
      OBVIOUS
    <3> HIDE DEF page, hash, more
    <3> QED  BY <3>1, <3>2, <3>3, Zenon
  <2>3. job[c].page \in Nat /\ job[c].page + 1 \in 0..MaxPages /\ job[c].page * PageSize \in Nat
    BY <2>1, WriteAssumption DEF Job
  <2>4. read \in Text
    BY <1>a, <2>1, <2>2, <2>3, PageType, ConcatProperties DEF Job, Text
  <2>5. job'[c] = [req |-> job[c].req, updated |-> job[c].updated, page |-> job[c].page + 1,
                   read |-> read, hash |-> hash]
    BY <1>a, <2>2
  <2>6. job'[c] \in Job
    BY <1>a, <2>1, <2>2, <2>3, <2>4, <2>5 DEF Job
  <2>7. /\ pc' \in [Calls -> States] /\ pc'[c] \in {"read", "edit"} /\ DOMAIN job' = Calls
        /\ pc'[c] = "read" => goesOn
        /\ \A d \in Calls \ {c} : pc'[d] = pc[d] /\ job'[d] = job[d]
    BY <1>a, <2>1, <2>2 DEF States
  <2>8. Typed(c)'
    BY <2>2, <2>5, <2>6, <2>7 DEF Typed
  <2>9. UNCHANGED <<edt, module, backups, edits, calls, returned>>
    BY <1>2 DEF ReadPage
  <2> QED  BY <1>a, <2>7, <2>8, <2>9, TypeOne
<1>3. ASSUME NEW c \in Calls, Decide(c)  PROVE TypeInv'
  <2> DEFINE updated == ApplyModuleEdit(job[c].read, job[c].req, MethodText(module, job[c].req.method))
  <2>1. /\ pc[c] = "edit" /\ updated # NoText /\ updated # job[c].read
        /\ pc' = [pc EXCEPT ![c] = "backup"] /\ job' = [job EXCEPT ![c].updated = updated]
        /\ UNCHANGED <<edt, module, backups, edits, calls, returned>>
    BY <1>3 DEF Decide
  <2>2. job[c] \in Job
    BY <1>a, <2>1 DEF Typed
  <2>3. updated \in Text
    BY <1>a, <2>1, <2>2, MethodTextType, EditType DEF Job
  <2> HIDE DEF updated
  <2>4. job'[c] \in Job /\ job'[c].updated \in Text \ {job'[c].read}
    BY <1>a, <2>1, <2>2, <2>3 DEF Job
  <2>5. pc' \in [Calls -> States] /\ pc'[c] = "backup"
    BY <1>a, <2>1 DEF States
  <2> QED  BY <1>a, <2>1, <2>4, <2>5, TypeOne DEF Typed
<1>4. ASSUME NEW c \in Calls, Stop(c) \/ BackupFail(c) \/ WriteRefused(c)  PROVE TypeInv'
  <2>1. Return(c) /\ UNCHANGED <<edt, module, backups, edits, calls, returned>>
    BY <1>4 DEF Stop, BackupFail, WriteRefused
  <2> QED  BY <1>a, <2>1, ReturnTypes, TypeOne
<1>5. ASSUME NEW c \in Calls, Backup(c)  PROVE TypeInv'
  <2>1. pc[c] = "backup" /\ pc' = [pc EXCEPT ![c] = "write"] /\ backups' = backups \cup {job[c].read}
        /\ UNCHANGED <<edt, module, job, edits, calls, returned>>
    BY <1>5 DEF Backup
  <2>2. job[c].read \in Text /\ job[c] \in Job /\ job[c].updated \in Text \ {job[c].read}
    BY <1>a, <2>1 DEF Typed, Job
  <2>3. pc' \in [Calls -> States] /\ pc'[c] = "write"
    BY <1>a, <2>1 DEF States
  <2> QED  BY <1>a, <2>1, <2>2, <2>3, TypeOne DEF Typed
<1>6. ASSUME NEW c \in Calls, Write(c)  PROVE TypeInv'
  <2>1. Return(c) /\ Change(job[c].updated) /\ pc[c] = "write" /\ UNCHANGED <<edt, backups, edits, calls>>
    BY <1>6 DEF Write
  <2>2. job[c].updated \in Text
    BY <1>a, <2>1 DEF Typed
  <2> QED  BY <1>a, <2>1, <2>2, ReturnTypes, ChangeTypes, TypeOne
<1>7. CASE Edit
  <2>1. PICK text \in Texts \ {module} : Change(text)
    BY <1>7 DEF Edit
  <2>2. edits' \in 0..MaxEdits
    BY <1>7, <1>a, WriteAssumption DEF Edit
  <2>3. text \in Text
    BY WriteAssumption
  <2> QED  BY <1>7, <1>a, <2>1, <2>2, <2>3, ChangeTypes DEF Edit, TypeInv, Typed
<1>8. CASE UNCHANGED vars
  BY <1>8 DEF vars, TypeInv, Typed
<1> QED  BY <1>1, <1>2, <1>3, <1>4, <1>5, <1>6, <1>7, <1>8 DEF Next

LEMMA WriteTypeInit == Init => TypeInv /\ WriteInv
BY WriteAssumption DEF Init, TypeInv, Typed, States, WriteInv, Faithful

-----------------------------------------------------------------------------
(* What was read and decided *)

\* A call that does nothing while the module stays, or becomes another text, stays
\* faithful unless it is one of those that see a text return.
LEMMA StaysFaithful ==
  ASSUME NEW d \in Calls, Faithful(d), edt' = edt, pc'[d] = pc[d], job'[d] = job[d],
         module' = module \/ (pc[d] # "idle" => job[d].hash # module')
  PROVE  Faithful(d)'
BY DEF Faithful, Decided, Reading, Received, Reached, Whole, EndOf, LineOf

LEMMA OneMoves ==
  ASSUME TypeInv, WriteInv, NEW c \in Calls, edt' = edt, \A d \in Calls \ {c} : pc'[d] = pc[d] /\ job'[d] = job[d],
         module' = module, returned \ {c} \subseteq returned', c \notin returned' => Faithful(c)'
  PROVE  WriteInv'
<1>1. ASSUME NEW d \in Calls \ returned', d # c  PROVE Faithful(d)'
  BY <1>1, StaysFaithful DEF WriteInv
<1> QED  BY <1>1 DEF WriteInv

\* Where a call is while the module is the text of the hash it has or gets.
LEMMA ReadSoFar ==
  ASSUME TypeInv, WriteInv, NEW c \in Calls \ returned, pc[c] = "read", edt.hash,
         job[c].hash \in {NoText, module}
  PROVE  Reading(c)
<1>1. CASE job[c].hash = NoText
  <2>1. job[c].page = 0 /\ job[c].read = <<>>
    BY <1>1 DEF WriteInv, Faithful
  <2>2. job[c].page * PageSize = 0
    BY <2>1, WriteAssumption
  <2>3. EndOf(module, 0) = 0
    BY NoLines DEF TypeInv
  <2>4. SubSeq(module, 1, 0) = <<>>
    BY SubSeqEmpty
  <2> QED  BY <2>1, <2>2, <2>3, <2>4, LostFromNone DEF Reading
<1>2. CASE job[c].hash = module
  BY <1>2 DEF WriteInv, Faithful
<1> QED  BY <1>1, <1>2

\* The next page continues what is there, as long as the module is the same.
LEMMA NextPage ==
  ASSUME TypeInv, NEW c \in Calls, job[c] \in Job, Reading(c),
         NEW from, from = job[c].page * PageSize,
         NEW upTo, upTo = EndOf(module, from + PageSize),
         NEW read, read = job[c].read \o Chunk(module, from)
  PROVE  /\ OnlyBreaksLost(read, SubSeq(module, 1, upTo))
         /\ edt.break => read = SubSeq(module, 1, upTo)
<1> DEFINE k == EndOf(module, from)
           before == SubSeq(module, 1, k)
           page == SubSeq(module, k + 1, upTo)
<1>1. module \in Text /\ from \in Nat /\ job[c].read \in Text
  BY WriteAssumption DEF TypeInv, Job
<1>2. k \in 0..Len(module) /\ upTo \in k..Len(module) /\ page \in Text /\ Chunk(module, from) \in Text
  BY <1>1, PageType
<1>3. before \in Text
  <2>1. SubSeq(module, 0 + 1, k) \in Text
    BY <1>1, <1>2, Stretch
  <2> QED  BY <2>1
<1>4. before \o page = SubSeq(module, 1, upTo)
  BY <1>1, <1>2, ConcatAdjacentSubSeq DEF Text
<1>5. OnlyBreaksLost(Chunk(module, from), page) /\ (edt.break => Chunk(module, from) = page)
  BY <1>2, LostFromPage DEF Chunk
<1>6. OnlyBreaksLost(job[c].read, before) /\ (edt.break => job[c].read = before)
  BY DEF Reading
<1> HIDE DEF k, before, page
<1>7. OnlyBreaksLost(job[c].read \o Chunk(module, from), before \o page)
  BY <1>1, <1>2, <1>3, <1>5, <1>6, LostFromBoth
<1> QED  BY <1>4, <1>5, <1>6, <1>7

\* After the last page the pages EDT names are reached.
LEMMA AllReached ==
  ASSUME TypeInv, NEW c \in Calls, job[c] \in Job, Reading(c), job[c].page < MaxPages,
         NEW from, from = job[c].page * PageSize,
         ~(EndOf(module, from + PageSize) < Len(module) /\ edt.next /\ job[c].page + 1 < MaxPages)
  PROVE  Reached(module) = SubSeq(module, 1, EndOf(module, from + PageSize))
<1> DEFINE total == PageSize * (IF edt.next THEN MaxPages ELSE 1)
           upTo == EndOf(module, from + PageSize)
<1>1. module \in Text /\ from \in Nat /\ job[c].page \in Nat /\ job[c].page + 1 <= MaxPages /\ Len(module) \in Nat
  BY WriteAssumption DEF TypeInv, Job, Text
<1>2. from + PageSize = (job[c].page + 1) * PageSize
  BY <1>1, WriteAssumption
<1>3. CASE ~edt.next
  <2>1. job[c].page = 0
    BY <1>3 DEF Reading
  <2>2. from + PageSize = total
    BY <1>3, <2>1, WriteAssumption
  <2> QED  BY <2>2 DEF Reached
<1>4. CASE edt.next /\ job[c].page + 1 = MaxPages
  <2>1. from + PageSize = total
    BY <1>1, <1>2, <1>4, WriteAssumption
  <2> QED  BY <2>1 DEF Reached
<1>5. CASE edt.next /\ ~(upTo < Len(module))
  <2>1. from + PageSize \in Int /\ total \in Int /\ from + PageSize <= total
    <3>1. \A x, y, z \in Nat : x <= y => x * z <= z * y
      OBVIOUS
    <3>2. job[c].page + 1 \in Nat /\ MaxPages \in Nat /\ PageSize \in Nat
      BY <1>1, WriteAssumption
    <3>3. (job[c].page + 1) * PageSize <= PageSize * MaxPages
      BY <1>1, <3>1, <3>2
    <3> QED  BY <1>1, <1>2, <1>5, <3>2, <3>3
  <2> HIDE DEF total
  <2>2. /\ upTo \in 0..Len(module) /\ EndOf(module, total) \in 0..Len(module)
        /\ upTo <= EndOf(module, total)
    BY <1>1, <2>1, EndOfBounds
  <2>3. upTo = EndOf(module, total)
    BY <1>1, <1>5, <2>2
  <2> QED  BY <2>3 DEF Reached, total
<1>6. job[c].page + 1 = MaxPages \/ job[c].page + 1 < MaxPages
  BY <1>1, WriteAssumption
<1> QED  BY <1>3, <1>4, <1>5, <1>6

\* The text of the last page is what the call may take the module for.
LEMMA LastPage ==
  ASSUME TypeInv, NEW c \in Calls, job[c] \in Job, Reading(c), job[c].page < MaxPages, edt.hash,
         NEW from, from = job[c].page * PageSize,
         ~(EndOf(module, from + PageSize) < Len(module) /\ edt.next /\ job[c].page + 1 < MaxPages),
         NEW read, read = job[c].read \o Chunk(module, from)
  PROVE  Received(read)
<1> DEFINE upTo == EndOf(module, from + PageSize)
<1>1. module \in Text /\ from \in Nat /\ job[c].page \in Nat /\ job[c].read \in Text /\ Len(module) \in Nat
  BY WriteAssumption DEF TypeInv, Job, Text
<1>2. Reached(module) = SubSeq(module, 1, upTo)
  BY AllReached
<1>3. OnlyBreaksLost(read, Reached(module)) /\ (edt.break => read = Reached(module))
  BY <1>2, NextPage
<1>4. ASSUME Whole(module), ~edt.break  PROVE read = module
  <2>1. EndOf(module, PageSize) = Len(module) /\ ~EndsInBreak(module)
    BY <1>4 DEF Whole
  <2>2. job[c].page = 0
    <3>1. SUFFICES ASSUME job[c].page # 0 PROVE FALSE
      OBVIOUS
    <3>2. PageSize <= from
      <4>1. \A x, y \in Nat : x # 0 => y <= x * y
        OBVIOUS
      <4> QED  BY <1>1, <3>1, <4>1, WriteAssumption
    <3>3. EndOf(module, PageSize) <= EndOf(module, from) /\ EndOf(module, from) \in 0..Len(module)
      BY <1>1, <3>2, EndOfBounds, WriteAssumption
    <3>4. EndOf(module, from) < Len(module)
      BY <3>1 DEF Reading
    <3> QED  BY <1>1, <2>1, <3>3, <3>4
  <2>3. from = 0 /\ from + PageSize = PageSize /\ job[c].read = <<>>
    BY <2>2, WriteAssumption DEF Reading
  <2>4. EndOf(module, from) = 0
    BY <1>1, <2>3, NoLines
  <2>5. SubSeq(module, 0 + 1, Len(module)) = module
    BY <1>1, SubSeqFull DEF Text
  <2>6. Chunk(module, from) = module
    BY <1>4, <2>1, <2>3, <2>4, <2>5 DEF Chunk, Trim
  <2> QED  BY <1>1, <2>3, <2>6, ConcatEmptySeq DEF Text
<1>5. Whole(module) => Reached(module) = module
  BY DEF Whole
<1> QED  BY <1>3, <1>4, <1>5 DEF Received

LEMMA ReadFaithful ==
  ASSUME TypeInv, WriteInv, NEW c \in Calls \ returned, ReadPage(c)
  PROVE  Faithful(c)'
<1> DEFINE from == job[c].page * PageSize
           read == job[c].read \o Chunk(module, from)
           hash == IF job[c].hash # NoText \/ ~edt.hash THEN job[c].hash ELSE module
           goesOn == EndOf(module, from + PageSize) < Len(module) /\ edt.next /\ job[c].page + 1 < MaxPages
<1>1. pc[c] = "read" /\ module \in Text /\ job[c] \in Job /\ job[c].page < MaxPages /\ module # NoText
  BY WriteAssumption DEF ReadPage, TypeInv, Typed
<1>2. /\ job'[c].page = job[c].page + 1 /\ job'[c].read = read
      /\ job'[c].hash = IF goesOn \/ hash # NoText THEN hash ELSE read
      /\ module' = module /\ edt' = edt
      /\ pc'[c] = IF goesOn THEN "read" ELSE "edit"
  BY <1>1 DEF ReadPage, TypeInv
<1>3. job[c].hash # NoText => edt.hash
  BY <1>1 DEF WriteInv, Faithful
<1>4. CASE ~edt.hash
  <2>1. hash = NoText
    BY <1>3, <1>4
  <2>2. CASE goesOn
    <3>1. job'[c].hash = NoText /\ pc'[c] = "read" /\ ~edt'.hash /\ module' # NoText
      BY <1>1, <1>2, <1>4, <2>1, <2>2
    <3> QED  BY <3>1 DEF Faithful
  <2>3. CASE ~goesOn
    <3>1. job'[c].hash = job'[c].read /\ pc'[c] = "edit" /\ ~edt'.hash
      BY <1>2, <1>4, <2>1, <2>3
    <3>2. (job[c].hash = module => Received(job[c].read))'
      BY <3>1 DEF Received
    <3> QED  BY <3>1, <3>2 DEF Faithful
  <2> QED  BY <2>2, <2>3
<1>5. CASE edt.hash /\ hash # module
  <2>1. hash # NoText
    BY <1>1, <1>5
  <2>2. job'[c].hash # NoText /\ job'[c].hash # module' /\ edt'.hash /\ pc'[c] \in {"read", "edit"}
    BY <1>2, <1>5, <2>1
  <2> QED  BY <2>2 DEF Faithful
<1>6. CASE edt.hash /\ hash = module
  <2>1. job[c].hash \in {NoText, module}
    BY <1>6
  <2>2. Reading(c)
    BY <1>1, <1>6, <2>1, ReadSoFar
  <2>3. job'[c].hash = module' /\ edt'.hash /\ job'[c].hash # NoText
    BY <1>1, <1>2, <1>6
  <2>4. CASE goesOn
    <3>1. job'[c].page * PageSize = from + PageSize /\ job'[c].page # 0
      BY <1>1, <1>2, WriteAssumption DEF Job
    <3>2. edt.next /\ EndOf(module, from + PageSize) < Len(module)
      BY <2>4
    <3>3. /\ OnlyBreaksLost(read, SubSeq(module, 1, EndOf(module, from + PageSize)))
          /\ edt.break => read = SubSeq(module, 1, EndOf(module, from + PageSize))
      BY <1>1, <2>2, NextPage
    <3>4. pc'[c] = "read"
      BY <1>2, <2>4
    <3> HIDE DEF from, read
    <3>5. Reading(c)'
      BY <1>2, <3>1, <3>2, <3>3 DEF Reading, EndOf, LineOf
    <3> QED  BY <2>3, <3>4, <3>5 DEF Faithful
  <2>5. CASE ~goesOn
    <3>1. Received(read)
      BY <1>1, <1>6, <2>2, <2>5, LastPage
    <3>2. pc'[c] = "edit"
      BY <1>2, <2>5
    <3> HIDE DEF read
    <3>3. Received(job[c].read)'
      BY <1>2, <3>1 DEF Received, Reached, Whole, EndOf, LineOf
    <3> QED  BY <3>2, <3>3 DEF Faithful
  <2> QED  BY <2>4, <2>5
<1> QED  BY <1>4, <1>5, <1>6

LEMMA WriteStep == TypeInv /\ WriteInv /\ [Next]_vars => WriteInv'
<1> SUFFICES ASSUME TypeInv, WriteInv, [Next]_vars PROVE WriteInv'
  OBVIOUS
<1>a. pc \in [Calls -> States] /\ DOMAIN job = Calls /\ \A c \in Calls : Typed(c)
  BY DEF TypeInv
<1>1. ASSUME NEW c \in Calls, NEW req \in Requests, Start(c, req)  PROVE WriteInv'
  <2>1. /\ pc'[c] = "read" /\ job'[c].hash = NoText /\ job'[c].read = <<>> /\ job'[c].page = 0 /\ UNCHANGED <<edt, module>>
        /\ returned' = returned \ {c} /\ \A d \in Calls \ {c} : pc'[d] = pc[d] /\ job'[d] = job[d]
    BY <1>1, <1>a DEF Start, Typed, NoJob
  <2>2. module' # NoText
    BY <2>1, WriteAssumption DEF TypeInv
  <2> QED  BY <2>1, <2>2, OneMoves DEF Faithful
<1>2. ASSUME NEW c \in Calls, ReadPage(c)  PROVE WriteInv'
  <2>1. edt' = edt /\ module' = module /\ returned' = returned /\ \A d \in Calls \ {c} : pc'[d] = pc[d] /\ job'[d] = job[d]
    BY <1>2, <1>a DEF ReadPage
  <2> QED  BY <1>2, <2>1, OneMoves, ReadFaithful
<1>3. ASSUME NEW c \in Calls, Decide(c)  PROVE WriteInv'
  <2> DEFINE req == job[c].req
             updated == ApplyModuleEdit(job[c].read, req, MethodText(module, req.method))
  <2>1. /\ pc[c] = "edit" /\ pc' = [pc EXCEPT ![c] = "backup"] /\ job' = [job EXCEPT ![c].updated = updated]
        /\ UNCHANGED <<edt, module, returned>>
        /\ req.expectedHash \in {NoText, job[c].hash} /\ req.expectedSource \in {NoText, job[c].read}
        /\ TooMuchRemoved(job[c].read, updated) => req.allowLargeDeletion
    BY <1>3 DEF Decide
  <2>2. job[c] \in Job
    BY <1>a, <2>1 DEF Typed
  <2> HIDE DEF updated
  <2>3. /\ job'[c].req = req /\ job'[c].updated = updated /\ job'[c].read = job[c].read
        /\ job'[c].hash = job[c].hash /\ pc'[c] = "backup"
        /\ \A d \in Calls \ {c} : pc'[d] = pc[d] /\ job'[d] = job[d]
    BY <1>a, <2>1, <2>2 DEF Job
  <2>4. ASSUME c \notin returned, job[c].hash = module  PROVE Received(job[c].read)' /\ Decided(c)'
    <3>1. Received(job[c].read)
      BY <2>1, <2>4 DEF WriteInv, Faithful
    <3>2. Received(job[c].read)'
      BY <2>1, <2>3, <3>1 DEF Received, Reached, Whole, EndOf, LineOf
    <3> QED  BY <2>1, <2>3, <2>4, <3>2 DEF Decided, updated
  <2> QED  BY <2>1, <2>3, <2>4, OneMoves DEF Faithful
<1>4. ASSUME NEW c \in Calls, Stop(c) \/ BackupFail(c) \/ WriteRefused(c)  PROVE WriteInv'
  <2>1. Return(c) /\ UNCHANGED <<edt, module, returned>>
    BY <1>4 DEF Stop, BackupFail, WriteRefused
  <2> QED  BY <2>1, ReturnTypes, OneMoves DEF Faithful
<1>5. ASSUME NEW c \in Calls, Backup(c)  PROVE WriteInv'
  <2>1. pc[c] = "backup" /\ pc' = [pc EXCEPT ![c] = "write"] /\ UNCHANGED <<edt, module, job, returned>>
    BY <1>5 DEF Backup
  <2>2. pc'[c] = "write" /\ \A d \in Calls \ {c} : pc'[d] = pc[d] /\ job'[d] = job[d]
    BY <1>a, <2>1
  <2>3. c \notin returned => Faithful(c)
    BY DEF WriteInv
  <2>4. c \notin returned => Faithful(c)'
    BY <2>1, <2>2, <2>3 DEF Faithful, Decided, Received, Reached, Whole, EndOf, LineOf
  <2> QED  BY <2>1, <2>2, <2>4, OneMoves
<1>6. ASSUME NEW c \in Calls, Write(c)  PROVE WriteInv'
  <2>1. Return(c) /\ Change(job[c].updated) /\ edt' = edt
    BY <1>6 DEF Write
  <2>2. pc'[c] = "idle" /\ \A d \in Calls \ {c} : pc'[d] = pc[d] /\ job'[d] = job[d]
    BY <2>1, ReturnTypes
  <2>3. ASSUME NEW d \in Calls \ returned', d # c  PROVE Faithful(d)'
    BY <2>1, <2>2, <2>3, StaysFaithful DEF WriteInv, Change
  <2> QED  BY <2>2, <2>3 DEF WriteInv, Faithful
<1>7. CASE Edit
  <2>1. PICK text \in Texts \ {module} : Change(text)
    BY <1>7 DEF Edit
  <2>2. ASSUME NEW d \in Calls \ returned'  PROVE Faithful(d)'
    BY <1>7, <2>1, StaysFaithful DEF WriteInv, Change, Edit
  <2> QED  BY <2>2 DEF WriteInv
<1>8. CASE UNCHANGED vars
  BY <1>8, StaysFaithful DEF vars, WriteInv
<1> QED  BY <1>1, <1>2, <1>3, <1>4, <1>5, <1>6, <1>7, <1>8 DEF Next

LEMMA WritesHold == Spec => [](TypeInv /\ WriteInv)
BY WriteTypeInit, TypeStep, WriteStep, PTL DEF Spec

-----------------------------------------------------------------------------
\* Every variable has its type, and a call about to write has its backup and a change.
THEOREM WriteTypes == Spec => []TypeOK
<1>1. TypeInv => TypeOK
  BY DEF TypeInv, Typed, TypeOK, States, Job
<1> QED  BY <1>1, WritesHold, PTL

\* The call that writes.
LEMMA Writer ==
  ASSUME TypeInv, WriteInv, [Next]_vars, NEW c \in Calls \ returned, Writes(c)
  PROVE  /\ Received(job[c].read) /\ module' = job[c].updated /\ Decided(c) /\ job[c] \in Job
         /\ job[c].read \in backups /\ job[c].updated \in Text
<1>1. pc[c] = "write" /\ pc'[c] # pc[c] /\ module' # module
  BY DEF Writes
<1>2. ~Edit /\ ~UNCHANGED vars
  BY <1>1 DEF Edit, vars
<1>3. PICK d \in Calls : Write(d)
  BY <1>1, <1>2 DEF Next, Start, ReadPage, Decide, Stop, Backup, BackupFail, WriteRefused
<1>4. d = c
  BY <1>1, <1>3, ReturnTypes DEF Write
<1>5. module' = job[c].updated /\ job[c].hash = module
  BY <1>3, <1>4 DEF Write, Change
<1>6. Received(job[c].read) /\ Decided(c)
  BY <1>1, <1>5 DEF WriteInv, Faithful
<1>7. /\ job[c] \in Job /\ job[c].read \in backups /\ job[c].updated \in Text
  BY <1>1 DEF TypeInv, Typed
<1> QED  BY <1>5, <1>6, <1>7

\* A write is the requested edit of the text it replaces, which came over whole or but
\* for breaks of lines, and of the text that was expected, however many pages were read
\* and whoever changed the module meanwhile.
THEOREM AskedTheorem == Spec => WritesWhatWasAsked
<1>1. TypeInv /\ WriteInv /\ [Next]_vars =>
        [\A c \in Calls \ returned : Writes(c) =>
           LET req == job[c].req
               text == job[c].read IN
           /\ Received(text)
           /\ module' = ApplyModuleEdit(text, req, MethodText(module, req.method))
           /\ req.expectedHash \in {NoText, module} /\ req.expectedSource \in {NoText, text}]_vars
  BY Writer DEF Decided
<1> QED  BY <1>1, WritesHold, PTL DEF Spec, WritesWhatWasAsked

\* Of the text a write replaces there is a backup, as good as what was read of it, half
\* of which is left unless more was allowed to go.
THEOREM CareTheorem == Spec => OverwritesWithCare
<1>1. ASSUME TypeInv, WriteInv, [Next]_vars, NEW c \in Calls \ returned, Writes(c)
      PROVE  \E text \in backups :
               /\ Received(text)
               /\ job[c].req.allowLargeDeletion \/ 2 * NonEmptyLines(module') >= NonEmptyLines(text)
  <2> DEFINE text == job[c].read
  <2>1. text \in backups /\ Received(text) /\ text \in Text /\ module' \in Text
    BY <1>1, Writer DEF Job
  <2>2. TooMuchRemoved(text, module') => job[c].req.allowLargeDeletion
    BY <1>1, Writer DEF Decided
  <2> HIDE DEF text
  <2>3. job[c].req.allowLargeDeletion \/ 2 * NonEmptyLines(module') >= NonEmptyLines(text)
    BY <2>1, <2>2, HalfIsKept
  <2> QED  BY <2>1, <2>3
<1>2. TypeInv /\ WriteInv /\ [Next]_vars =>
        [\A c \in Calls \ returned : Writes(c) =>
           \E text \in backups :
             /\ Received(text)
             /\ job[c].req.allowLargeDeletion \/ 2 * NonEmptyLines(module') >= NonEmptyLines(text)]_vars
  BY <1>1
<1> QED  BY <1>2, WritesHold, PTL DEF Spec, OverwritesWithCare
=============================================================================
