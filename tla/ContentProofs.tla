---------------------------- MODULE ContentProofs ----------------------------
(***************************************************************************)
(* Proofs about what an import's lines go through: BatchContent, for every *)
(* number of lines and every size of a request; AudioSource, for every     *)
(* number of imports, attempts and units of time; TokenSpans, for every    *)
(* line and its tokens; and that MCContent runs them as they are.          *)
(***************************************************************************)
EXTENDS MCContent, WordCacheProofs, OperationsProofs, FiniteSetTheorems, SequenceTheorems,
        NaturalsInduction, WellFoundedInduction, TLAPS

-----------------------------------------------------------------------------
(* A function on the first n numbers is a sequence of n elements. *)
LEMMA FunctionIsSequence ==
  ASSUME NEW S, NEW n \in Nat, NEW f \in [1 .. n -> S]
  PROVE  f \in Seq(S) /\ Len(f) = n
<1>1. f \in Seq(S)  BY SeqDef
<1>2. DOMAIN f = 1 .. n /\ DOMAIN f = 1 .. Len(f) /\ Len(f) \in Nat  BY <1>1, LenProperties
<1>3. Len(f) = n  BY <1>2
<1> QED  BY <1>1, <1>3

-----------------------------------------------------------------------------
(* The lines of a batch.  Products and quotients first, which the rest     *)
(* only meets through these three facts.                                   *)
LEMMA MoreChunks ==
  ASSUME NEW c \in Nat \ {0}, NEW i \in Nat, NEW j \in Nat, i <= j
  PROVE  /\ i * c \in Nat /\ j * c \in Nat
         /\ (i + 1) * c = i * c + c
         /\ i * c + (j - i) <= j * c
<1>1. j * c = i * c + (j - i) * c  OBVIOUS
<1>2. (j - i) <= (j - i) * c  OBVIOUS
<1>3. (i + 1) * c = i * c + c  OBVIOUS
<1>4. i * c \in Nat /\ j * c \in Nat /\ (j - i) * c \in Nat  OBVIOUS
<1> QED  BY <1>1, <1>2, <1>3, <1>4

LEMMA ChunkNumber ==
  ASSUME NEW c \in Nat \ {0}, NEW n \in Nat, NEW j \in Nat
  PROVE  /\ (n + c - 1) \div c \in Nat
         /\ j * c < n <=> j < (n + c - 1) \div c
<1> DEFINE q == (n + c - 1) \div c
<1>1. q \in Nat /\ q * c <= n + c - 1 /\ n + c - 1 < q * c + c  OBVIOUS
<1>2. (j + 1) * c = j * c + c /\ j * c \in Nat /\ q * c \in Nat  BY <1>1
<1> HIDE DEF q
<1>3. ASSUME j < q PROVE j * c < n
  <2>1. (j + 1) * c <= q * c  BY <1>1, <1>3, MoreChunks
  <2> QED  BY <1>1, <1>2, <2>1
<1>4. ASSUME q <= j PROVE n <= j * c
  <2>1. q * c <= j * c  BY <1>1, <1>4, MoreChunks
  <2> QED  BY <1>1, <1>2, <2>1
<1>5. q \in Nat /\ (j * c < n <=> j < q)  BY <1>1, <1>2, <1>3, <1>4
<1> QED  BY <1>5 DEF q

LEMMA ChunkIndex ==
  ASSUME NEW c \in Nat \ {0}, NEW j \in Nat PROVE (j * c) \div c = j
<1>1. j * c \in Nat  OBVIOUS
<1> QED  BY <1>1

(* The list that starts after j * ChunkLines lines. *)
LEMMA ChunkBounds ==
  ASSUME NEW n \in 1 .. MaxLines, NEW j \in Nat, j * ChunkLines < n
  PROVE  LET list == Chunks(n)[j + 1]
         IN  /\ j + 1 \in 1 .. Len(Chunks(n))
             /\ list \in List /\ list.mode = "batch"
             /\ list.from = j * ChunkLines + 1
             /\ list.to = Smaller(j * ChunkLines + ChunkLines, n)
             /\ list.from <= list.to
<1> USE ContentAssumption
<1> DEFINE q == (n + ChunkLines - 1) \div ChunkLines
           from == j * ChunkLines + 1
           to == Smaller(j * ChunkLines + ChunkLines, n)
<1>1. q \in Nat /\ j < q  BY ChunkNumber
<1>2. (j + 1) * ChunkLines = j * ChunkLines + ChunkLines /\ j * ChunkLines \in Nat  BY MoreChunks
<1>3. Len(Chunks(n)) = q /\ DOMAIN Chunks(n) = 1 .. q  BY <1>1 DEF Chunks
<1>4. j + 1 \in 1 .. q /\ (j + 1) - 1 = j  BY <1>1
<1>5. Chunks(n)[j + 1] = ListOf(from, to, "batch")  BY <1>2, <1>4 DEF Chunks
<1>6. from \in 1 .. MaxLines /\ to \in 1 .. MaxLines /\ from <= to
  BY <1>2 DEF Smaller
<1> QED  BY <1>3, <1>4, <1>5, <1>6 DEF ListOf, List, Modes

(* What the lists still to be translated are like when t of n lines are    *)
(* translated: they go on where the translations end, line by line to the  *)
(* last one, none is empty, and only the next one may be asked for again.  *)
Following(s) ==
  /\ \A j, k \in 1 .. Len(s) : j < k => s[j].to + (k - j) <= s[k].from
  /\ \A k \in 1 .. Len(s) : k + 1 <= Len(s) => s[k + 1].from = s[k].to + 1
Askable(s) ==
  \A k \in 1 .. Len(s) : s[k].from <= s[k].to /\ (s[k].mode = "again" => k = 1 /\ Single(s[k]))
InLine(s, t, n) ==
  /\ s \in Seq(List) /\ Following(s) /\ Askable(s)
  /\ IF s = <<>> THEN t = n ELSE s[1].from = t + 1 /\ s[Len(s)].to = n

LEMMA ChunksInLine ==
  ASSUME NEW n \in 1 .. MaxLines PROVE InLine(Chunks(n), 0, n) /\ Chunks(n) # <<>>
<1> USE ContentAssumption
<1> DEFINE s == Chunks(n)
           q == (n + ChunkLines - 1) \div ChunkLines
<1>1. q \in Nat /\ 0 < q /\ ~(q * ChunkLines < n)
  BY ChunkNumber, 0 * ChunkLines = 0
<1>2. Len(s) = q /\ DOMAIN s = 1 .. q  BY <1>1 DEF Chunks
<1>3. ASSUME NEW k \in 1 .. q
      PROVE  /\ k - 1 \in Nat /\ (k - 1) * ChunkLines < n
             /\ (k - 1) * ChunkLines \in Nat
             /\ s[k] \in List /\ s[k].mode = "batch"
             /\ s[k].from = (k - 1) * ChunkLines + 1
             /\ s[k].to = Smaller((k - 1) * ChunkLines + ChunkLines, n)
             /\ s[k].from <= s[k].to
  <2> DEFINE j == k - 1
  <2>1. j \in Nat /\ j < q /\ j + 1 = k  OBVIOUS
  <2>2. j * ChunkLines < n  BY <2>1, ChunkNumber
  <2>3. j * ChunkLines \in Nat  BY <2>1
  <2> HIDE DEF s, q
  <2>4. LET list == s[j + 1]
        IN  /\ list \in List /\ list.mode = "batch"
            /\ list.from = j * ChunkLines + 1
            /\ list.to = Smaller(j * ChunkLines + ChunkLines, n)
            /\ list.from <= list.to
    BY <2>1, <2>2, ChunkBounds DEF s
  <2> QED  BY <2>1, <2>2, <2>3, <2>4
<1> HIDE DEF s, q
<1>4. s \in Seq(List)
  <2>1. s = [k \in 1 .. q |-> s[k]]  BY <1>2 DEF s, Chunks, q
  <2>2. s \in [1 .. q -> List]  BY <1>3, <2>1
  <2> QED  BY <1>1, <2>2, FunctionIsSequence
<1>5. ASSUME NEW j \in 1 .. q, NEW k \in 1 .. q, j < k PROVE s[j].to + (k - j) <= s[k].from
  <2>1. j * ChunkLines + ((k - 1) - j) <= (k - 1) * ChunkLines /\ j * ChunkLines \in Nat
    BY <1>5, <1>1, MoreChunks
  <2>2. ((j - 1) + 1) * ChunkLines = (j - 1) * ChunkLines + ChunkLines /\ (j - 1) + 1 = j
    BY <1>3, MoreChunks
  <2>3. s[j].to <= j * ChunkLines  BY <1>3, <2>1, <2>2 DEF Smaller
  <2>4. s[j].to \in Nat  BY <1>3 DEF List
  <2> QED  BY <1>1, <1>3, <2>1, <2>3, <2>4
<1>6. ASSUME NEW k \in 1 .. q, k + 1 <= q PROVE s[k + 1].from = s[k].to + 1
  <2>1. k + 1 \in 1 .. q /\ (k + 1) - 1 = k  BY <1>1, <1>6
  <2>2. s[k + 1].from = k * ChunkLines + 1 /\ k * ChunkLines < n  BY <1>3, <2>1
  <2>3. ((k - 1) + 1) * ChunkLines = (k - 1) * ChunkLines + ChunkLines /\ (k - 1) + 1 = k
    BY <1>3, MoreChunks
  <2>4. s[k].to = k * ChunkLines  BY <1>3, <2>2, <2>3 DEF Smaller
  <2> QED  BY <2>2, <2>4
<1>7. s[1].from = 0 + 1
  <2>1. s[1].from = (1 - 1) * ChunkLines + 1  BY <1>1, <1>3
  <2> QED  BY <2>1
<1>8. s[q].to = n
  <2>1. q \in 1 .. q  BY <1>1
  <2>2. s[q].to = Smaller((q - 1) * ChunkLines + ChunkLines, n)  BY <1>3, <2>1
  <2>3. ((q - 1) + 1) * ChunkLines = (q - 1) * ChunkLines + ChunkLines /\ (q - 1) + 1 = q
    BY <1>3, <2>1, MoreChunks
  <2>4. q * ChunkLines \in Nat  BY <1>1
  <2> QED  BY <1>1, <2>2, <2>3, <2>4 DEF Smaller
<1>9. s # <<>>  BY <1>1, <1>2
<1>10. Following(s)  BY <1>2, <1>5, <1>6 DEF Following
<1>11. Askable(s)  BY <1>2, <1>3 DEF Askable
<1> QED  BY <1>2, <1>4, <1>7, <1>8, <1>9, <1>10, <1>11 DEF InLine, s

(* Every list still to come has a line of its own. *)
LEMMA ListsHaveLines ==
  ASSUME NEW s, NEW t \in Nat, NEW n \in Nat, InLine(s, t, n), s # <<>>
  PROVE  /\ Len(s) \in Nat \ {0} /\ s[1] \in List /\ s[1].from <= s[1].to
         /\ t + (s[1].to - s[1].from) + Len(s) <= n
<1> DEFINE m == Len(s)
<1>1. m \in Nat \ {0} /\ \A k \in 1 .. m : s[k] \in List  BY EmptySeq, ElementOfSeq DEF InLine
<1>2. s[1] \in List /\ s[m] \in List /\ s[1].from = t + 1 /\ s[m].to = n
      /\ s[1].from <= s[1].to /\ s[m].from <= s[m].to
  BY <1>1 DEF InLine, Askable
<1>3. s[1].from \in Nat /\ s[1].to \in Nat /\ s[m].from \in Nat  BY <1>2 DEF List
<1>4. 1 < m => s[1].to + (m - 1) <= s[m].from  BY <1>1 DEF InLine, Following
<1> HIDE DEF m
<1>5. t + (s[1].to - s[1].from) + m <= n
  <2>1. CASE m = 1  BY <2>1, <1>1, <1>2, <1>3
  <2>2. CASE 1 < m  BY <2>2, <1>1, <1>2, <1>3, <1>4
  <2> QED  BY <1>1, <2>1, <2>2
<1> QED  BY <1>1, <1>2, <1>5 DEF m

(* A list that is done with. *)
LEMMA TailInLine ==
  ASSUME NEW s, NEW t \in Nat, NEW n \in Nat, InLine(s, t, n), s # <<>>
  PROVE  /\ InLine(Tail(s), s[1].to, n) /\ Len(Tail(s)) = Len(s) - 1
         /\ Tail(s) # <<>> => Tail(s)[1].mode # "again"
         /\ Head(s) = s[1]
<1> DEFINE m == Len(s)
           r == Tail(s)
<1>1. m \in Nat \ {0} /\ \A k \in 1 .. m : s[k] \in List  BY EmptySeq, ElementOfSeq DEF InLine
<1>2. r \in Seq(List) /\ Len(r) = m - 1 /\ (\A k \in 1 .. Len(r) : r[k] = s[k + 1]) /\ Head(s) = s[1]
  BY HeadTailProperties DEF InLine
<1>3. \A k \in 1 .. m - 1 : r[k] = s[k + 1] /\ k + 1 \in 1 .. m  BY <1>1, <1>2
<1> HIDE DEF m, r
<1>4. (r = <<>>) <=> m = 1
  <2>1. r = <<>> => Len(r) = 0  BY EmptySeq
  <2>2. r # <<>> => Len(r) # 0  BY <1>2, EmptySeq
  <2> QED  BY <1>1, <1>2, <2>1, <2>2
<1>5. \A k \in 1 .. m : s[k].from \in Nat /\ s[k].to \in Nat  BY <1>1 DEF List
<1>6. \A j, k \in 1 .. m - 1 : j < k => r[j].to + (k - j) <= r[k].from
  <2> SUFFICES ASSUME NEW j \in 1 .. m - 1, NEW k \in 1 .. m - 1, j < k PROVE r[j].to + (k - j) <= r[k].from
    OBVIOUS
  <2>3. j + 1 \in 1 .. m /\ k + 1 \in 1 .. m /\ j + 1 < k + 1  BY <1>1
  <2>1. s[j + 1].to + ((k + 1) - (j + 1)) <= s[k + 1].from  BY <2>3 DEF InLine, Following, m
  <2>2. (k + 1) - (j + 1) = k - j  BY <1>1
  <2> QED  BY <1>3, <2>1, <2>2
<1>7. ASSUME NEW k \in 1 .. m - 1, k + 1 <= m - 1 PROVE r[k + 1].from = r[k].to + 1
  <2>1. k + 1 \in 1 .. m - 1 /\ k + 1 \in 1 .. m /\ (k + 1) + 1 <= m  BY <1>1, <1>7
  <2>2. s[(k + 1) + 1].from = s[k + 1].to + 1  BY <2>1 DEF InLine, Following, m
  <2> QED  BY <1>3, <2>1, <2>2
<1>8. ASSUME NEW k \in 1 .. m - 1 PROVE r[k].from <= r[k].to /\ r[k].mode # "again"
  <2>1. k + 1 \in 1 .. m /\ k + 1 # 1 /\ r[k] = s[k + 1]  BY <1>1, <1>3
  <2> QED  BY <2>1 DEF InLine, Askable, m
<1>9. Following(r) /\ Askable(r)  BY <1>2, <1>6, <1>7, <1>8 DEF Following, Askable
<1>10. IF r = <<>> THEN s[1].to = n ELSE r[1].from = s[1].to + 1 /\ r[Len(r)].to = n
  <2>1. CASE m = 1  BY <2>1, <1>4 DEF InLine, m
  <2>2. CASE m # 1
    <3>1. 1 \in 1 .. m - 1 /\ m - 1 \in 1 .. m - 1 /\ (m - 1) + 1 = m /\ 1 + 1 <= m /\ 1 \in 1 .. m
      BY <1>1, <2>2
    <3>2. r[1] = s[1 + 1] /\ r[m - 1] = s[m]  BY <1>3, <3>1
    <3>3. s[1 + 1].from = s[1].to + 1  BY <3>1 DEF InLine, Following, m
    <3>4. s[m].to = n  BY <1>4, <2>2 DEF InLine, m
    <3> QED  BY <1>2, <1>4, <2>2, <3>2, <3>3, <3>4
  <2> QED  BY <2>1, <2>2
<1>11. r # <<>> => r[1].mode # "again"  BY <1>1, <1>4, <1>8
<1> QED  BY <1>1, <1>2, <1>9, <1>10, <1>11 DEF InLine, m, r

(* Lists that take the place of the next one. *)
Replaces(p, list) ==
  /\ p \in Seq(List) /\ p # <<>> /\ Following(p) /\ Askable(p)
  /\ p[1].from = list.from /\ p[Len(p)].to = list.to

LEMMA ReplacedInLine ==
  ASSUME NEW s, NEW t \in Nat, NEW n \in Nat, InLine(s, t, n), s # <<>>,
         NEW p, Replaces(p, s[1])
  PROVE  /\ InLine(p \o Tail(s), t, n) /\ p \o Tail(s) # <<>>
         /\ Len(p \o Tail(s)) = Len(p) + Len(s) - 1
         /\ (p \o Tail(s))[1] = p[1]
<1> DEFINE r == Tail(s)
           a == Len(p)
           b == Len(r)
           u == p \o r
           e == s[1].to
<1>1. InLine(r, e, n) /\ b = Len(s) - 1 /\ (r # <<>> => r[1].mode # "again")  BY TailInLine
<1>2. p \in Seq(List) /\ r \in Seq(List)  BY <1>1 DEF Replaces, InLine
<1>3. a \in Nat \ {0} /\ b \in Nat /\ (\A k \in 1 .. a : p[k] \in List) /\ (\A k \in 1 .. b : r[k] \in List)
  BY <1>2, EmptySeq, ElementOfSeq, LenProperties DEF Replaces
<1>4. /\ u \in Seq(List) /\ Len(u) = a + b
      /\ \A k \in 1 .. a + b : u[k] = IF k <= a THEN p[k] ELSE r[k - a]
  BY <1>2, ConcatProperties
<1>5. s[1] \in List /\ s[1].from <= e /\ s[1].from = t + 1  BY ListsHaveLines DEF InLine
<1>6. /\ \A j, k \in 1 .. a : j < k => p[j].to + (k - j) <= p[k].from
      /\ \A k \in 1 .. a : k + 1 <= a => p[k + 1].from = p[k].to + 1
      /\ \A k \in 1 .. a : p[k].from <= p[k].to /\ (p[k].mode = "again" => k = 1 /\ Single(p[k]))
      /\ p[1].from = t + 1 /\ p[a].to = e
  BY <1>5 DEF Replaces, Following, Askable
<1>7. /\ \A j, k \in 1 .. b : j < k => r[j].to + (k - j) <= r[k].from
      /\ \A k \in 1 .. b : k + 1 <= b => r[k + 1].from = r[k].to + 1
      /\ \A k \in 1 .. b : r[k].from <= r[k].to /\ (r[k].mode = "again" => k = 1 /\ Single(r[k]))
      /\ IF b = 0 THEN e = n ELSE r[1].from = e + 1 /\ r[b].to = n /\ r[1].mode # "again"
  BY <1>1, <1>2, EmptySeq DEF InLine, Following, Askable
<1>8. e \in Nat /\ n \in Nat  BY <1>5 DEF List
<1> HIDE DEF r, a, b, u, e
<1>9. /\ \A k \in 1 .. a : p[k].from \in Nat /\ p[k].to \in Nat
      /\ \A k \in 1 .. b : r[k].from \in Nat /\ r[k].to \in Nat
  BY <1>3 DEF List
<1>10. /\ \A k \in 1 .. a + b : k <= a => k \in 1 .. a /\ u[k] = p[k]
       /\ \A k \in 1 .. a + b : k > a => k - a \in 1 .. b /\ u[k] = r[k - a]
  <2>1. \A k \in 1 .. a + b : k <= a => k \in 1 .. a /\ u[k] = p[k]  BY <1>3, <1>4
  <2>2. ASSUME NEW k \in 1 .. a + b, k > a PROVE k - a \in 1 .. b /\ u[k] = r[k - a]
    <3>1. k - a \in 1 .. b /\ ~(k <= a)  BY <2>2, <1>3
    <3> QED  BY <3>1, <1>4
  <2> QED  BY <2>1, <2>2
<1>11. ASSUME NEW j \in 1 .. a + b, NEW k \in 1 .. a + b, j < k PROVE u[j].to + (k - j) <= u[k].from
  <2>1. CASE k <= a
    <3>1. j \in 1 .. a /\ k \in 1 .. a /\ j <= a  BY <2>1, <1>3, <1>11
    <3>2. u[j] = p[j] /\ u[k] = p[k]  BY <2>1, <3>1, <1>10
    <3> QED  BY <3>1, <3>2, <1>6, <1>11
  <2>2. CASE j > a
    <3>2. j - a \in 1 .. b /\ k - a \in 1 .. b /\ j - a < k - a /\ (k - a) - (j - a) = k - j
      BY <2>2, <1>3, <1>11
    <3>3. u[j] = r[j - a] /\ u[k] = r[k - a]  BY <2>2, <1>3, <1>10, <1>11
    <3>1. r[j - a].to + ((k - a) - (j - a)) <= r[k - a].from  BY <3>2, <1>7
    <3> QED  BY <3>1, <3>2, <3>3
  <2>3. CASE j <= a /\ k > a
    <3>1. p[j].to + (a - j) <= e
      <4>1. CASE j = a  BY <4>1, <1>3, <1>6, <1>8
      <4>2. CASE j < a
        <5>2. j \in 1 .. a /\ a \in 1 .. a  BY <2>3, <1>3, <1>11
        <5>5. p[j].to + (a - j) <= p[a].from  BY <5>2, <4>2, <1>6
        <5>6. p[a].from <= p[a].to  BY <5>2, <1>6
        <5>1. p[j].to + (a - j) <= p[a].from /\ p[a].from <= p[a].to  BY <5>5, <5>6
        <5>3. p[j].to \in Nat /\ p[a].from \in Nat /\ p[a].to \in Nat  BY <5>2, <1>9
        <5>4. a - j \in Nat  BY <2>3, <1>3, <1>11
        <5> QED  BY <5>1, <5>3, <5>4, <1>6
      <4> QED  BY <2>3, <4>1, <4>2, <1>3
    <3>2. e + (k - a) <= r[k - a].from
      <4>1. CASE k - a = 1  BY <4>1, <2>3, <1>3, <1>7, <1>8
      <4>2. CASE k - a # 1
        <5>2. 1 \in 1 .. b /\ k - a \in 1 .. b /\ 1 < k - a /\ b # 0  BY <4>2, <2>3, <1>3
        <5>4. r[1].to + ((k - a) - 1) <= r[k - a].from  BY <5>2, <1>7
        <5>5. r[1].from <= r[1].to /\ r[1].from = e + 1  BY <5>2, <1>7
        <5>1. r[1].to + ((k - a) - 1) <= r[k - a].from /\ r[1].from <= r[1].to /\ r[1].from = e + 1
          BY <5>4, <5>5
        <5>3. /\ r[1].to \in Nat /\ r[1].from \in Nat /\ r[k - a].from \in Nat
              /\ k - a \in Nat
          BY <5>2, <1>3, <1>9
        <5> QED  BY <5>1, <5>3, <1>8
      <4> QED  BY <4>1, <4>2
    <3>3. u[j] = p[j] /\ u[k] = r[k - a] /\ j \in 1 .. a /\ k - a \in 1 .. b  BY <2>3, <1>3, <1>10
    <3>4. p[j].to \in Nat /\ r[k - a].from \in Nat  BY <3>3, <1>9
    <3>5. u[j].to + (k - j) <= u[k].from
      <4> DEFINE x == p[j].to
                 y == r[k - a].from
      <4>1. x \in Nat /\ y \in Nat /\ x + (a - j) <= e /\ e + (k - a) <= y  BY <3>1, <3>2, <3>4
      <4> HIDE DEF x, y
      <4>2. x + (k - j) <= y  BY <4>1, <1>3, <1>8
      <4> QED  BY <4>2, <3>3 DEF x, y
    <3> QED  BY <3>5
  <2> QED  BY <2>1, <2>2, <2>3, <1>3
<1>12. ASSUME NEW k \in 1 .. a + b, k + 1 <= a + b PROVE u[k + 1].from = u[k].to + 1
  <2>1. CASE k + 1 <= a
    <3>1. k \in 1 .. a /\ k + 1 \in 1 .. a + b /\ k <= a  BY <2>1, <1>3, <1>12
    <3> QED  BY <2>1, <3>1, <1>6, <1>10
  <2>2. CASE k = a
    <3>1. u[k] = p[a] /\ u[k + 1] = r[1] /\ b # 0
      <4>1. k + 1 \in 1 .. a + b /\ ~(k + 1 <= a) /\ (k + 1) - a = 1 /\ b # 0  BY <2>2, <1>3, <1>12
      <4> QED  BY <4>1, <2>2, <1>3, <1>4
    <3> QED  BY <3>1, <1>6, <1>7
  <2>3. CASE k > a
    <3>1. r[(k - a) + 1].from = r[k - a].to + 1  BY <2>3, <1>3, <1>7, <1>12
    <3>2. (k + 1) - a = (k - a) + 1 /\ k + 1 \in 1 .. a + b /\ ~(k + 1 <= a) /\ ~(k <= a)  BY <2>3, <1>3, <1>12
    <3> QED  BY <3>1, <3>2, <1>4
  <2> QED  BY <2>1, <2>2, <2>3, <1>3
<1>13. ASSUME NEW k \in 1 .. a + b PROVE u[k].from <= u[k].to /\ (u[k].mode = "again" => k = 1 /\ Single(u[k]))
  <2>1. CASE k <= a
    <3>1. k \in 1 .. a /\ u[k] = p[k]  BY <2>1, <1>10
    <3> QED  BY <3>1, <1>6
  <2>2. CASE k > a
    <3>1. k - a \in 1 .. b /\ u[k] = r[k - a] /\ b # 0  BY <2>2, <1>3, <1>10
    <3>2. r[k - a].mode # "again"  BY <3>1, <1>7
    <3> QED  BY <3>1, <3>2, <1>7
  <2> QED  BY <2>1, <2>2, <1>3
<1>14. u[1] = p[1]  BY <1>3, <1>4
<1>15. u[a + b].to = n
  <2>1. CASE b = 0  BY <2>1, <1>3, <1>4, <1>6, <1>7
  <2>2. CASE b # 0
    <3>1. a + b \in 1 .. a + b /\ ~(a + b <= a) /\ (a + b) - a = b  BY <2>2, <1>3
    <3> QED  BY <2>2, <3>1, <1>4, <1>7
  <2> QED  BY <2>1, <2>2
<1>16. u # <<>>  BY <1>3, <1>4, EmptySeq
<1>17. Following(u) /\ Askable(u)  BY <1>4, <1>11, <1>12, <1>13 DEF Following, Askable
<1>18. InLine(u, t, n)  BY <1>4, <1>6, <1>14, <1>15, <1>16, <1>17 DEF InLine
<1>19. Len(s) \in Nat  BY LenProperties DEF InLine
<1> QED  BY <1>1, <1>3, <1>4, <1>14, <1>16, <1>18, <1>19 DEF u, r, a, b

(* A single line that is asked for again, and the halves of a list, take   *)
(* its place.                                                              *)
LEMMA AgainReplaces ==
  ASSUME NEW list \in List, Single(list)
  PROVE  Replaces(<<[list EXCEPT !.mode = "again"]>>, list)
<1> DEFINE l == [list EXCEPT !.mode = "again"]
<1>1. l \in List /\ l.from = list.from /\ l.to = list.to  BY DEF List, Modes
<1>2. Single(l) /\ l.from <= l.to  BY <1>1 DEF Single, List
<1> HIDE DEF l
<1>3. <<l>> \in Seq(List) /\ Len(<<l>>) = 1 /\ <<l>>[1] = l /\ <<l>> # <<>>  BY <1>1
<1>4. Following(<<l>>) /\ Askable(<<l>>)  BY <1>2, <1>3 DEF Following, Askable
<1>5. Replaces(<<l>>, list)  BY <1>1, <1>3, <1>4 DEF Replaces
<1> QED  BY <1>5 DEF l

LEMMA HalvesReplace ==
  ASSUME NEW list \in List, ~Single(list), list.from <= list.to
  PROVE  Replaces(Halves(list), list)
<1> DEFINE middle == list.from + (list.to - list.from + 1) \div 2
           x == ListOf(list.from, middle - 1, "half")
           y == ListOf(middle, list.to, "half")
<1>1. list.from \in 1 .. MaxLines /\ list.to \in 1 .. MaxLines /\ list.from < list.to
  BY DEF Single, List
<1>2. MaxLines \in Nat  BY ContentAssumption
<1>3. middle \in Nat /\ list.from < middle /\ middle <= list.to  BY <1>1, <1>2
<1> HIDE DEF middle
<1>4. /\ x \in List /\ x.from = list.from /\ x.to = middle - 1 /\ x.mode = "half"
      /\ y \in List /\ y.from = middle /\ y.to = list.to /\ y.mode = "half"
  BY <1>1, <1>2, <1>3 DEF List, ListOf, Modes
<1>5. Halves(list) = <<x, y>>  BY DEF Halves, middle
<1> HIDE DEF x, y
<1>6. <<x, y>> \in Seq(List) /\ Len(<<x, y>>) = 2 /\ <<x, y>>[1] = x /\ <<x, y>>[2] = y /\ <<x, y>> # <<>>
  BY <1>4
<1>7. Following(<<x, y>>)  BY <1>1, <1>3, <1>4, <1>6 DEF Following
<1>8. Askable(<<x, y>>)  BY <1>1, <1>3, <1>4, <1>6 DEF Askable
<1> QED  BY <1>4, <1>5, <1>6, <1>7, <1>8 DEF Replaces

(* Where the translations and the analyses of a list go. *)
LEMMA TextsInPlace ==
  ASSUME NEW list \in List, list.from <= list.to, NEW text \in {"translated", "placeholder", "gloss"},
         NEW done \in Seq(Translation), list.from = Len(done) + 1,
         \A k \in 1 .. Len(done) : done[k].of = k
  PROVE  LET all == done \o TextsOf(list, text)
         IN  /\ all \in Seq(Translation) /\ Len(all) = list.to
             /\ \A k \in 1 .. Len(all) : all[k].of = k
<1> DEFINE m == Len(done)
           n == list.to - list.from + 1
           new == TextsOf(list, text)
           all == done \o new
<1>1. list.from \in 1 .. MaxLines /\ list.to \in 1 .. MaxLines /\ m \in Nat /\ MaxLines \in Nat
  BY LenProperties, ContentAssumption DEF List
<1>2. n \in Nat /\ m + n = list.to /\ list.from = m + 1
  <2>1. list.from = m + 1 /\ list.from <= list.to  OBVIOUS
  <2>2. list.from \in Nat /\ list.to \in Nat /\ m \in Nat  BY <1>1
  <2> HIDE DEF m
  <2>3. n \in Nat  BY <2>1, <2>2
  <2>4. m + n = list.to  BY <2>1, <2>2
  <2> QED  BY <2>1, <2>3, <2>4
<1>3. new = [k \in 1 .. n |-> [of |-> list.from + k - 1, text |-> text]]  BY DEF TextsOf
<1>4. \A k \in 1 .. m : done[k].of = k  OBVIOUS
<1>5. \A i \in 1 .. MaxLines : [of |-> i, text |-> text] \in Translation  BY DEF Translation
<1> HIDE DEF m, n, new
<1>6. \A k \in 1 .. n : list.from + k - 1 = m + k /\ m + k \in 1 .. MaxLines  BY <1>1, <1>2
<1>7. \A k \in 1 .. n : new[k] \in Translation /\ new[k].of = m + k  BY <1>3, <1>5, <1>6
<1>8. new \in Seq(Translation) /\ Len(new) = n
  <2>1. new \in [1 .. n -> Translation]  BY <1>3, <1>7
  <2> QED  BY <1>2, <2>1, FunctionIsSequence
<1>9. /\ all \in Seq(Translation) /\ Len(all) = m + n
      /\ \A k \in 1 .. m + n : all[k] = IF k <= m THEN done[k] ELSE new[k - m]
  BY <1>8, ConcatProperties DEF m
<1> HIDE DEF all
<1>10. ASSUME NEW k \in 1 .. m + n PROVE all[k].of = k
  <2>1. CASE k <= m
    <3>1. k \in 1 .. m  BY <2>1, <1>1, <1>2
    <3> QED  BY <2>1, <3>1, <1>4, <1>9
  <2>2. CASE k > m
    <3>1. k - m \in 1 .. n /\ ~(k <= m) /\ m + (k - m) = k  BY <2>2, <1>1, <1>2
    <3>2. all[k] = new[k - m]  BY <3>1, <1>9
    <3> QED  BY <3>1, <3>2, <1>7
  <2> QED  BY <2>1, <2>2, <1>1, <1>2
<1> QED  BY <1>2, <1>9, <1>10 DEF all, new

LEMMA AnalysesInPlace ==
  ASSUME NEW list \in List, list.from <= list.to, NEW by \in {"model", "local"},
         NEW done \in Seq(Analysis), list.from = Len(done) + 1,
         \A k \in 1 .. Len(done) : done[k].of = k
  PROVE  LET all == done \o [k \in 1 .. list.to - list.from + 1 |-> [of |-> list.from + k - 1, by |-> by]]
         IN  /\ all \in Seq(Analysis) /\ Len(all) = list.to
             /\ \A k \in 1 .. Len(all) : all[k].of = k
<1> DEFINE m == Len(done)
           n == list.to - list.from + 1
           new == [k \in 1 .. n |-> [of |-> list.from + k - 1, by |-> by]]
           all == done \o new
<1>1. list.from \in 1 .. MaxLines /\ list.to \in 1 .. MaxLines /\ m \in Nat /\ MaxLines \in Nat
  BY LenProperties, ContentAssumption DEF List
<1>2. n \in Nat /\ m + n = list.to /\ list.from = m + 1
  <2>1. list.from = m + 1 /\ list.from <= list.to  OBVIOUS
  <2>2. list.from \in Nat /\ list.to \in Nat /\ m \in Nat  BY <1>1
  <2> HIDE DEF m
  <2>3. n \in Nat  BY <2>1, <2>2
  <2>4. m + n = list.to  BY <2>1, <2>2
  <2> QED  BY <2>1, <2>3, <2>4
<1>3. new = [k \in 1 .. n |-> [of |-> list.from + k - 1, by |-> by]]  OBVIOUS
<1>4. \A k \in 1 .. m : done[k].of = k  OBVIOUS
<1>5. \A i \in 1 .. MaxLines : [of |-> i, by |-> by] \in Analysis  BY DEF Analysis
<1>6. all = done \o [k \in 1 .. list.to - list.from + 1 |-> [of |-> list.from + k - 1, by |-> by]]  OBVIOUS
<1> HIDE DEF m, n, new
<1>7. \A k \in 1 .. n : list.from + k - 1 = m + k /\ m + k \in 1 .. MaxLines  BY <1>1, <1>2
<1>8. \A k \in 1 .. n : new[k] \in Analysis /\ new[k].of = m + k  BY <1>3, <1>5, <1>7
<1>9. new \in Seq(Analysis) /\ Len(new) = n
  <2>1. new \in [1 .. n -> Analysis]  BY <1>3, <1>8
  <2> QED  BY <1>2, <2>1, FunctionIsSequence
<1>10. /\ all \in Seq(Analysis) /\ Len(all) = m + n
       /\ \A k \in 1 .. m + n : all[k] = IF k <= m THEN done[k] ELSE new[k - m]
  BY <1>9, ConcatProperties DEF m
<1> HIDE DEF all
<1>11. ASSUME NEW k \in 1 .. m + n PROVE all[k].of = k
  <2>1. CASE k <= m
    <3>1. k \in 1 .. m  BY <2>1, <1>1, <1>2
    <3> QED  BY <2>1, <3>1, <1>4, <1>10
  <2>2. CASE k > m
    <3>1. k - m \in 1 .. n /\ ~(k <= m) /\ m + (k - m) = k  BY <2>2, <1>1, <1>2
    <3>2. all[k] = new[k - m]  BY <3>1, <1>10
    <3> QED  BY <3>1, <3>2, <1>8
  <2> QED  BY <2>1, <2>2, <1>1, <1>2
<1> QED  BY <1>2, <1>6, <1>10, <1>11

(* Every translation is at its line, and the lists still to come go on     *)
(* there; every analysis is at its line, and whole lists of them are done. *)
TranslationsAtLines ==
  /\ InLine(todo, Len(translations), lines)
  /\ \A k \in 1 .. Len(translations) : translations[k].of = k
AnalysesAtLines ==
  /\ \A k \in 1 .. Len(analyses) : analyses[k].of = k
  /\ \E j \in Nat : Len(analyses) = Smaller(j * ChunkLines, lines)
WorkFollowsLists ==
  /\ work = "new" => lines = 0 /\ asked = 0 /\ translations = <<>> /\ analyses = <<>>
  /\ work = "translate" => todo # <<>>
  /\ work \in {"new", "analyse", "done"} => todo = <<>>

(* A list costs the translator less than three requests a line: what was   *)
(* asked is paid by the lines that are translated, the splits of the lists *)
(* and the line that is asked for again.                                   *)
Again(s) == IF s # <<>> /\ s[1].mode = "again" THEN 1 ELSE 0
Paid == work # "failed" => asked <= 3 * Len(translations) + Len(todo) + Again(todo)

LinesInv ==
  /\ ContentTypeOK /\ TranslationsAtLines /\ AnalysesAtLines /\ WorkFollowsLists /\ Paid /\ LinesInPlace

LEMMA LinesEstablish == ContentInit => LinesInv
<1> SUFFICES ASSUME ContentInit PROVE LinesInv  OBVIOUS
<1> USE DEF ContentInit
<1>0. <<>> \in Seq(List) /\ <<>> \in Seq(Translation) /\ <<>> \in Seq(Analysis)
      /\ <<>> \in Seq([line : Translation, tokens : Analysis]) /\ Len(<<>>) = 0
  BY EmptySeq
<1>1. ContentTypeOK  BY <1>0, ContentAssumption DEF ContentTypeOK
<1>2. TranslationsAtLines  BY <1>0 DEF TranslationsAtLines, InLine, Following, Askable
<1>3. AnalysesAtLines
  <2>1. Len(analyses) = Smaller(0 * ChunkLines, lines)  BY <1>0, ContentAssumption DEF Smaller
  <2> QED  BY <1>0, <2>1 DEF AnalysesAtLines
<1>4. Paid  BY <1>0 DEF Paid, Again
<1> QED  BY <1>1, <1>2, <1>3, <1>4 DEF LinesInv, WorkFollowsLists, LinesInPlace

LEMMA LoadKeeps == LinesInv /\ LoadLines => LinesInv'
<1> SUFFICES ASSUME LinesInv, LoadLines PROVE LinesInv'  OBVIOUS
<1>0. Len(<<>>) = 0 /\ MaxLines \in Nat  BY EmptySeq, ContentAssumption
<1>1. /\ lines = 0 /\ asked = 0 /\ translations = <<>> /\ analyses = <<>>
      /\ UNCHANGED <<translations, asked, analyses, tries, processed>>
      /\ lines' \in 0 .. MaxLines /\ todo' = Chunks(lines')
      /\ work' = IF lines' = 0 THEN "analyse" ELSE "translate"
  BY DEF LoadLines, LinesInv, WorkFollowsLists
<1>2. InLine(todo', 0, lines') /\ (todo' = <<>> <=> lines' = 0)
  <2>1. CASE lines' = 0
    <3> DEFINE q == (0 + ChunkLines - 1) \div ChunkLines
    <3>1. q = 0  BY ChunkNumber, ContentAssumption, 0 * ChunkLines = 0
    <3>2. Chunks(0) = <<>>  BY <3>1 DEF Chunks
    <3>3. InLine(<<>>, 0, 0)  BY <1>0, EmptySeq DEF InLine, Following, Askable
    <3> QED  BY <1>1, <2>1, <3>2, <3>3
  <2>2. CASE lines' # 0
    <3>1. lines' \in 1 .. MaxLines  BY <1>0, <1>1, <2>2
    <3> QED  BY <1>1, <2>2, <3>1, ChunksInLine
  <2> QED  BY <2>1, <2>2
<1>3. todo' \in Seq(List) /\ Len(todo') \in Nat  BY <1>2, LenProperties DEF InLine
<1>4. ContentTypeOK'
  <2>0. asked' = 0 /\ lines' \in Nat  BY <1>0, <1>1
  <2>3. \A n \in Nat : 0 \in 0 .. 3 * n  OBVIOUS
  <2>1. asked' \in 0 .. 3 * lines'  BY <2>0, <2>3
  <2>2. work' \in {"translate", "analyse"}  BY <1>1
  <2> QED  BY <1>1, <1>3, <2>1, <2>2 DEF LinesInv, ContentTypeOK
<1>5. TranslationsAtLines'  BY <1>0, <1>1, <1>2 DEF TranslationsAtLines
<1>6. AnalysesAtLines'
  <2>1. Len(analyses') = Smaller(0 * ChunkLines, lines')  BY <1>0, <1>1, ContentAssumption DEF Smaller
  <2> QED  BY <1>0, <1>1, <2>1 DEF AnalysesAtLines
<1>7. WorkFollowsLists'  BY <1>1, <1>2 DEF WorkFollowsLists
<1>8. Paid'  BY <1>0, <1>1, <1>3 DEF Paid, Again
<1> QED  BY <1>1, <1>4, <1>5, <1>6, <1>7, <1>8 DEF LinesInv, LinesInPlace

-----------------------------------------------------------------------------
(* What a request leaves: the numbers first.                               *)
LEMMA AskedInTime ==
  ASSUME LinesInv, work = "translate"
  PROVE  /\ asked + 1 <= 3 * lines /\ asked \in Nat /\ lines \in Nat
         /\ asked <= 3 * Len(translations) + Len(todo) + Again(todo)
         /\ Len(translations) \in Nat /\ Len(todo) \in Nat \ {0}
         /\ todo[1] \in List /\ todo[1].from = Len(translations) + 1 /\ todo[1].from <= todo[1].to
         /\ InLine(todo, Len(translations), lines) /\ todo # <<>>
         /\ Again(todo) \in {0, 1}
<1> DEFINE t == Len(translations)
           m == Len(todo)
           w == todo[1].to - todo[1].from
<1>1. todo # <<>> /\ InLine(todo, t, lines)  BY DEF LinesInv, WorkFollowsLists, TranslationsAtLines
<1>2. t \in Nat /\ lines \in Nat /\ asked \in Nat
  BY LenProperties, ContentAssumption DEF LinesInv, ContentTypeOK
<1>3. m \in Nat \ {0} /\ todo[1] \in List /\ todo[1].from <= todo[1].to /\ t + w + m <= lines
  BY <1>1, <1>2, ListsHaveLines
<1>4. todo[1].from = t + 1  BY <1>1 DEF InLine
<1>5. Again(todo) \in {0, 1}  BY DEF Again
<1>6. asked <= 3 * t + m + Again(todo)  BY DEF LinesInv, Paid
<1>7. w \in Nat  BY <1>3 DEF List
<1> HIDE DEF t, m, w
<1>8. asked + 1 <= 3 * lines  BY <1>2, <1>3, <1>5, <1>6, <1>7
<1> QED  BY <1>1, <1>2, <1>3, <1>4, <1>5, <1>6, <1>8 DEF t, m

LEMMA TranslatedKeeps ==
  ASSUME LinesInv, work = "translate", NEW text \in {"translated", "placeholder"},
         Translated(Head(todo), text), asked' = asked + 1,
         UNCHANGED <<lines, analyses, tries, processed>>
  PROVE  LinesInv'
<1> DEFINE list == todo[1]
           t == Len(translations)
           m == Len(todo)
<1>1. /\ asked + 1 <= 3 * lines /\ asked \in Nat /\ lines \in Nat
      /\ asked <= 3 * t + m + Again(todo)
      /\ t \in Nat /\ m \in Nat \ {0} /\ InLine(todo, t, lines) /\ todo # <<>>
      /\ list \in List /\ list.from = t + 1 /\ list.from <= list.to
  BY AskedInTime
<1>2. /\ InLine(Tail(todo), list.to, lines) /\ Len(Tail(todo)) = m - 1
      /\ (Tail(todo) # <<>> => Tail(todo)[1].mode # "again") /\ Head(todo) = list
  BY <1>1, TailInLine
<1>3. /\ translations' = translations \o TextsOf(list, text) /\ todo' = Tail(todo)
      /\ work' = IF todo' = <<>> THEN "analyse" ELSE work
  BY <1>2 DEF Translated
<1>4. translations \in Seq(Translation) /\ \A k \in 1 .. t : translations[k].of = k
  BY DEF LinesInv, ContentTypeOK, TranslationsAtLines
<1>5. /\ translations' \in Seq(Translation) /\ Len(translations') = list.to
      /\ \A k \in 1 .. Len(translations') : translations'[k].of = k
  BY <1>1, <1>3, <1>4, TextsInPlace
<1>6. list.to \in Nat /\ t + 1 <= list.to  BY <1>1 DEF List
<1>7. Again(todo') = 0 /\ Again(todo) \in {0, 1}  BY <1>2, <1>3 DEF Again
<1>8. TranslationsAtLines'  BY <1>2, <1>3, <1>5 DEF TranslationsAtLines
<1>9. WorkFollowsLists'  BY <1>3 DEF WorkFollowsLists
<1>10. ContentTypeOK'
  <2>1. asked' \in 0 .. 3 * lines'  BY <1>1
  <2>2. todo' \in Seq(List)  BY <1>2, <1>3 DEF InLine
  <2> QED  BY <1>3, <1>5, <2>1, <2>2 DEF LinesInv, ContentTypeOK
<1>11. Paid'
  <2>1. Len(todo') = m - 1  BY <1>2, <1>3
  <2> HIDE DEF t, m, list
  <2>2. asked + 1 <= 3 * list.to + (m - 1) + 0
    <3> DEFINE e == list.to
    <3>1. e \in Nat /\ t + 1 <= e  BY <1>6
    <3> HIDE DEF e
    <3>2. asked + 1 <= 3 * e + (m - 1) + 0  BY <1>1, <1>7, <3>1
    <3> QED  BY <3>2 DEF e
  <2> QED  BY <1>5, <1>7, <2>1, <2>2 DEF Paid
<1>12. AnalysesAtLines' /\ LinesInPlace'  BY <1>3 DEF LinesInv, AnalysesAtLines, LinesInPlace
<1> QED  BY <1>8, <1>9, <1>10, <1>11, <1>12 DEF LinesInv

LEMMA RecoveringKeeps ==
  ASSUME LinesInv, work = "translate",
         ~Single(Head(todo)) \/ Head(todo).mode = "half",
         todo' = Recovering(Head(todo)) \o Tail(todo), asked' = asked + 1,
         UNCHANGED <<work, translations, lines, analyses, tries, processed>>
  PROVE  LinesInv'
<1> DEFINE list == todo[1]
           t == Len(translations)
           m == Len(todo)
           p == Recovering(list)
<1>1. /\ asked + 1 <= 3 * lines /\ asked \in Nat /\ lines \in Nat
      /\ asked <= 3 * t + m + Again(todo)
      /\ t \in Nat /\ m \in Nat \ {0} /\ InLine(todo, t, lines) /\ todo # <<>>
      /\ list \in List /\ list.from = t + 1 /\ list.from <= list.to
  BY AskedInTime
<1>2. Head(todo) = list  BY <1>1, TailInLine
<1>3. Again(todo) = 0
  <2>1. list.mode = "again" => Single(list)  BY <1>1 DEF InLine, Askable
  <2> QED  BY <1>2, <2>1 DEF Again
<1>4. Replaces(p, list) /\ Len(p) + Again(p) = 2 /\ Len(p) \in Nat /\ Again(p) \in Nat
  <2>1. CASE Single(list)
    <3>1. p = <<[list EXCEPT !.mode = "again"]>>  BY <2>1 DEF Recovering
    <3>2. Len(p) = 1 /\ p[1].mode = "again" /\ p # <<>>  BY <1>1, <3>1 DEF List
    <3> QED  BY <1>1, <2>1, <3>1, <3>2, AgainReplaces DEF Again
  <2>2. CASE ~Single(list)
    <3>1. p = Halves(list)  BY <2>2 DEF Recovering
    <3>2. Len(p) = 2 /\ p[1].mode = "half"  BY <3>1 DEF Halves, ListOf
    <3> QED  BY <1>1, <2>2, <3>1, <3>2, HalvesReplace DEF Again
  <2> QED  BY <2>1, <2>2
<1>5. todo' = p \o Tail(todo)  BY <1>2
<1> HIDE DEF p
<1>6. /\ InLine(todo', t, lines) /\ todo' # <<>> /\ Len(todo') = Len(p) + m - 1 /\ todo'[1] = p[1]
  <2>1. Replaces(p, todo[1])  BY <1>4
  <2> HIDE DEF t, m
  <2>2. /\ InLine(p \o Tail(todo), t, lines) /\ p \o Tail(todo) # <<>>
        /\ Len(p \o Tail(todo)) = Len(p) + Len(todo) - 1
        /\ (p \o Tail(todo))[1] = p[1]
    <3>1. t \in Nat /\ lines \in Nat /\ InLine(todo, t, lines) /\ todo # <<>>  BY <1>1
    <3> QED  BY <2>1, <3>1, ReplacedInLine
  <2>3. Len(p \o Tail(todo)) = Len(p) + m - 1  BY <2>2 DEF m
  <2> QED  BY <1>5, <2>2, <2>3
<1>7. Again(todo') = Again(p)  BY <1>4, <1>6 DEF Again, Replaces
<1>8. TranslationsAtLines'  BY <1>6 DEF LinesInv, TranslationsAtLines
<1>9. WorkFollowsLists'  BY <1>6 DEF WorkFollowsLists
<1>10. ContentTypeOK'
  <2>1. asked' \in 0 .. 3 * lines'  BY <1>1
  <2>2. todo' \in Seq(List)  BY <1>6 DEF InLine
  <2> QED  BY <2>1, <2>2 DEF LinesInv, ContentTypeOK
<1>11. Paid'
  <2> HIDE DEF t, m
  <2>1. asked + 1 <= 3 * t + (Len(p) + m - 1) + Again(p)  BY <1>1, <1>3, <1>4
  <2> QED  BY <1>6, <1>7, <2>1 DEF Paid, t
<1>12. AnalysesAtLines' /\ LinesInPlace'  BY DEF LinesInv, AnalysesAtLines, LinesInPlace
<1> QED  BY <1>8, <1>9, <1>10, <1>11, <1>12 DEF LinesInv

LEMMA BatchFailsKeeps ==
  ASSUME LinesInv, work' = "failed", asked' \in 0 .. 3 * lines,
         UNCHANGED <<lines, todo, translations, analyses, processed>>, tries' \in 0 .. 1
  PROVE  LinesInv'
BY DEF LinesInv, ContentTypeOK, TranslationsAtLines, AnalysesAtLines, WorkFollowsLists, Paid, LinesInPlace

LEMMA AskKeeps == LinesInv /\ Ask => LinesInv'
<1> SUFFICES ASSUME LinesInv, Ask PROVE LinesInv'  OBVIOUS
<1>1. work = "translate" /\ asked' = asked + 1 /\ UNCHANGED <<lines, analyses, tries, processed>>  BY DEF Ask
<1>2. asked' \in 0 .. 3 * lines /\ tries' \in 0 .. 1  BY <1>1, AskedInTime DEF LinesInv, ContentTypeOK
<1> DEFINE list == Head(todo)
<1>3. CASE TranslateList(list)  BY <1>1, <1>3, TranslatedKeeps DEF TranslateList
<1>4. CASE AnswerGarbled(list)  BY <1>1, <1>4, TranslatedKeeps, RecoveringKeeps DEF AnswerGarbled
<1>5. CASE RequestFails(list)  BY <1>1, <1>2, <1>5, TranslatedKeeps, BatchFailsKeeps DEF RequestFails
<1>6. CASE AnswerBroken  BY <1>1, <1>2, <1>6, BatchFailsKeeps DEF AnswerBroken
<1> QED  BY <1>3, <1>4, <1>5, <1>6 DEF Ask

-----------------------------------------------------------------------------
(* The tokens: the list that comes next starts where the analyses end.     *)
LEMMA NextInLine ==
  ASSUME LinesInv, AnalysesLeft
  PROVE  /\ NextLines \in List /\ NextLines.from = Len(analyses) + 1 /\ NextLines.from <= NextLines.to
         /\ \E j \in Nat : NextLines.to = Smaller(j * ChunkLines, lines)
<1> USE ContentAssumption
<1>1. PICK j \in Nat : Len(analyses) = Smaller(j * ChunkLines, lines)  BY DEF LinesInv, AnalysesAtLines
<1>2. lines \in 0 .. MaxLines /\ Len(analyses) \in Nat /\ Len(analyses) < lines
  BY LenProperties DEF AnalysesLeft, LinesInv, ContentTypeOK
<1>3. lines \in 1 .. MaxLines  BY <1>2
<1>4. j * ChunkLines \in Nat /\ (j + 1) * ChunkLines = j * ChunkLines + ChunkLines  BY MoreChunks
<1>5. Len(analyses) = j * ChunkLines /\ j * ChunkLines < lines  BY <1>1, <1>2, <1>4 DEF Smaller
<1>6. NextLines = Chunks(lines)[j + 1]  BY <1>5, ChunkIndex DEF NextLines
<1>7. /\ NextLines \in List /\ NextLines.from = j * ChunkLines + 1 /\ NextLines.from <= NextLines.to
      /\ NextLines.to = Smaller(j * ChunkLines + ChunkLines, lines)
  BY <1>3, <1>5, <1>6, ChunkBounds
<1>8. j + 1 \in Nat /\ NextLines.to = Smaller((j + 1) * ChunkLines, lines)  BY <1>4, <1>7
<1> QED  BY <1>5, <1>7, <1>8

LEMMA AnalysedKeeps ==
  ASSUME LinesInv, AnalysesLeft, NEW by \in {"model", "local"}, Analysed(by), KeepTranslations
  PROVE  LinesInv'
<1> DEFINE list == NextLines
<1>1. /\ list \in List /\ list.from = Len(analyses) + 1 /\ list.from <= list.to
      /\ \E j \in Nat : list.to = Smaller(j * ChunkLines, lines)
  BY NextInLine
<1>2. analyses \in Seq(Analysis) /\ \A k \in 1 .. Len(analyses) : analyses[k].of = k
  BY DEF LinesInv, ContentTypeOK, AnalysesAtLines
<1>3. /\ analyses' = analyses \o [k \in 1 .. list.to - list.from + 1 |-> [of |-> list.from + k - 1, by |-> by]]
      /\ tries' = 0 /\ UNCHANGED <<work, lines, todo, translations, asked, processed>>
  BY DEF Analysed, KeepTranslations
<1> HIDE DEF list
<1>4. /\ analyses' \in Seq(Analysis) /\ Len(analyses') = list.to
      /\ \A k \in 1 .. Len(analyses') : analyses'[k].of = k
  <2> DEFINE all == analyses \o [k \in 1 .. list.to - list.from + 1 |-> [of |-> list.from + k - 1, by |-> by]]
  <2>1. /\ all \in Seq(Analysis) /\ Len(all) = list.to
        /\ \A k \in 1 .. Len(all) : all[k].of = k
    <3>1. list.from = Len(analyses) + 1 /\ list.from <= list.to /\ list \in List  BY <1>1
    <3> QED  BY <1>2, <3>1, AnalysesInPlace
  <2>2. analyses' = all  BY <1>3
  <2> HIDE DEF all
  <2> QED  BY <2>1, <2>2
<1>5. AnalysesAtLines'  BY <1>1, <1>3, <1>4 DEF AnalysesAtLines
<1>6. ContentTypeOK' /\ TranslationsAtLines' /\ Paid'
  BY <1>3, <1>4 DEF LinesInv, ContentTypeOK, TranslationsAtLines, Paid
<1>7. WorkFollowsLists' /\ LinesInPlace'
  BY <1>3 DEF AnalysesLeft, LinesInv, WorkFollowsLists, LinesInPlace
<1> QED  BY <1>5, <1>6, <1>7 DEF LinesInv

LEMMA AnalysisKeeps == LinesInv /\ (AnalyseList \/ AnalysisFails) => LinesInv'
<1> SUFFICES ASSUME LinesInv, AnalyseList \/ AnalysisFails PROVE LinesInv'  OBVIOUS
<1>1. CASE AnalyseList  BY <1>1, AnalysedKeeps DEF AnalyseList
<1>2. CASE AnalysisFails
  <2>1. CASE Analysed("local")  BY <1>2, <2>1, AnalysedKeeps DEF AnalysisFails
  <2>2. CASE tries' = 1 /\ UNCHANGED <<work, analyses>>
    <3>1. UNCHANGED <<work, lines, todo, translations, asked, processed, analyses>>
      BY <1>2, <2>2 DEF AnalysisFails, KeepTranslations
    <3> QED
      BY <2>2, <3>1 DEF LinesInv, ContentTypeOK, TranslationsAtLines, AnalysesAtLines, WorkFollowsLists, Paid, LinesInPlace
  <2>3. CASE work' = "failed" /\ UNCHANGED <<tries, analyses>>
    <3>1. asked' \in 0 .. 3 * lines /\ tries' \in 0 .. 1 /\ UNCHANGED <<lines, todo, translations, processed>>
      BY <1>2, <2>3 DEF AnalysisFails, KeepTranslations, LinesInv, ContentTypeOK
    <3> QED  BY <2>3, <3>1, BatchFailsKeeps
  <2> QED  BY <1>2, <2>1, <2>2, <2>3 DEF AnalysisFails
<1> QED  BY <1>1, <1>2

(* The lists match in length, so every row has its own line and tokens. *)
LEMMA ProcessKeeps == LinesInv /\ ProcessLines => LinesInv'
<1> SUFFICES ASSUME LinesInv, ProcessLines PROVE LinesInv'  OBVIOUS
<1>1. work = "analyse" /\ Len(analyses) >= lines /\ todo = <<>>
      /\ UNCHANGED <<lines, todo, translations, asked, analyses, tries>>
  BY DEF ProcessLines, LinesInv, WorkFollowsLists
<1>2. lines \in Nat /\ translations \in Seq(Translation) /\ analyses \in Seq(Analysis)
  BY ContentAssumption DEF LinesInv, ContentTypeOK
<1>3. Len(translations) = lines /\ \A k \in 1 .. lines : translations[k].of = k
  BY <1>1 DEF LinesInv, TranslationsAtLines, InLine
<1>4. Len(analyses) = lines /\ \A k \in 1 .. lines : analyses[k].of = k
  <2>1. PICK j \in Nat : Len(analyses) = Smaller(j * ChunkLines, lines)  BY DEF LinesInv, AnalysesAtLines
  <2>2. j * ChunkLines \in Nat /\ Len(analyses) \in Nat  BY <1>2, LenProperties, MoreChunks, ContentAssumption
  <2>3. Len(analyses) = lines  BY <1>1, <1>2, <2>1, <2>2 DEF Smaller
  <2> QED  BY <2>3 DEF LinesInv, AnalysesAtLines
<1>5. Matching  BY <1>3, <1>4 DEF Matching
<1>6. PICK known \in SUBSET (1 .. lines) :
        processed' = [k \in 1 .. lines |-> [line |-> Glossed(translations[k], known), tokens |-> analyses[k]]]
  BY <1>5 DEF ProcessLines
<1>7. work' = "done"  BY <1>5 DEF ProcessLines
<1>8. ASSUME NEW k \in 1 .. lines
      PROVE  /\ Glossed(translations[k], known) \in Translation /\ Glossed(translations[k], known).of = k
             /\ analyses[k] \in Analysis
  <2>1. translations[k] \in Translation /\ translations[k].of = k /\ analyses[k] \in Analysis
    BY <1>2, <1>3, <1>4, ElementOfSeq
  <2> QED  BY <2>1 DEF Glossed, Translation
<1> DEFINE Row == [line : Translation, tokens : Analysis]
<1>9. /\ processed' \in Seq(Row) /\ Len(processed') = lines
      /\ \A k \in 1 .. lines : processed'[k].line.of = k /\ processed'[k].tokens.of = k
  <2>1. \A k \in 1 .. lines : /\ processed'[k] = [line |-> Glossed(translations[k], known), tokens |-> analyses[k]]
                            /\ processed'[k] \in Row
    BY <1>6, <1>8
  <2>2. processed' \in [1 .. lines -> Row]  BY <1>6, <2>1
  <2> HIDE DEF Row
  <2>3. processed' \in Seq(Row) /\ Len(processed') = lines
    <3>1. processed' \in Seq(Row)  BY <1>2, <2>2
    <3>2. DOMAIN processed' = 1 .. lines  BY <2>2
    <3> QED  BY <1>2, <3>1, <3>2, LenProperties
  <2> QED  BY <1>4, <1>8, <2>1, <2>3
<1>10. ContentTypeOK'  BY <1>1, <1>7, <1>9 DEF LinesInv, ContentTypeOK
<1>11. TranslationsAtLines' /\ AnalysesAtLines' /\ WorkFollowsLists' /\ Paid'
  BY <1>1, <1>7 DEF LinesInv, TranslationsAtLines, AnalysesAtLines, WorkFollowsLists, Paid
<1>12. LinesInPlace'  BY <1>1, <1>7, <1>9 DEF LinesInPlace
<1> QED  BY <1>10, <1>11, <1>12 DEF LinesInv

LEMMA LinesKeep == LinesInv /\ [ContentNext]_contentVars => LinesInv'
<1> SUFFICES ASSUME LinesInv, [ContentNext]_contentVars PROVE LinesInv'  OBVIOUS
<1>1. CASE UNCHANGED contentVars
  BY <1>1 DEF contentVars, LinesInv, ContentTypeOK, TranslationsAtLines, AnalysesAtLines, WorkFollowsLists, Paid, LinesInPlace
<1> QED  BY <1>1, LoadKeeps, AskKeeps, AnalysisKeeps, ProcessKeeps DEF ContentNext

LEMMA LinesInvariant == ContentSpec => []LinesInv
BY LinesEstablish, LinesKeep, PTL DEF ContentSpec

(* process_batch, for every number of lines and every size of a request:   *)
(* whatever fails and however lists are split, a batch that is done has    *)
(* every line with its own text and its own tokens, and the lists that are *)
(* put together always have the same length.                               *)
THEOREM LinesKeepTheirPlace == ContentSpec => []LinesInPlace
<1>1. LinesInv => LinesInPlace  BY DEF LinesInv
<1> QED  BY <1>1, LinesInvariant, PTL

(* Types, and what translate_batch costs: never more than three requests a *)
(* line, whatever the model answers.                                       *)
THEOREM ContentTyped == ContentSpec => []ContentTypeOK
<1>1. LinesInv => ContentTypeOK  BY DEF LinesInv
<1> QED  BY <1>1, LinesInvariant, PTL

-----------------------------------------------------------------------------
(* The audio of an import.  The chunks of a file follow one another from   *)
(* its beginning, and less than a second is left behind the last one.      *)
LEMMA ChunksCover ==
  ASSUME NEW d \in Nat \ {0}
  PROVE  /\ ChunkCount(d) \in Nat \ {0}
         /\ \A n \in 0 .. ChunkCount(d) - 1 : ChunkOf(d, n) \in Piece
         /\ ChunkOf(d, 0).start = 0
         /\ \A n \in 1 .. ChunkCount(d) - 1 : ChunkOf(d, n).start = EndOf(ChunkOf(d, n - 1))
         /\ EndOf(ChunkOf(d, ChunkCount(d) - 1)) <= d
         /\ EndOf(ChunkOf(d, ChunkCount(d) - 1)) + Second > d
<1> DEFINE l == ChunkSeconds * Second
           c == ChunkCount(d)
<1>1. l \in Nat \ {0} /\ Second \in Nat \ {0} /\ Second <= l  BY AudioAssumption
<1>2. \A n \in Nat : n * ChunkSeconds * Second = n * l  BY AudioAssumption
<1>3. c \in Nat \ {0} /\ (c # 1 => (c - 1) * l <= d - Second /\ d - Second < c * l)
  <2>1. CASE d <= l  BY <2>1 DEF ChunkCount
  <2>2. CASE ~(d <= l)
    <3> DEFINE s == d + l - Second
    <3>1. c = s \div l  BY <2>2 DEF ChunkCount
    <3> HIDE DEF l, c
    <3>2. s \in Nat /\ l <= s  BY <1>1, <2>2
    <3> HIDE DEF s
    <3>3. c \in Nat /\ c * l <= s /\ s < c * l + l  BY <1>1, <3>1, <3>2
    <3>4. c # 0  BY <1>1, <3>2, <3>3
    <3>5. (c - 1) + 1 = c /\ c - 1 \in Nat  BY <3>3, <3>4
    <3>6. c * l = (c - 1) * l + l /\ (c - 1) * l \in Nat /\ c * l \in Nat  BY <1>1, <3>5, MoreChunks
    <3>7. (c - 1) * l <= d - Second /\ d - Second < c * l  BY <1>1, <3>3, <3>6 DEF s
    <3> QED  BY <3>3, <3>4, <3>7
  <2> QED  BY <2>1, <2>2
<1>4. CASE c = 1
  <2>1. \A n \in Nat : ChunkOf(d, n) = [start |-> 0, length |-> d]  BY <1>4 DEF ChunkOf
  <2> HIDE DEF c
  <2>2. ChunkOf(d, 0) = [start |-> 0, length |-> d] /\ ChunkOf(d, c - 1) = [start |-> 0, length |-> d]
    BY <1>4, <2>1
  <2>3. [start |-> 0, length |-> d] \in Piece  BY DEF Piece
  <2>4. EndOf([start |-> 0, length |-> d]) = d  BY DEF EndOf
  <2> QED  BY <1>1, <1>4, <2>1, <2>2, <2>3, <2>4 DEF c
<1>5. CASE c # 1
  <2>1. \A n \in Nat : ChunkOf(d, n) = [start |-> n * l, length |-> IF d - n * l < l THEN d - n * l ELSE l]
    BY <1>2, <1>5 DEF ChunkOf
  <2> HIDE DEF l, c
  <2>2. c - 1 \in Nat /\ (c - 1) * l <= d - Second /\ d - Second < c * l  BY <1>3, <1>5
  <2>3. ASSUME NEW n \in 0 .. c - 1
        PROVE  /\ n * l \in Nat /\ n * l < d
               /\ ChunkOf(d, n).start = n * l /\ ChunkOf(d, n) \in Piece
               /\ EndOf(ChunkOf(d, n)) = IF d - n * l < l THEN d ELSE n * l + l
               /\ (n + 1) * l = n * l + l
    <3>1. n * l \in Nat /\ n * l + ((c - 1) - n) <= (c - 1) * l /\ (n + 1) * l = n * l + l
          /\ (c - 1) * l \in Nat
      BY <1>1, <2>2, MoreChunks
    <3>2. n * l < d  BY <1>1, <2>2, <3>1
    <3> DEFINE x == n * l
    <3>3. x \in Nat /\ x < d  BY <3>1, <3>2
    <3>4. ChunkOf(d, n) = [start |-> x, length |-> IF d - x < l THEN d - x ELSE l]  BY <2>1
    <3> HIDE DEF x
    <3>5. (IF d - x < l THEN d - x ELSE l) \in Nat  BY <1>1, <3>3
    <3>6. ChunkOf(d, n) \in Piece /\ ChunkOf(d, n).start = x  BY <3>3, <3>4, <3>5 DEF Piece
    <3>7. EndOf(ChunkOf(d, n)) = IF d - x < l THEN d ELSE x + l  BY <1>1, <3>3, <3>4 DEF EndOf
    <3> QED  BY <3>1, <3>2, <3>6, <3>7 DEF x
  <2>4. ChunkOf(d, 0).start = 0
    <3>1. 0 \in 0 .. c - 1 /\ 0 * l = 0  BY <1>1, <2>2
    <3> QED  BY <2>3, <3>1
  <2>5. ASSUME NEW n \in 1 .. c - 1 PROVE ChunkOf(d, n).start = EndOf(ChunkOf(d, n - 1))
    <3>1. n - 1 \in 0 .. c - 1 /\ n \in 0 .. c - 1 /\ (n - 1) + 1 = n  BY <2>2
    <3>2. n * l = (n - 1) * l + l /\ n * l < d /\ n * l \in Nat /\ (n - 1) * l \in Nat  BY <2>3, <3>1
    <3>3. ~(d - (n - 1) * l < l)  BY <1>1, <3>2
    <3> QED  BY <2>3, <3>1, <3>2, <3>3
  <2>6. c - 1 \in 0 .. c - 1 /\ (c - 1) + 1 = c  BY <1>3, <2>2
  <2>7. /\ EndOf(ChunkOf(d, c - 1)) = IF d - (c - 1) * l < l THEN d ELSE c * l
        /\ (c - 1) * l \in Nat /\ c * l = (c - 1) * l + l
    BY <2>3, <2>6
  <2>8. EndOf(ChunkOf(d, c - 1)) <= d /\ EndOf(ChunkOf(d, c - 1)) + Second > d
    BY <1>1, <2>2, <2>7
  <2> QED  BY <1>3, <2>3, <2>4, <2>5, <2>8 DEF c
<1> QED  BY <1>4, <1>5

(* What an import has at its step: audio is only taken up when its         *)
(* duration is known, the pieces are the first chunks of it, and a         *)
(* transcript that is done has them all.                                   *)
HasAudio(a) ==
  /\ a.pc \in {"media", "inspect", "chunk"} => a.duration # 0
  /\ a.pc \in {"read", "write"} =>
       a.then \in {"attempt", "failed"} \/ (a.then \in {"media", "inspect"} /\ a.duration # 0)
HasChunks(a, t) ==
  /\ \A k \in 1 .. Len(t) : t[k] = ChunkOf(a.duration, k - 1)
  /\ a.pc = "chunk" => Len(t) < ChunkCount(a.duration)
  /\ a.pc = "done" => t = <<>> \/ (a.duration # 0 /\ Len(t) = ChunkCount(a.duration))
  /\ a.pc \notin {"chunk", "done"} => t = <<>>

AudioInv ==
  /\ AudioTypeOK /\ StatusKeepsVerdict
  /\ \A i \in Imports : HasAudio(audio[i]) /\ HasChunks(audio[i], transcript[i])

LEMMA AudioEstablishes == AudioInit => AudioInv
<1> SUFFICES ASSUME AudioInit PROVE AudioInv  OBVIOUS
<1> USE DEF AudioInit
<1> DEFINE first == [pc |-> "metadata", attempt |-> 1, session |-> FALSE, mark |-> "valid",
                     then |-> "media", status |-> "unknown", duration |-> 0, tries |-> 1]
<1>1. 1 \in 1 .. MaxDownloads /\ 1 \in 1 .. MaxTranscriptions  BY AudioAssumption
<1>2. first \in Progress  BY <1>1 DEF Progress, Steps, Marks, Statuses
<1>3. <<>> \in Seq(Piece) /\ Len(<<>>) = 0  BY EmptySeq
<1>4. AudioTypeOK  BY <1>2, <1>3 DEF AudioTypeOK, Statuses
<1>5. ASSUME NEW i \in Imports PROVE HasAudio(audio[i]) /\ HasChunks(audio[i], transcript[i])
  <2>1. audio[i].pc = "metadata" /\ transcript[i] = <<>>  OBVIOUS
  <2> QED  BY <1>3, <2>1 DEF HasAudio, HasChunks
<1> QED  BY <1>4, <1>5 DEF AudioInv, StatusKeepsVerdict

(* A step of one import. *)
LEMMA ImportKeeps ==
  ASSUME AudioInv, NEW i \in Imports, NEW a \in Progress, NEW t \in Seq(Piece),
         audio' = [audio EXCEPT ![i] = a], transcript' = [transcript EXCEPT ![i] = t],
         HasAudio(a), HasChunks(a, t),
         cookies' \in BOOLEAN, cookieStatus' \in Statuses, verdict' \in Statuses, StatusKeepsVerdict'
  PROVE  AudioInv'
<1>1. audio \in [Imports -> Progress] /\ transcript \in [Imports -> Seq(Piece)]  BY DEF AudioInv, AudioTypeOK
<1>2. audio' \in [Imports -> Progress] /\ transcript' \in [Imports -> Seq(Piece)]  BY <1>1
<1>3. audio'[i] = a /\ transcript'[i] = t
      /\ \A j \in Imports \ {i} : audio'[j] = audio[j] /\ transcript'[j] = transcript[j]
  BY <1>1
<1>4. ASSUME NEW j \in Imports PROVE HasAudio(audio'[j]) /\ HasChunks(audio'[j], transcript'[j])
  BY <1>3 DEF AudioInv
<1> QED  BY <1>2, <1>4 DEF AudioInv, AudioTypeOK

(* A step before the transcription: nothing is transcribed yet. *)
LEMMA EarlyKeeps ==
  ASSUME AudioInv, NEW i \in Imports, NEW a \in Progress,
         audio' = [audio EXCEPT ![i] = a], UNCHANGED transcript, transcript[i] = <<>>,
         HasAudio(a), a.pc # "chunk",
         cookies' \in BOOLEAN, cookieStatus' \in Statuses, verdict' \in Statuses, StatusKeepsVerdict'
  PROVE  AudioInv'
<1>1. transcript \in [Imports -> Seq(Piece)]  BY DEF AudioInv, AudioTypeOK
<1>2. <<>> \in Seq(Piece) /\ Len(<<>>) = 0  BY EmptySeq
<1>3. transcript' = [transcript EXCEPT ![i] = <<>>]  BY <1>1
<1>4. HasChunks(a, <<>>)
  <2>1. 1 .. Len(<<>>) = {}  BY <1>2
  <2> QED  BY <2>1 DEF HasChunks
<1> QED  BY <1>2, <1>3, <1>4, ImportKeeps

(* What is known of an import that takes a step. *)
LEMMA ImportKnown ==
  ASSUME AudioInv, NEW i \in Imports
  PROVE  /\ audio \in [Imports -> Progress] /\ audio[i] \in Progress
         /\ transcript \in [Imports -> Seq(Piece)] /\ transcript[i] \in Seq(Piece)
         /\ HasAudio(audio[i]) /\ HasChunks(audio[i], transcript[i])
         /\ audio[i].pc \notin {"chunk", "done"} => transcript[i] = <<>>
         /\ KeepCookies => cookies' \in BOOLEAN /\ cookieStatus' \in Statuses /\ verdict' \in Statuses
                            /\ StatusKeepsVerdict'
BY DEF AudioInv, AudioTypeOK, HasChunks, KeepCookies, StatusKeepsVerdict

LEMMA SourceKeeps ==
  ASSUME AudioInv, NEW i \in Imports, GetMetadata(i) \/ FetchCaptions(i) \/ BeginAttempt(i) \/ ReadStatus(i)
  PROVE  AudioInv'
<1>0. UNCHANGED transcript /\ KeepCookies /\ ~AudioAt(i, "chunk") /\ ~AudioAt(i, "done")
  BY DEF GetMetadata, FetchCaptions, BeginAttempt, ReadStatus, AudioAt
<1>1. /\ audio \in [Imports -> Progress] /\ audio[i] \in Progress /\ transcript[i] = <<>> /\ HasAudio(audio[i])
      /\ cookies' \in BOOLEAN /\ cookieStatus' \in Statuses /\ verdict' \in Statuses /\ StatusKeepsVerdict'
      /\ cookies \in BOOLEAN /\ cookieStatus \in Statuses
  BY <1>0, ImportKnown DEF AudioAt, AudioInv, AudioTypeOK
<1>2. ASSUME NEW pc \in {"captions", "failed", "done", "attempt"}, Become(i, pc) PROVE AudioInv'
  <2> DEFINE a == [audio[i] EXCEPT !.pc = pc]
  <2>1. a \in Progress /\ a.pc = pc  BY <1>1 DEF Progress, Steps
  <2>2. audio' = [audio EXCEPT ![i] = a]  BY <1>1, <1>2 DEF Become
  <2>3. HasAudio(a) /\ a.pc # "chunk"  BY <2>1 DEF HasAudio
  <2> HIDE DEF a
  <2> QED  BY <1>0, <1>1, <2>1, <2>2, <2>3, EarlyKeeps
<1>3. CASE BeginAttempt(i)
  <2> DEFINE a == [audio[i] EXCEPT !.pc = "probe", !.session = cookies]
  <2>1. a \in Progress /\ a.pc = "probe"  BY <1>1 DEF Progress, Steps
  <2>2. audio' = [audio EXCEPT ![i] = a]  BY <1>1, <1>3 DEF BeginAttempt
  <2>3. HasAudio(a) /\ a.pc # "chunk"  BY <2>1 DEF HasAudio
  <2> HIDE DEF a
  <2> QED  BY <1>0, <1>1, <2>1, <2>2, <2>3, EarlyKeeps
<1>4. CASE ReadStatus(i)
  <2> DEFINE a == [audio[i] EXCEPT !.pc = "write", !.status = cookieStatus]
  <2>1. a \in Progress /\ a.pc = "write" /\ a.then = audio[i].then /\ a.duration = audio[i].duration
    BY <1>1 DEF Progress, Steps
  <2>2. audio' = [audio EXCEPT ![i] = a]  BY <1>1, <1>4 DEF ReadStatus
  <2>3. HasAudio(a) /\ a.pc # "chunk"  BY <1>1, <1>4, <2>1 DEF HasAudio, ReadStatus, AudioAt
  <2> HIDE DEF a
  <2> QED  BY <1>0, <1>1, <2>1, <2>2, <2>3, EarlyKeeps
<1> QED  BY <1>2, <1>3, <1>4 DEF GetMetadata, FetchCaptions

(* A failed download: it is tried again only while there are attempts.     *)
LEMMA FailureKeeps ==
  ASSUME AudioInv, NEW i \in Imports, AudioAt(i, "probe") \/ AudioAt(i, "media"),
         NEW outcome \in Outcomes, DownloadFails(i, outcome), UNCHANGED transcript, KeepCookies
  PROVE  AudioInv'
<1> DEFINE again == Retryable(outcome) /\ AttemptsLeft(i)
           then == IF again THEN "attempt" ELSE "failed"
           marks == outcome \in {"cookie", "forbidden"} /\ audio[i].session
           pc == IF marks THEN "read" ELSE then
           mark == IF outcome = "cookie" THEN "needs_refresh" ELSE "media"
           attempt == IF again THEN audio[i].attempt + 1 ELSE audio[i].attempt
           a == [audio[i] EXCEPT !.pc = pc, !.mark = mark, !.then = then, !.attempt = attempt]
<1>1. /\ audio \in [Imports -> Progress] /\ audio[i] \in Progress /\ transcript[i] = <<>>
      /\ cookies' \in BOOLEAN /\ cookieStatus' \in Statuses /\ verdict' \in Statuses /\ StatusKeepsVerdict'
  BY ImportKnown DEF AudioAt
<1>2. audio[i].attempt \in 1 .. MaxDownloads /\ MaxDownloads \in Nat  BY <1>1, AudioAssumption DEF Progress
<1>3. attempt \in 1 .. MaxDownloads  BY <1>2 DEF AttemptsLeft
<1>4. then \in {"attempt", "failed"} /\ pc \in {"read", "attempt", "failed"} /\ mark \in Marks  BY DEF Marks
<1>5. audio' = [audio EXCEPT ![i] = a]  BY <1>1 DEF DownloadFails
<1> HIDE DEF again, then, marks, pc, mark, attempt
<1>6. a \in Progress /\ a.pc = pc /\ a.then = then  BY <1>1, <1>3, <1>4 DEF Progress, Steps
<1> HIDE DEF a
<1>7. HasAudio(a) /\ a.pc # "chunk"  BY <1>4, <1>6 DEF HasAudio
<1> QED  BY <1>1, <1>5, <1>6, <1>7, EarlyKeeps

(* A download that goes on, perhaps after it marked the cookies. *)
LEMMA GoesOnKeeps ==
  ASSUME AudioInv, NEW i \in Imports, AudioAt(i, "probe") \/ AudioAt(i, "media"),
         NEW then \in {"media", "inspect", "failed"}, NEW d \in Durations,
         audio' = [MarkThen(i, "valid", then) EXCEPT ![i].duration = d], UNCHANGED transcript, KeepCookies
  PROVE  AudioInv'
<1> DEFINE pc == IF audio[i].session THEN "read" ELSE then
           a == [audio[i] EXCEPT !.pc = pc, !.mark = "valid", !.then = then, !.duration = d]
<1>1. /\ audio \in [Imports -> Progress] /\ audio[i] \in Progress /\ transcript[i] = <<>>
      /\ cookies' \in BOOLEAN /\ cookieStatus' \in Statuses /\ verdict' \in Statuses /\ StatusKeepsVerdict'
  BY ImportKnown DEF AudioAt
<1>2. audio' = [audio EXCEPT ![i] = a]
  <2>1. MarkThen(i, "valid", then) = [audio EXCEPT ![i] = [audio[i] EXCEPT !.pc = pc, !.mark = "valid", !.then = then]]
    BY <1>1 DEF MarkThen
  <2> QED  BY <1>1, <2>1
<1>3. d # 0 /\ pc \in {"read", "media", "inspect", "failed"}  BY AudioAssumption
<1> HIDE DEF pc
<1>4. a \in Progress /\ a.pc = pc /\ a.then = then /\ a.duration = d
  BY <1>1, <1>3 DEF Progress, Steps, Marks
<1>5. HasAudio(a) /\ a.pc # "chunk"  BY <1>3, <1>4 DEF HasAudio
<1> HIDE DEF a
<1> QED  BY <1>1, <1>2, <1>4, <1>5, EarlyKeeps

LEMMA DownloadKeeps == ASSUME AudioInv, NEW i \in Imports, Probe(i) \/ Download(i) PROVE AudioInv'
<1>1. UNCHANGED transcript /\ KeepCookies  BY DEF Probe, Download
<1>2. AudioAt(i, "probe") \/ AudioAt(i, "media")  BY DEF Probe, Download
<1>3. ASSUME NEW outcome \in Outcomes, DownloadFails(i, outcome) PROVE AudioInv'
  BY <1>1, <1>2, <1>3, FailureKeeps
<1>4. ASSUME NEW d \in Durations, NEW then \in {"failed", "media"},
             audio' = [MarkThen(i, "valid", then) EXCEPT ![i].duration = d]
      PROVE  AudioInv'
  BY <1>1, <1>2, <1>4, GoesOnKeeps
<1>5. CASE Probe(i)
  <2>1. ASSUME NEW d \in Durations, NEW announced \in BOOLEAN,
               audio' = [MarkThen(i, "valid", IF announced /\ TooLong(d) THEN "failed" ELSE "media")
                           EXCEPT ![i].duration = d]
        PROVE  AudioInv'
    <3>1. CASE announced /\ TooLong(d)
      <4>1. audio' = [MarkThen(i, "valid", "failed") EXCEPT ![i].duration = d]  BY <2>1, <3>1
      <4> QED  BY <1>4, <4>1
    <3>2. CASE ~(announced /\ TooLong(d))
      <4>1. audio' = [MarkThen(i, "valid", "media") EXCEPT ![i].duration = d]  BY <2>1, <3>2
      <4> QED  BY <1>4, <4>1
    <3> QED  BY <3>1, <3>2
  <2> QED  BY <1>3, <1>5, <2>1 DEF Probe
<1>6. CASE Download(i) /\ audio' = MarkThen(i, "valid", "inspect")
  <2> DEFINE d == audio[i].duration
  <2>1. audio \in [Imports -> Progress] /\ audio[i] \in Progress /\ HasAudio(audio[i])  BY ImportKnown
  <2>2. d \in Durations  BY <1>6, <2>1 DEF Download, AudioAt, HasAudio, Progress
  <2>3. audio' = [MarkThen(i, "valid", "inspect") EXCEPT ![i].duration = d]
    <3> DEFINE b == MarkThen(i, "valid", "inspect")
    <3>1. /\ b = [audio EXCEPT ![i] = [audio[i] EXCEPT !.pc = IF audio[i].session THEN "read" ELSE "inspect",
                                                     !.mark = "valid", !.then = "inspect"]]
      BY <2>1 DEF MarkThen
    <3>2. b[i].duration = d /\ b \in [Imports -> Progress]
      <4> DEFINE pc == IF audio[i].session THEN "read" ELSE "inspect"
                 a == [audio[i] EXCEPT !.pc = pc, !.mark = "valid", !.then = "inspect"]
      <4>1. pc \in Steps  BY DEF Steps
      <4>2. b = [audio EXCEPT ![i] = a]  BY <3>1
      <4> HIDE DEF pc
      <4>3. a \in Progress /\ a.duration = d  BY <2>1, <4>1 DEF Progress, Steps, Marks
      <4> HIDE DEF a, b
      <4> QED  BY <2>1, <4>2, <4>3
    <3> HIDE DEF b, d
    <3>4. b[i] \in Progress  BY <3>2
    <3>5. [b[i] EXCEPT !.duration = d] = b[i]  BY <3>2, <3>4 DEF Progress
    <3>6. [b EXCEPT ![i].duration = d] = [b EXCEPT ![i] = [b[i] EXCEPT !.duration = d]]  BY <3>2
    <3>7. [b EXCEPT ![i] = b[i]] = b  BY <3>2
    <3>3. b = [b EXCEPT ![i].duration = d]  BY <3>5, <3>6, <3>7
    <3> USE DEF b
    <3> QED  BY <1>6, <3>3
  <2> HIDE DEF d
  <2> QED  BY <1>1, <1>2, <2>2, <2>3, GoesOnKeeps
<1> QED  BY <1>3, <1>5, <1>6 DEF Download

(* The verdict a mark leaves is written, unless the mark leaves none. *)
LEMMA WriteStatusKeeps == ASSUME AudioInv, NEW i \in Imports, WriteStatus(i) PROVE AudioInv'
<1> DEFINE a == [audio[i] EXCEPT !.pc = audio[i].then]
<1>1. /\ audio \in [Imports -> Progress] /\ audio[i] \in Progress /\ transcript[i] = <<>> /\ HasAudio(audio[i])
      /\ cookies \in BOOLEAN /\ cookieStatus \in Statuses /\ verdict \in Statuses /\ StatusKeepsVerdict
  BY ImportKnown DEF WriteStatus, AudioAt, AudioInv, AudioTypeOK
<1>2. audio[i].then \in Steps /\ audio[i].mark \in Marks /\ audio[i].status \in Statuses  BY <1>1 DEF Progress
<1>3. a \in Progress /\ a.pc = audio[i].then /\ a.duration = audio[i].duration  BY <1>1, <1>2 DEF Progress
<1>4. audio[i].then \in {"attempt", "failed"} \/ (audio[i].then \in {"media", "inspect"} /\ audio[i].duration # 0)
  BY <1>1 DEF WriteStatus, AudioAt, HasAudio
<1>5. HasAudio(a) /\ a.pc # "chunk"  BY <1>3, <1>4 DEF HasAudio
<1>6. audio' = [audio EXCEPT ![i] = a]  BY <1>1 DEF WriteStatus, Become
<1>7. /\ cookies' \in BOOLEAN /\ cookieStatus' \in Statuses /\ verdict' \in Statuses /\ StatusKeepsVerdict'
  <2>1. CASE audio[i].mark = "media"
    <3>1. /\ cookieStatus' = audio[i].status /\ verdict' = verdict /\ UNCHANGED cookies
          /\ mediaRaced' = (mediaRaced \/ audio[i].status # cookieStatus)
      BY <2>1 DEF WriteStatus, Marked
    <3> QED  BY <1>1, <1>2, <3>1 DEF StatusKeepsVerdict
  <2>2. CASE audio[i].mark # "media"
    <3>1. cookieStatus' = audio[i].mark /\ verdict' = audio[i].mark /\ UNCHANGED cookies
      BY <2>2 DEF WriteStatus, Marked
    <3>2. audio[i].mark \in Statuses  BY <1>2, <2>2 DEF Marks, Statuses
    <3> QED  BY <1>1, <3>1, <3>2 DEF StatusKeepsVerdict
  <2> QED  BY <2>1, <2>2
<1>8. UNCHANGED transcript  BY DEF WriteStatus
<1> HIDE DEF a
<1> QED  BY <1>1, <1>3, <1>5, <1>6, <1>7, <1>8, EarlyKeeps

LEMMA InspectKeeps == ASSUME AudioInv, NEW i \in Imports, InspectAudio(i) PROVE AudioInv'
<1>1. /\ audio \in [Imports -> Progress] /\ audio[i] \in Progress /\ HasAudio(audio[i])
      /\ transcript \in [Imports -> Seq(Piece)] /\ transcript[i] = <<>>
      /\ cookies' \in BOOLEAN /\ cookieStatus' \in Statuses /\ verdict' \in Statuses /\ StatusKeepsVerdict'
  BY ImportKnown DEF InspectAudio, AudioAt
<1>2. PICK pc \in {"chunk", "failed"} : Become(i, pc)  BY DEF InspectAudio
<1> DEFINE a == [audio[i] EXCEPT !.pc = pc]
<1>3. a \in Progress /\ a.pc = pc /\ a.duration = audio[i].duration  BY <1>1, <1>2 DEF Progress, Steps
<1>4. audio' = [audio EXCEPT ![i] = a]  BY <1>1, <1>2 DEF Become
<1>5. a.duration # 0 /\ a.duration \in Nat \ {0}
  BY <1>1, <1>3, AudioAssumption DEF InspectAudio, AudioAt, HasAudio, Progress
<1>6. <<>> \in Seq(Piece) /\ Len(<<>>) = 0  BY EmptySeq
<1>7. transcript' = [transcript EXCEPT ![i] = <<>>]  BY <1>1 DEF InspectAudio
<1>8. HasAudio(a)  BY <1>3, <1>5, <1>2 DEF HasAudio
<1> HIDE DEF a
<1>9. HasChunks(a, <<>>)
  <2>1. 1 .. Len(<<>>) = {}  BY <1>6
  <2>2. 0 < ChunkCount(a.duration)  BY <1>5, ChunksCover
  <2> QED  BY <1>2, <1>3, <1>6, <2>1, <2>2 DEF HasChunks
<1> QED  BY <1>1, <1>3, <1>4, <1>6, <1>7, <1>8, <1>9, ImportKeeps

(* A chunk that is transcribed comes after those before it. *)
LEMMA TranscribeKeeps == ASSUME AudioInv, NEW i \in Imports, TranscribeChunk(i) PROVE AudioInv'
<1> DEFINE d == audio[i].duration
           t == transcript[i]
           n == Len(t)
           pc == IF n + 1 < ChunkCount(d) THEN "chunk" ELSE "done"
           a == [audio[i] EXCEPT !.tries = 1, !.pc = pc]
           u == Append(t, ChunkOf(d, n))
<1>1. /\ audio \in [Imports -> Progress] /\ audio[i] \in Progress /\ HasAudio(audio[i])
      /\ transcript \in [Imports -> Seq(Piece)] /\ t \in Seq(Piece) /\ HasChunks(audio[i], t)
      /\ cookies' \in BOOLEAN /\ cookieStatus' \in Statuses /\ verdict' \in Statuses /\ StatusKeepsVerdict'
  BY ImportKnown DEF TranscribeChunk
<1>2. audio[i].pc = "chunk"  BY DEF TranscribeChunk, AudioAt
<1>3. audio' = [audio EXCEPT ![i] = a] /\ transcript' = [transcript EXCEPT ![i] = u]
  BY <1>1 DEF TranscribeChunk
<1>4. d \in Nat \ {0}  BY <1>1, <1>2, AudioAssumption DEF HasAudio, Progress
<1>5. n \in Nat /\ n < ChunkCount(d) /\ \A k \in 1 .. n : t[k] = ChunkOf(d, k - 1)
  BY <1>1, <1>2, LenProperties DEF HasChunks
<1> DEFINE c == ChunkCount(d)
<1>6. c \in Nat \ {0} /\ \A k \in 0 .. c - 1 : ChunkOf(d, k) \in Piece  BY <1>4, ChunksCover
<1>7. ChunkOf(d, n) \in Piece
  <2>1. n \in 0 .. c - 1  BY <1>5, <1>6
  <2> QED  BY <1>6, <2>1
<1>8. u \in Seq(Piece) /\ Len(u) = n + 1 /\ (\A k \in 1 .. n : u[k] = t[k]) /\ u[n + 1] = ChunkOf(d, n)
  BY <1>1, <1>7, AppendProperties
<1>9. pc \in {"chunk", "done"} /\ (pc = "chunk" => n + 1 < c) /\ (pc = "done" => n + 1 = c)
  BY <1>5, <1>6
<1>10. 1 \in 1 .. MaxTranscriptions  BY AudioAssumption
<1> HIDE DEF pc, u
<1>11. a \in Progress /\ a.pc = pc /\ a.duration = d  BY <1>1, <1>9, <1>10 DEF Progress, Steps
<1> HIDE DEF a, d, t, n, c
<1>12. HasAudio(a)  BY <1>4, <1>9, <1>11 DEF HasAudio
<1>13. \A k \in 1 .. Len(u) : u[k] = ChunkOf(d, k - 1)
  <2> SUFFICES ASSUME NEW k \in 1 .. n + 1 PROVE u[k] = ChunkOf(d, k - 1)  BY <1>8
  <2>1. CASE k \in 1 .. n  BY <2>1, <1>5, <1>8
  <2>2. CASE k = n + 1
    <3>1. k - 1 = n  BY <2>2, <1>5
    <3> QED  BY <2>2, <3>1, <1>8
  <2> QED  BY <2>1, <2>2, <1>5
<1>14. HasChunks(a, u)
  <2>1. a.pc = "chunk" => Len(u) < ChunkCount(d)  BY <1>8, <1>9, <1>11 DEF c
  <2>2. a.pc = "done" => d # 0 /\ Len(u) = ChunkCount(d)  BY <1>4, <1>8, <1>9, <1>11 DEF c
  <2>3. a.pc \in {"chunk", "done"}  BY <1>9, <1>11
  <2> QED  BY <1>11, <1>13, <2>1, <2>2, <2>3 DEF HasChunks
<1> QED  BY <1>1, <1>3, <1>8, <1>11, <1>12, <1>14, ImportKeeps

LEMMA ChunkFailsKeeps == ASSUME AudioInv, NEW i \in Imports, ChunkFails(i) PROVE AudioInv'
<1> DEFINE t == transcript[i]
<1>1. /\ audio \in [Imports -> Progress] /\ audio[i] \in Progress /\ HasAudio(audio[i])
      /\ transcript \in [Imports -> Seq(Piece)] /\ t \in Seq(Piece) /\ HasChunks(audio[i], t)
      /\ cookies' \in BOOLEAN /\ cookieStatus' \in Statuses /\ verdict' \in Statuses /\ StatusKeepsVerdict'
  BY ImportKnown DEF ChunkFails
<1>2. audio[i].pc = "chunk"  BY DEF ChunkFails, AudioAt
<1>3. CASE /\ audio[i].tries < MaxTranscriptions
           /\ audio' = [audio EXCEPT ![i].tries = @ + 1]
           /\ UNCHANGED transcript
  <2> DEFINE a == [audio[i] EXCEPT !.tries = audio[i].tries + 1]
  <2>1. audio[i].tries + 1 \in 1 .. MaxTranscriptions  BY <1>1, <1>3, AudioAssumption DEF Progress
  <2>2. a \in Progress /\ a.pc = "chunk" /\ a.duration = audio[i].duration  BY <1>1, <1>2, <2>1 DEF Progress
  <2>3. audio' = [audio EXCEPT ![i] = a] /\ transcript' = [transcript EXCEPT ![i] = t]  BY <1>1, <1>3
  <2> HIDE DEF a
  <2>4. HasAudio(a) /\ HasChunks(a, t)  BY <1>1, <1>2, <2>2 DEF HasAudio, HasChunks
  <2> QED  BY <1>1, <2>2, <2>3, <2>4, ImportKeeps
<1>4. CASE Become(i, "failed") /\ transcript' = [transcript EXCEPT ![i] = <<>>]
  <2> DEFINE a == [audio[i] EXCEPT !.pc = "failed"]
  <2>1. a \in Progress /\ a.pc = "failed"  BY <1>1 DEF Progress, Steps
  <2>2. audio' = [audio EXCEPT ![i] = a]  BY <1>1, <1>4 DEF Become
  <2>3. <<>> \in Seq(Piece) /\ 1 .. Len(<<>>) = {}  BY EmptySeq
  <2> HIDE DEF a
  <2>4. HasAudio(a) /\ HasChunks(a, <<>>)  BY <2>1, <2>3 DEF HasAudio, HasChunks
  <2> QED  BY <1>1, <1>4, <2>1, <2>2, <2>3, <2>4, ImportKeeps
<1> QED  BY <1>3, <1>4 DEF ChunkFails

LEMMA AudioKeeps == AudioInv /\ [AudioNext]_audioVars => AudioInv'
<1> SUFFICES ASSUME AudioInv, [AudioNext]_audioVars PROVE AudioInv'  OBVIOUS
<1>1. ASSUME NEW i \in Imports,
             \/ GetMetadata(i) \/ FetchCaptions(i)
             \/ BeginAttempt(i) \/ Probe(i) \/ Download(i) \/ ReadStatus(i) \/ WriteStatus(i)
             \/ InspectAudio(i) \/ TranscribeChunk(i) \/ ChunkFails(i)
      PROVE  AudioInv'
  BY <1>1, SourceKeeps, DownloadKeeps, WriteStatusKeeps, InspectKeeps, TranscribeKeeps, ChunkFailsKeeps
<1>2. CASE ExportCookies
  BY <1>2 DEF ExportCookies, AudioInv, AudioTypeOK, StatusKeepsVerdict
<1>3. CASE UNCHANGED audioVars
  BY <1>3 DEF audioVars, AudioInv, AudioTypeOK, StatusKeepsVerdict
<1> QED  BY <1>1, <1>2, <1>3 DEF AudioNext

LEMMA AudioInvariant == AudioSpec => []AudioInv
BY AudioEstablishes, AudioKeeps, PTL DEF AudioSpec

(* Types, and no download or chunk is tried more often than its settings   *)
(* say, for every number of imports at the same time.                      *)
THEOREM AudioTyped == AudioSpec => []AudioTypeOK
<1>1. AudioInv => AudioTypeOK  BY DEF AudioInv
<1> QED  BY <1>1, AudioInvariant, PTL

(* The status beside the cookies is the last verdict on them, unless a     *)
(* media error was written over one that it had not read, however many     *)
(* downloads write it at the same time.                                    *)
THEOREM VerdictIsKept == AudioSpec => []StatusKeepsVerdict
<1>1. AudioInv => StatusKeepsVerdict  BY DEF AudioInv
<1> QED  BY <1>1, AudioInvariant, PTL

(* For every duration and every length of a chunk: the pieces of a         *)
(* transcript that is done follow one another from the beginning and leave *)
(* less than a second at the end.                                          *)
THEOREM TranscriptsWhole == AudioSpec => []TranscriptWhole
<1>1. ASSUME AudioInv PROVE TranscriptWhole
  <2> SUFFICES ASSUME NEW i \in Imports, AudioAt(i, "done"), transcript[i] # <<>>
               PROVE  LET t == transcript[i]
                      IN  /\ t[1].start = 0
                          /\ \A k \in 2 .. Len(t) : t[k].start = EndOf(t[k - 1])
                          /\ EndOf(t[Len(t)]) <= audio[i].duration
                          /\ EndOf(t[Len(t)]) + Second > audio[i].duration
    BY DEF TranscriptWhole
  <2> DEFINE t == transcript[i]
             d == audio[i].duration
             c == ChunkCount(d)
  <2>1. /\ \A k \in 1 .. Len(t) : t[k] = ChunkOf(d, k - 1)
        /\ d # 0 /\ Len(t) = c
    BY <1>1 DEF AudioInv, HasChunks, AudioAt
  <2>2. d \in Nat \ {0}
    <3>1. audio[i] \in Progress  BY <1>1 DEF AudioInv, AudioTypeOK
    <3> QED  BY <2>1, <3>1, AudioAssumption DEF Progress
  <2>3. /\ c \in Nat \ {0} /\ ChunkOf(d, 0).start = 0
        /\ \A n \in 1 .. c - 1 : ChunkOf(d, n).start = EndOf(ChunkOf(d, n - 1))
        /\ EndOf(ChunkOf(d, c - 1)) <= d
        /\ EndOf(ChunkOf(d, c - 1)) + Second > d
    BY <2>2, ChunksCover
  <2> HIDE DEF t, d, c
  <2>4. t[1] = ChunkOf(d, 0) /\ t[c] = ChunkOf(d, c - 1)
    <3>1. 1 \in 1 .. c /\ c \in 1 .. c /\ 1 - 1 = 0  BY <2>3
    <3> QED  BY <2>1, <3>1
  <2>5. ASSUME NEW k \in 2 .. c PROVE t[k].start = EndOf(t[k - 1])
    <3>1. k \in 1 .. c /\ k - 1 \in 1 .. c /\ k - 1 \in 1 .. c - 1  BY <2>3
    <3>2. t[k] = ChunkOf(d, k - 1) /\ t[k - 1] = ChunkOf(d, (k - 1) - 1)  BY <2>1, <3>1
    <3> QED  BY <2>3, <3>1, <3>2
  <2> QED  BY <2>1, <2>3, <2>4, <2>5 DEF t, d
<1> QED  BY <1>1, AudioInvariant, PTL
-----------------------------------------------------------------------------
(* The tokens of a line.  A text is a sequence of characters.              *)
LEMMA TextIsSequence ==
  ASSUME NEW n, NEW text, text \in TextsUpTo(n), n \in Nat
  PROVE  /\ Len(text) \in Nat /\ Len(text) <= n
         /\ DOMAIN text = 1 .. Len(text)
         /\ text \in Seq(Letters \cup {Gap})
<1>1. PICK k \in 0 .. n : text \in [1 .. k -> Letters \cup {Gap}]  BY DEF TextsUpTo
<1> QED  BY <1>1

(* A word that is found is there letter by letter. *)
LEMMA FoundByLetter ==
  ASSUME NEW n \in Nat, line \in TextsUpTo(n), NEW w, NEW m \in Nat, w \in TextsUpTo(m),
         NEW p \in Nat \ {0}, IsAt(line, w, p)
  PROVE  /\ p + Len(w) - 1 <= Len(line)
         /\ \A q \in 1 .. Len(w) : p + q - 1 \in DOMAIN line /\ line[p + q - 1] = w[q]
<1>1. /\ Len(line) \in Nat /\ DOMAIN line = 1 .. Len(line)
      /\ line \in Seq(Letters \cup {Gap}) /\ Len(w) \in Nat
  BY TextIsSequence
<1> DEFINE r == p + Len(w) - 1
<1>2. r <= Len(line) /\ SubSeq(line, p, r) = w  BY DEF IsAt
<1>3. p \in Int /\ r \in Int /\ r - p + 1 = Len(w)  BY <1>1
<1>4. \A i \in p .. r : line[i] \in Letters \cup {Gap}  BY <1>1, <1>2
<1>5. \A i \in 1 .. (r - p + 1) : SubSeq(line, p, r)[i] = line[p + i - 1]
  <2> HIDE DEF r
  <2> QED  BY <1>3, <1>4, SubSeqProperties
<1>6. r = p + Len(w) - 1  OBVIOUS
<1> HIDE DEF r
<1>7. ASSUME NEW q \in 1 .. Len(w) PROVE p + q - 1 \in DOMAIN line /\ line[p + q - 1] = w[q]
  <2>1. q \in 1 .. (r - p + 1)  BY <1>3
  <2>2. p + q - 1 \in 1 .. Len(line)  BY <1>1, <1>2, <1>6
  <2> QED  BY <1>1, <1>2, <1>5, <2>1, <2>2
<1> QED  BY <1>2, <1>6, <1>7

(* Letters are counted from the left: a letter between two places makes    *)
(* the count of the second the larger one.                                 *)
LettersUpTo(p) == {q \in 1 .. p - 1 : q \in DOMAIN line /\ IsLetter(line[q])}

LEMMA LettersAreCounted ==
  ASSUME NEW p \in Nat
  PROVE  IsFiniteSet(LettersUpTo(p)) /\ LettersBefore(p) \in Nat /\ LettersBefore(p) = Cardinality(LettersUpTo(p))
<1>1. IsFiniteSet(1 .. p - 1)  BY FS_Interval
<1>2. IsFiniteSet(LettersUpTo(p))  BY <1>1, FS_Subset DEF LettersUpTo
<1>3. LettersBefore(p) = Cardinality(LettersUpTo(p))  BY DEF LettersBefore, LettersUpTo
<1> QED  BY <1>2, <1>3, FS_CardinalityType

LEMMA LettersGrow ==
  ASSUME NEW p \in Nat, NEW r \in Nat, p <= r
  PROVE  /\ LettersBefore(p) <= LettersBefore(r)
         /\ p < r /\ p \in DOMAIN line /\ IsLetter(line[p]) => p = 0 \/ LettersBefore(p) < LettersBefore(r)
<1>1. LettersUpTo(p) \in SUBSET LettersUpTo(r)  BY DEF LettersUpTo
<1>2. /\ Cardinality(LettersUpTo(p)) <= Cardinality(LettersUpTo(r))
      /\ Cardinality(LettersUpTo(p)) = Cardinality(LettersUpTo(r)) => LettersUpTo(p) = LettersUpTo(r)
  BY <1>1, LettersAreCounted, FS_Subset
<1>3. ASSUME p < r, p \in DOMAIN line, IsLetter(line[p]), p # 0
      PROVE  LettersUpTo(p) # LettersUpTo(r)
  <2>1. p \in LettersUpTo(r) /\ p \notin LettersUpTo(p)  BY <1>3 DEF LettersUpTo
  <2> QED  BY <2>1
<1> QED  BY <1>2, <1>3, LettersAreCounted

(* Behind a word of letters there are that many letters more. *)
LEMMA LettersOfWord ==
  ASSUME NEW n \in Nat, line \in TextsUpTo(n), NEW w, NEW m \in Nat, w \in TextsUpTo(m),
         NEW p \in Nat \ {0}, IsAt(line, w, p), \A q \in DOMAIN w : IsLetter(w[q])
  PROVE  LettersBefore(p + Len(w)) = LettersBefore(p) + Len(w)
<1>1. Len(w) \in Nat /\ DOMAIN w = 1 .. Len(w)  BY TextIsSequence
<1> DEFINE word == p .. (p + Len(w) - 1)
           r == p + Len(w)
<1>2. \A q \in word : q \in DOMAIN line /\ IsLetter(line[q])
  <2> SUFFICES ASSUME NEW q \in word PROVE q \in DOMAIN line /\ IsLetter(line[q])  OBVIOUS
  <2>1. q - p + 1 \in 1 .. Len(w) /\ p + (q - p + 1) - 1 = q  BY <1>1
  <2>2. line[p + (q - p + 1) - 1] = w[q - p + 1] /\ p + (q - p + 1) - 1 \in DOMAIN line
    BY <2>1, FoundByLetter
  <2>3. IsLetter(w[q - p + 1])  BY <1>1, <2>1
  <2> QED  BY <2>1, <2>2, <2>3
<1>3. r \in Nat /\ r - 1 = p + Len(w) - 1  BY <1>1
<1>4. LettersUpTo(r) = LettersUpTo(p) \cup word  BY <1>1, <1>2, <1>3 DEF LettersUpTo
<1>5. LettersUpTo(p) \cap word = {}  BY DEF LettersUpTo
<1>6. IsFiniteSet(word) /\ Cardinality(word) = Len(w)
  <2> DEFINE last == p + Len(w) - 1
  <2>1. p \in Int /\ last \in Int /\ last - p + 1 = Len(w) /\ (p > last => Len(w) = 0)  BY <1>1
  <2> HIDE DEF last
  <2>2. IsFiniteSet(p .. last) /\ Cardinality(p .. last) = (IF p > last THEN 0 ELSE last - p + 1)
    BY <2>1, FS_Interval
  <2>3. Cardinality(p .. last) = Len(w)  BY <2>1, <2>2
  <2> QED  BY <2>2, <2>3 DEF last
<1>7. IsFiniteSet(LettersUpTo(p)) /\ Cardinality(LettersUpTo(p)) \in Nat /\ LettersBefore(p) = Cardinality(LettersUpTo(p))
  BY LettersAreCounted
<1>8. Cardinality(LettersUpTo(p) \cap word) = 0  BY <1>5, FS_EmptySet
<1>9. LettersBefore(r) = Cardinality(LettersUpTo(r))  BY <1>3, LettersAreCounted
<1> HIDE DEF word, r
<1>10. Cardinality(LettersUpTo(p) \cup word) = Cardinality(LettersUpTo(p)) + Cardinality(word) - Cardinality(LettersUpTo(p) \cap word)
  BY <1>6, <1>7, FS_Union
<1>11. LettersBefore(r) = LettersBefore(p) + Len(w)
  BY <1>1, <1>4, <1>6, <1>7, <1>8, <1>9, <1>10
<1> QED  BY <1>11 DEF r

(* So many letters more the next token begins. *)
TokenLetters(k) == UNION {LettersOf(j) : j \in 1 .. k - 1}

LEMMA TokensAreCounted ==
  ASSUME SpanTypeOK, NEW k \in 1 .. Len(tokens) + 1
  PROVE  /\ IsFiniteSet(TokenLetters(k)) /\ TokenBegins(k) = Cardinality(TokenLetters(k))
         /\ TokenBegins(k) \in Nat
<1>1. Len(tokens) \in Nat  BY DEF SpanTypeOK
<1>2. TokenLetters(k) \in SUBSET ((1 .. k - 1) \X (1 .. MaxToken))
  <2> SUFFICES ASSUME NEW j \in 1 .. k - 1, NEW x \in LettersOf(j)
               PROVE  x \in (1 .. k - 1) \X (1 .. MaxToken)
    BY DEF TokenLetters
  <2>1. tokens[j] \in TextsUpTo(MaxToken)  BY <1>1 DEF SpanTypeOK
  <2>2. DOMAIN tokens[j] \subseteq 1 .. MaxToken  BY <2>1, SpanAssumption, TextIsSequence
  <2> QED  BY <2>2 DEF LettersOf
<1>3. IsFiniteSet((1 .. k - 1) \X (1 .. MaxToken))
  <2>1. k - 1 \in Int /\ MaxToken \in Int  BY <1>1, SpanAssumption
  <2>2. IsFiniteSet(1 .. k - 1) /\ IsFiniteSet(1 .. MaxToken)  BY <2>1, FS_Interval
  <2> QED  BY <2>2, FS_Product
<1>4. IsFiniteSet(TokenLetters(k))  BY <1>2, <1>3, FS_Subset
<1>5. TokenBegins(k) = Cardinality(TokenLetters(k))  BY DEF TokenBegins, TokenLetters
<1> QED  BY <1>4, <1>5, FS_CardinalityType

LEMMA NextTokenBegins ==
  ASSUME SpanTypeOK, NEW k \in 1 .. Len(tokens), \A q \in DOMAIN tokens[k] : IsLetter(tokens[k][q])
  PROVE  TokenBegins(k + 1) = TokenBegins(k) + Len(tokens[k])
<1>1. Len(tokens) \in Nat /\ tokens[k] \in TextsUpTo(MaxToken)  BY DEF SpanTypeOK
<1> DEFINE m == Len(tokens[k])
<1>2. m \in Nat /\ DOMAIN tokens[k] = 1 .. m  BY <1>1, SpanAssumption, TextIsSequence
<1>3. k + 1 \in 1 .. Len(tokens) + 1 /\ k \in 1 .. Len(tokens) + 1 /\ (k + 1) - 1 = k  BY <1>1
<1>4. LettersOf(k) = {k} \X (1 .. m)  BY <1>2 DEF LettersOf
<1>5. IsFiniteSet(LettersOf(k)) /\ Cardinality(LettersOf(k)) = m
  <2>1. IsFiniteSet(1 .. m) /\ Cardinality(1 .. m) = m
    <3>1. m \in Nat  BY <1>2
    <3> HIDE DEF m
    <3>2. IsFiniteSet(1 .. m) /\ Cardinality(1 .. m) = (IF 1 > m THEN 0 ELSE m - 1 + 1)  BY <3>1, FS_Interval
    <3> QED  BY <3>1, <3>2
  <2>2. IsFiniteSet({k}) /\ Cardinality({k}) = 1  BY FS_Singleton
  <2> HIDE DEF m
  <2>3. IsFiniteSet({k} \X (1 .. m)) /\ Cardinality({k} \X (1 .. m)) = 1 * m
    BY <2>1, <2>2, FS_Product
  <2>4. 1 * m = m  BY <1>2 DEF m
  <2>5. LettersOf(k) = {k} \X (1 .. m)  BY <1>4 DEF m
  <2> QED  BY <2>3, <2>4, <2>5
<1>6. TokenLetters(k + 1) = TokenLetters(k) \cup LettersOf(k)
  <2>1. 1 .. k = (1 .. k - 1) \cup {k}  BY <1>1
  <2> QED  BY <1>3, <2>1 DEF TokenLetters
<1>7. TokenLetters(k) \cap LettersOf(k) = {}
  <2> SUFFICES ASSUME NEW j \in 1 .. k - 1, NEW x \in LettersOf(j), x \in LettersOf(k) PROVE FALSE
    BY DEF TokenLetters
  <2>1. x[1] = j /\ x[1] = k  BY DEF LettersOf
  <2> QED  BY <1>1, <2>1
<1>8. Cardinality(TokenLetters(k) \cap LettersOf(k)) = 0  BY <1>7, FS_EmptySet
<1>9. /\ IsFiniteSet(TokenLetters(k)) /\ TokenBegins(k) = Cardinality(TokenLetters(k)) /\ TokenBegins(k) \in Nat
      /\ TokenBegins(k + 1) = Cardinality(TokenLetters(k + 1))
  BY <1>3, TokensAreCounted
<1>10. Cardinality(TokenLetters(k) \cup LettersOf(k))
         = Cardinality(TokenLetters(k)) + Cardinality(LettersOf(k)) - Cardinality(TokenLetters(k) \cap LettersOf(k))
  BY <1>5, <1>9, FS_Union
<1>11. TokenBegins(k + 1) = Cardinality(TokenLetters(k) \cup LettersOf(k))  BY <1>6, <1>9
<1>12. TokenBegins(k + 1) = TokenBegins(k) + m
  <2> HIDE DEF m
  <2>1. TokenBegins(k + 1) = TokenBegins(k) + m - 0  BY <1>5, <1>8, <1>9, <1>10, <1>11
  <2> QED  BY <1>2, <1>9, <2>1
<1> QED  BY <1>12

(* text.find returns the first place there is. *)
LEMMA FirstIsLeast ==
  ASSUME NEW S, S \subseteq Nat, S # {}
  PROVE  FirstOf(S) \in S /\ \A q \in S : FirstOf(S) <= q
<1>1. \E R : /\ IsWellFoundedOn(R, Nat)
             /\ \A x, y \in Nat : <<y, x>> \in R <=> y < x
  <2>1. \A x, y \in Nat : <<y, x>> \in OpToRel(<, Nat) <=> y < x
    BY DEF OpToRel
  <2> QED
    BY <2>1, NatLessThanWellFounded
<1>2. PICK R : /\ IsWellFoundedOn(R, Nat)
               /\ \A x, y \in Nat : <<y, x>> \in R <=> y < x
  BY <1>1
<1>3. PICK x \in S : \A y \in S : ~(<<y, x>> \in R)
  BY <1>2, WFMin
<1>4. \A y \in S : x <= y
  <2> TAKE y \in S
  <2>1. ~(y < x)
    BY <1>2, <1>3
  <2> QED
    BY <2>1
<1> QED
  BY <1>4 DEF FirstOf

-----------------------------------------------------------------------------
(* A token is found.  The letters before the cursor are those of the       *)
(* tokens before, so nothing but gaps lies between the cursor and the      *)
(* token's own letters, and the first place that is found is theirs.       *)
Held(k) ==
  /\ IsAt(line, tokens[k], located[k].start)
  /\ located[k].end = located[k].start + Len(tokens[k])
  /\ LettersBefore(located[k].start) = TokenBegins(k)

LEMMA CursorBehindLetters ==
  ASSUME SpanTypeOK, SpansHoldTokens, Len(located) < Len(tokens),
         \A j \in 1 .. Len(located) : Together(j)
  PROVE  LettersBefore(Cursor(located)) = TokenBegins(Len(located) + 1)
<1> DEFINE k == Len(located)
<1>1. /\ located \in Seq(Span) /\ k \in Nat /\ DOMAIN located = 1 .. k
      /\ tokens \in Seq(TextsUpTo(MaxToken)) /\ Len(tokens) \in Nat
  BY DEF SpanTypeOK
<1>2. CASE located = <<>>
  <2>1. k = 0 /\ Cursor(located) = 1  BY <1>2 DEF Cursor
  <2>2. LettersUpTo(1) = {} /\ TokenLetters(1) = {}  BY DEF LettersUpTo, TokenLetters
  <2>3. LettersBefore(1) = 0  BY <2>2, FS_EmptySet, LettersAreCounted
  <2>4. TokenBegins(1) = Cardinality(TokenLetters(1))  BY DEF TokenBegins, TokenLetters
  <2>5. TokenBegins(1) = 0  BY <2>2, <2>4, FS_EmptySet
  <2> QED  BY <2>1, <2>3, <2>5
<1>3. CASE located # <<>>
  <2>1. k \in 1 .. k /\ k \in DOMAIN located  BY <1>1, <1>3
  <2>2. Cursor(located) = located[k].end  BY <1>3 DEF Cursor
  <2>3. Held(k)  BY <1>1, <2>1 DEF SpansHoldTokens, Held
  <2>4. located[k].start \in Nat \ {0}
    <3>1. located[k] \in Span  BY <1>1, <2>1, ElementOfSeq
    <3> QED  BY <3>1 DEF Span
  <2>5. tokens[k] \in TextsUpTo(MaxToken) /\ k \in 1 .. Len(tokens)  BY <1>1, <2>1
  <2>6. \A q \in DOMAIN tokens[k] : IsLetter(tokens[k][q])  BY <2>1 DEF Together
  <2>7. MaxToken \in Nat /\ MaxText \in Nat  BY SpanAssumption
  <2>8. line \in TextsUpTo(MaxText)  BY <1>1, <2>5 DEF SpanTypeOK
  <2>9. LettersBefore(located[k].start + Len(tokens[k])) = LettersBefore(located[k].start) + Len(tokens[k])
    BY <2>3, <2>4, <2>5, <2>6, <2>7, <2>8, LettersOfWord DEF Held
  <2>10. TokenBegins(k + 1) = TokenBegins(k) + Len(tokens[k])  BY <2>5, <2>6, NextTokenBegins
  <2> QED  BY <2>2, <2>3, <2>9, <2>10 DEF Held
<1> QED  BY <1>2, <1>3

LEMMA CursorIsPlace ==
  ASSUME SpanTypeOK PROVE Cursor(located) \in Nat \ {0}
<1> DEFINE k == Len(located)
<1>1. CASE located = <<>>  BY <1>1 DEF Cursor
<1>2. CASE located # <<>>
  <2>1. located \in Seq(Span) /\ k \in 1 .. k  BY <1>2 DEF SpanTypeOK
  <2>2. located[k] \in Span  BY <2>1, ElementOfSeq
  <2> QED  BY <1>2, <2>2 DEF Cursor, Span
<1> QED  BY <1>1, <1>2

LEMMA FindsItsOwn ==
  ASSUME SpanTypeOK, SpansHoldTokens, Len(located) < Len(tokens),
         \A j \in 1 .. Len(located) + 1 : Together(j)
  PROVE  LET word == tokens[Len(located) + 1]
             found == Places(line, word, Cursor(located))
         IN  found # {} /\ IsAt(line, word, FirstOf(found))
               /\ LettersBefore(FirstOf(found)) = TokenBegins(Len(located) + 1)
<1> DEFINE k == Len(located) + 1
           w == tokens[k]
           c == Cursor(located)
           found == Places(line, w, c)
           f == FirstOf(found)
<1>1. Len(located) \in Nat /\ Len(tokens) \in Nat /\ k \in 1 .. Len(tokens) /\ w \in TextsUpTo(MaxToken)
  <2>1. located \in Seq(Span) /\ tokens \in Seq(TextsUpTo(MaxToken))  BY DEF SpanTypeOK
  <2>2. Len(located) \in Nat /\ Len(tokens) \in Nat /\ k \in 1 .. Len(tokens)  BY <2>1
  <2> QED  BY <2>1, <2>2, ElementOfSeq
<1>2. MaxToken \in Nat /\ MaxText \in Nat  BY SpanAssumption
<1>3. line \in TextsUpTo(MaxText)  BY <1>1 DEF SpanTypeOK
<1>4. c \in Nat \ {0}  BY CursorIsPlace
<1>5. LettersBefore(c) = TokenBegins(k)
  <2>1. \A j \in 1 .. Len(located) : Together(j)  BY <1>1
  <2> QED  BY <2>1, CursorBehindLetters
<1>6. Together(k)  BY <1>1
<1>7. PICK p \in 1 .. Len(line) + 1 : LettersBefore(p) = TokenBegins(k) /\ IsAt(line, w, p)
  BY <1>6 DEF Together
<1>8. /\ DOMAIN line = 1 .. Len(line) /\ Len(line) \in Nat
      /\ DOMAIN w = 1 .. Len(w) /\ Len(w) \in Nat
  BY <1>1, <1>2, <1>3, TextIsSequence
<1>9. p \in Nat \ {0}  BY <1>8
<1>10. c <= Len(line) + 1
  <2>1. located = <<>> \/ located # <<>>  OBVIOUS
  <2>2. ASSUME located # <<>> PROVE c <= Len(line) + 1
    <3> DEFINE j == Len(located)
    <3>1. located \in Seq(Span) /\ j \in 1 .. j /\ j \in DOMAIN located /\ j \in 1 .. Len(tokens)
      BY <1>1, <2>2 DEF SpanTypeOK
    <3>2. \A i \in 1 .. j : Together(i)  BY <1>1
    <3>3. Held(j)  BY <3>1, <3>2 DEF SpansHoldTokens, Held
    <3>4. located[j].start \in Nat
      <4>1. located[j] \in Span  BY <3>1, ElementOfSeq
      <4> QED  BY <4>1 DEF Span
    <3>5. tokens[j] \in TextsUpTo(MaxToken)  BY <3>1 DEF SpanTypeOK
    <3>6. Len(tokens[j]) \in Nat  BY <1>2, <3>5, TextIsSequence
    <3>7. located[j].start + Len(tokens[j]) - 1 <= Len(line) /\ c = located[j].start + Len(tokens[j])
      BY <2>2, <3>3 DEF Held, IsAt, Cursor
    <3> HIDE DEF c, j
    <3> QED  BY <1>8, <3>4, <3>6, <3>7
  <2>3. ASSUME located = <<>> PROVE c <= Len(line) + 1
    <3>1. c = 1  BY <2>3 DEF Cursor
    <3> QED  BY <1>8, <3>1
  <2> QED  BY <2>1, <2>2, <2>3
<1>11. \A q \in DOMAIN w : IsLetter(w[q])  BY <1>6 DEF Together
<1> HIDE DEF k, w, c, f, found
<1>12. found \subseteq Nat /\ \A q \in found : c <= q /\ IsAt(line, w, q)
  BY <1>4, <1>8 DEF found, Places
<1>13. CASE w = <<>>
  <2>1. Len(w) = 0  BY <1>13
  <2>2. IsAt(line, w, c)
    <3>1. c + Len(w) - 1 <= Len(line) /\ c + Len(w) - 1 = c - 1  BY <1>4, <1>8, <1>10, <2>1
    <3>2. SubSeq(line, c, c - 1) = <<>>
      <4>1. line \in Seq(Letters \cup {Gap})  BY <1>2, <1>3, TextIsSequence
      <4> QED  BY <1>4, <4>1
    <3> QED  BY <1>13, <3>1, <3>2 DEF IsAt
  <2>3. c \in found  BY <1>4, <1>8, <1>10, <2>2 DEF found, Places
  <2>4. f \in found /\ f <= c  BY <1>12, <2>3, FirstIsLeast DEF f
  <2>5. f = c  BY <1>4, <1>12, <2>4
  <2> QED  BY <1>5, <2>2, <2>3, <2>5 DEF k, w, c, f, found
<1>14. CASE w # <<>>
  <2>1. 1 \in 1 .. Len(w)
    <3>1. w \in Seq(Letters \cup {Gap})  BY <1>1, <1>2, TextIsSequence
    <3> QED  BY <1>14, <3>1
  <2>2. IsLetter(w[1])  BY <1>8, <1>11, <2>1
  <2>3. ASSUME NEW q \in Nat \ {0}, IsAt(line, w, q) PROVE q \in DOMAIN line /\ IsLetter(line[q])
    <3>1. q + 1 - 1 \in DOMAIN line /\ line[q + 1 - 1] = w[1]
      BY <1>1, <1>2, <1>3, <2>1, <2>3, FoundByLetter
    <3>2. q + 1 - 1 = q  OBVIOUS
    <3> QED  BY <2>2, <3>1, <3>2
  <2>4. IsLetter(line[p]) /\ p \in DOMAIN line  BY <1>7, <1>9, <2>3
  <2>5. c <= p
    <3> SUFFICES ASSUME p < c PROVE FALSE  BY <1>4, <1>9
    <3>1. LettersBefore(p) < LettersBefore(c)  BY <1>4, <1>9, <2>4, LettersGrow
    <3>2. LettersBefore(p) \in Nat  BY <1>9, LettersAreCounted
    <3> QED  BY <1>5, <1>7, <3>1, <3>2
  <2>6. p \in found  BY <1>4, <1>7, <1>8, <1>9, <2>5 DEF found, Places
  <2>7. f \in found /\ f <= p  BY <1>12, <2>6, FirstIsLeast DEF f
  <2>8. f \in Nat \ {0} /\ c <= f /\ IsAt(line, w, f)  BY <1>4, <1>12, <2>7
  <2>9. f = p
    <3> SUFFICES ASSUME f < p PROVE FALSE  BY <1>9, <2>7, <2>8
    <3>1. f \in DOMAIN line /\ IsLetter(line[f])  BY <2>3, <2>8
    <3>2. LettersBefore(f) < LettersBefore(p)  BY <1>9, <2>8, <3>1, LettersGrow
    <3>3. LettersBefore(c) <= LettersBefore(f)  BY <1>4, <2>8, LettersGrow
    <3>4. LettersBefore(c) \in Nat /\ LettersBefore(f) \in Nat  BY <1>4, <2>8, LettersAreCounted
    <3> QED  BY <1>5, <1>7, <3>2, <3>3, <3>4
  <2> QED  BY <1>7, <2>6, <2>9 DEF k, w, c, f, found
<1> QED  BY <1>13, <1>14

LEMMA LocateKeeps ==
  ASSUME SpanTypeOK, SpansHoldTokens, LocateToken
  PROVE  SpanTypeOK' /\ SpansHoldTokens'
<1> DEFINE k == Len(located) + 1
           word == tokens[k]
           found == Places(line, word, Cursor(located))
           start == IF found = {} THEN Cursor(located) ELSE FirstOf(found)
           new == [start |-> start, end |-> start + Len(word)]
<1>1. /\ Len(located) < Len(tokens) /\ line' = line /\ tokens' = tokens
      /\ located' = Append(located, new)
  BY DEF LocateToken
<1>2. /\ located \in Seq(Span) /\ tokens \in Seq(TextsUpTo(MaxToken))
      /\ Len(located) \in Nat /\ Len(tokens) \in Nat
  BY DEF SpanTypeOK
<1>3. Len(word) \in Nat
  <2>1. k \in 1 .. Len(tokens)  BY <1>1, <1>2
  <2>2. word \in TextsUpTo(MaxToken)  BY <1>2, <2>1, ElementOfSeq
  <2> QED  BY <2>2, SpanAssumption, TextIsSequence
<1>4. start \in Nat \ {0}
  <2>1. Cursor(located) \in Nat \ {0}  BY CursorIsPlace
  <2>2. CASE found = {}  BY <2>1, <2>2
  <2>3. CASE found # {}
    <3>1. found \subseteq Nat /\ \A q \in found : Cursor(located) <= q
      <4>1. \A q \in found : q \in Cursor(located) .. Len(line) + 1  BY DEF Places
      <4> HIDE DEF found
      <4> QED  BY <2>1, <4>1
    <3>2. FirstOf(found) \in found  BY <2>3, <3>1, FirstIsLeast
    <3>3. start = FirstOf(found)  BY <2>3
    <3> HIDE DEF found, start
    <3>4. FirstOf(found) \in Nat /\ Cursor(located) <= FirstOf(found)  BY <3>1, <3>2
    <3> QED  BY <2>1, <3>3, <3>4
  <2> QED  BY <2>2, <2>3
<1>5. new \in Span /\ new.start = start /\ new.end = start + Len(word)
  <2> HIDE DEF start, word
  <2> QED  BY <1>3, <1>4 DEF Span
<1>6. \A j : Together(j)' <=> Together(j)
  BY <1>1 DEF Together, LettersBefore, TokenBegins, LettersOf
<1>7. \A j : j \in 1 .. Len(located) => (Held(j)' <=> Held(j))
  <2> SUFFICES ASSUME NEW j \in 1 .. Len(located) PROVE Held(j)' <=> Held(j)  OBVIOUS
  <2>1. located'[j] = located[j]
    <3> HIDE DEF new
    <3> QED  BY <1>1, <1>2, AppendProperties
  <2> QED  BY <1>1, <2>1 DEF Held, LettersBefore, TokenBegins, LettersOf
<1>8. PICK n \in Nat : n = k  BY <1>2
<1>9. (\A j \in 1 .. n : Together(j)) => Held(n)'
  <2> SUFFICES ASSUME \A j \in 1 .. n : Together(j) PROVE Held(n)'  OBVIOUS
  <2>1. found # {} /\ IsAt(line, word, FirstOf(found)) /\ LettersBefore(FirstOf(found)) = TokenBegins(k)
    BY <1>1, <1>8, FindsItsOwn
  <2>2. start = FirstOf(found)  BY <2>1
  <2>3. located'[n] = new
    <3> HIDE DEF new
    <3> QED  BY <1>1, <1>2, <1>8, AppendProperties
  <2>4. located'[n].start = start /\ located'[n].end = start + Len(word)  BY <1>5, <2>3
  <2>5. IsAt(line, word, start) /\ LettersBefore(start) = TokenBegins(n) /\ word = tokens[n]
    BY <1>8, <2>1, <2>2
  <2>6. TokenBegins(n)' = TokenBegins(n)  BY <1>1 DEF TokenBegins, LettersOf
  <2>7. LettersBefore(located[n].start)' = Cardinality({q \in 1 .. start - 1 : q \in DOMAIN line /\ IsLetter(line[q])})
    BY <1>1, <2>4 DEF LettersBefore
  <2>8. LettersBefore(located[n].start)' = LettersBefore(start)  BY <2>7 DEF LettersBefore
  <2> HIDE DEF start, found, word
  <2> QED  BY <1>1, <2>4, <2>5, <2>6, <2>8 DEF Held
<1>10. located' \in Seq(Span) /\ Len(located') = k
  <2> HIDE DEF new
  <2> QED  BY <1>1, <1>2, <1>5, AppendProperties
<1>11. SpanTypeOK'  BY <1>1, <1>2, <1>10 DEF SpanTypeOK
<1>12. SpansHoldTokens'
  <2> SUFFICES ASSUME NEW j \in DOMAIN located', \A i \in 1 .. j : Together(i)' PROVE Held(j)'
    BY DEF SpansHoldTokens, Held
  <2>1. DOMAIN located' = 1 .. k  BY <1>10
  <2>2. \A i \in 1 .. j : Together(i)  BY <1>6
  <2>3. CASE j = n  BY <1>9, <2>2, <2>3
  <2>4. CASE j # n
    <3>1. j \in 1 .. Len(located) /\ j \in DOMAIN located  BY <1>2, <1>8, <2>1, <2>4
    <3>2. Held(j)  BY <2>2, <3>1 DEF SpansHoldTokens, Held
    <3> QED  BY <1>7, <3>1, <3>2
  <2> QED  BY <2>3, <2>4
<1> QED  BY <1>11, <1>12

LEMMA SpansKeep ==
  ASSUME SpanTypeOK, SpansHoldTokens, [SpanNext]_spanVars
  PROVE  SpanTypeOK' /\ SpansHoldTokens'
<1>1. CASE TakeLine
  <2>1. tokens' = <<>> /\ located' = <<>> /\ line' \in TextsUpTo(MaxText) \ {<<>>}
    <3>1. tokens = <<>>  BY <1>1 DEF TakeLine, SpanTypeOK
    <3>2. located = <<>>  BY <3>1 DEF SpanTypeOK
    <3> QED  BY <1>1, <3>1, <3>2 DEF TakeLine
  <2>2. SpanTypeOK'  BY <1>1, <2>1 DEF SpanTypeOK, TakeLine
  <2> QED  BY <2>1, <2>2 DEF SpansHoldTokens
<1>2. CASE AnalyseLine
  <2>1. located' = <<>> /\ line' = line /\ line \in TextsUpTo(MaxText) /\ line # <<>>
    <3>1. Len(located) <= 0 /\ located \in Seq(Span)  BY <1>2 DEF AnalyseLine, SpanTypeOK
    <3>2. located = <<>>  BY <3>1
    <3> QED  BY <1>2, <3>2 DEF AnalyseLine, SpanTypeOK
  <2>2. PICK n \in 1 .. MaxTokens : tokens' \in [1 .. n -> TextsUpTo(MaxToken)]
    BY <1>2 DEF AnalyseLine
  <2>3. tokens' \in Seq(TextsUpTo(MaxToken)) /\ Len(tokens') = n
    BY <2>2, FunctionIsSequence
  <2>4. SpanTypeOK'  BY <2>1, <2>2, <2>3, SpanAssumption DEF SpanTypeOK
  <2> QED  BY <2>1, <2>4 DEF SpansHoldTokens
<1>3. CASE LocateToken  BY <1>3, LocateKeeps
<1>4. CASE UNCHANGED spanVars
  <2>1. line' = line /\ tokens' = tokens /\ located' = located  BY <1>4 DEF spanVars
  <2>2. SpanTypeOK'  BY <2>1 DEF SpanTypeOK
  <2>3. \A j : (Together(j)' <=> Together(j)) /\ (Held(j)' <=> Held(j))
    BY <2>1 DEF Together, Held, LettersBefore, TokenBegins, LettersOf
  <2>4. SpansHoldTokens'
    <3> SUFFICES ASSUME NEW j \in DOMAIN located', \A i \in 1 .. j : Together(i)' PROVE Held(j)'
      BY DEF SpansHoldTokens, Held
    <3>1. j \in DOMAIN located /\ \A i \in 1 .. j : Together(i)  BY <2>1, <2>3
    <3>2. Held(j)  BY <3>1 DEF SpansHoldTokens, Held
    <3> QED  BY <2>3, <3>2
  <2> QED  BY <2>2, <2>4
<1> QED  BY <1>1, <1>2, <1>3, <1>4 DEF SpanNext

LEMMA SpansEstablish == SpanInit => SpanTypeOK /\ SpansHoldTokens
<1> SUFFICES ASSUME SpanInit PROVE SpanTypeOK /\ SpansHoldTokens  OBVIOUS
<1>1. line = <<>> /\ tokens = <<>> /\ located = <<>>  BY DEF SpanInit
<1>2. <<>> \in TextsUpTo(MaxText)
  <2>1. <<>> \in [1 .. 0 -> Letters \cup {Gap}]  OBVIOUS
  <2>2. 0 \in 0 .. MaxText  BY SpanAssumption
  <2> QED  BY <2>1, <2>2 DEF TextsUpTo
<1>3. SpanTypeOK  BY <1>1, <1>2, SpanAssumption DEF SpanTypeOK
<1>4. SpansHoldTokens  BY <1>1 DEF SpansHoldTokens
<1> QED  BY <1>3, <1>4

(* Where a line's tokens begin and end is known for every line, every      *)
(* answer that is accepted and tokens of any length.                       *)
THEOREM SpansHold == SpanSpec => []SpansHoldTokens
<1>1. SpanInit => SpanTypeOK /\ SpansHoldTokens  BY SpansEstablish
<1> QED  BY <1>1, SpansKeep, PTL DEF SpanSpec

(* Every place in a line is a position. *)
THEOREM SpansTyped == SpanSpec => []SpanTypeOK
<1>1. SpanInit => SpanTypeOK /\ SpansHoldTokens  BY SpansEstablish
<1> QED  BY <1>1, SpansKeep, PTL DEF SpanSpec

-----------------------------------------------------------------------------
(* The parts side by side *)

(* What is run together in MCContent moves one part at a time, each by its *)
(* own specification: whatever is proved of a part holds of it there.      *)
THEOREM PartsKeepToThemselves ==
  ContentPartsSpec =>
    AudioSpec /\ ContentSpec /\ SpanSpec /\ WordSpec /\ BackfillSpec /\ ReleaseSpec
<1> DEFINE all == <<part, audioVars, contentVars, spanVars, wordVars, rowVars, releaseVars>>
<1>1. ContentPartsInit =>
        AudioInit /\ ContentInit /\ SpanInit /\ WordInit /\ BackfillInit /\ ReleaseInit
  BY DEF ContentPartsInit
<1>2. [ContentPartsNext]_all =>
        /\ [AudioNext]_audioVars /\ [ContentNext]_contentVars /\ [SpanNext]_spanVars
        /\ [WordNext]_wordVars /\ [BackfillNext]_rowVars /\ [ReleaseNext]_releaseVars
  BY DEF ContentPartsNext
<1> QED  BY <1>1, <1>2, PTL DEF ContentPartsSpec, AudioSpec, ContentSpec, SpanSpec, WordSpec, BackfillSpec, ReleaseSpec

(* The types of the spans, of the explanations (the model is asked twice   *)
(* for one at most) and of the releases.                                   *)
THEOREM PartsTyped == ContentPartsSpec => []TypesOK
<1>1. SpanTypeOK /\ WordTypeOK /\ ReleaseTypeOK => TypesOK
  BY DEF TypesOK
<1> QED  BY <1>1, PartsKeepToThemselves, SpansTyped, WordTyped, ReleaseTyped, PTL
=============================================================================
