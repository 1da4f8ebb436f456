------------------------ MODULE ContractDeltasProofs ------------------------
(***************************************************************************)
(* Theorems about ContractDeltas and AptAuth for every list of services,   *)
(* every contract and every credentials file.                              *)
(***************************************************************************)
EXTENDS ContractDeltas, SequenceTheorems, WellFoundedInduction, TLAPS

(* What a contract may say of a service on some release.                   *)
Views(s) == {Absent} \union {SeriesView(e, r) : e \in Offers[s], r \in Series}

(* The loop has still to come to the service.                              *)
Waits(s) == ~Idle /\ \E i \in next..Len(Names) : Names[i] = s

(* What the loop compares: the contract before and after for this release, *)
(* or one contract for the two releases.                                   *)
LoopInv ==
  /\ Idle => next = 1
  /\ \A s \in Services : past[s] \in Views(s) /\ new[s] \in Views(s)
  /\ op \in {"attach", "refresh"} => new = Entitlements(contract, series)
  /\ op = "upgrade" =>
       /\ series = 2
       /\ \E c \in Contracts : past = Entitlements(c, 1) /\ new = Entitlements(c, 2)
  /\ outstanding \/ read # {} => series = 2

(* The repository of a service is what it should be by the view v of the   *)
(* contract.  While the upgrade script is outstanding it may be the older  *)
(* release's; then what the script has read, or is processing, agrees with *)
(* the contract on the new one.                                            *)
At(s, v) ==
  /\ v # Absent /\ v.entitled
  /\ \/ applied[s] = v.url
     \/ /\ outstanding /\ op # "upgrade"
        /\ \A c \in read : c[s] # Absent /\ c[s].url[2] = v.url
     \/ /\ outstanding /\ op = "upgrade" /\ Waits(s)
        /\ new[s] # Absent /\ new[s].url = v.url

(* A service that has kept step is on when it is configured and, once the  *)
(* loop comes to it, still entitled.                                       *)
Keeping(s) ==
  lapses[s] # "source" =>
    IF Waits(s) /\ op # "upgrade"
    THEN /\ Configured(s) => At(s, past[s])
         /\ s \in on <=> Configured(s) /\ new[s] # Absent /\ new[s].entitled
    ELSE /\ Configured(s) => At(s, Current(s))
         /\ s \in on <=> Configured(s)
StepInv == \A s \in Services : Keeping(s)

(* A service's repository is one of its own, and one that has kept step    *)
(* has left lines for no other one of them.                                *)
Gone(s) ==
  /\ Configured(s) => applied[s] \in Urls(s)
  /\ lapses[s] # "source" =>
       \A line \in Range(file) : line.repo \in Urls(s) => line.repo = applied[s]
GoneInv == \A s \in Services : Gone(s)

(* The lines apt may use for a repository, and the first of some lines in  *)
(* a file.                                                                 *)
Serving(repo) == {line \in Lines : Serves(line, repo)}
First(lines, some, line) ==
  \E i \in 1..Len(lines) :
    /\ lines[i] = line /\ line \in some
    /\ \A j \in 1..i-1 : lines[j] \notin some

(* The first line that serves the repository of a service is its own, with *)
(* the token the loop has found it with, or will leave it with.            *)
Seen(s) == IF Waits(s) /\ op # "upgrade" THEN past[s] ELSE Current(s)
Served(s) ==
  Configured(s) /\ lapses[s] = "none" =>
    First(file, Serving(applied[s]), [repo |-> applied[s], token |-> Seen(s).token])
ServedInv == \A s \in Services : Served(s)

DeltasInv == TypeOK /\ LoopInv /\ StepInv /\ GoneInv /\ ServedInv

-----------------------------------------------------------------------------
(* Sequences *)

(* A set of naturals that is not empty has a least member.                *)
LEMMA Least ==
  ASSUME NEW T \in SUBSET Nat, T # {}
  PROVE  \E i \in T : \A j \in T : i <= j
<1>. DEFINE Less == OpToRel(<, Nat)
<1>1. \A i, j \in Nat : i < j => <<i, j>> \in Less
  BY DEF OpToRel
<1>2. IsWellFoundedOn(Less, Nat)
  BY NatLessThanWellFounded
<1>. HIDE DEF Less
<1>3. PICK i \in T : \A j \in T : <<j, i>> \notin Less
  BY <1>2, WFMin
<1>4. \A j \in T : ~(j < i)
  BY <1>1, <1>3
<1>5. QED
  BY <1>4

(* A set of steps that begins at the first and misses none after one it    *)
(* has is all of them.                                                     *)
LEMMA EveryStep ==
  ASSUME NEW n \in Nat, NEW T \in SUBSET (0..n),
         0 \in T, \A i \in 1..n : i - 1 \in T => i \in T
  PROVE  T = 0..n
<1>. DEFINE Rest == (0..n) \ T
<1>1. SUFFICES ASSUME Rest # {} PROVE FALSE
  OBVIOUS
<1>2. PICK i \in Rest : \A j \in Rest : i <= j
  <2>1. Rest \in SUBSET Nat
    OBVIOUS
  <2>. HIDE DEF Rest
  <2>2. QED
    BY <1>1, <2>1, Least
<1>3. i \in 1..n /\ i - 1 \in 0..n /\ ~(i <= i - 1)
  OBVIOUS
<1>4. QED
  BY <1>2, <1>3

(* What FlattenSeq joins, piece by piece.                                  *)
LEMMA FlattenPieces ==
  ASSUME NEW S, NEW seqs \in Seq(Seq(S))
  PROVE  \E f \in [0..Len(seqs) -> Seq(S)] :
           /\ f[0] = <<>>
           /\ \A i \in 1..Len(seqs) : f[i] = f[i-1] \o seqs[i]
           /\ FlattenSeq(seqs) = f[Len(seqs)]
<1>. DEFINE n == Len(seqs)
            Joined(m, g) ==
              \A i \in 1..m : g[i] = IF i = 1 THEN seqs[i] ELSE g[i-1] \o seqs[i]
            T == {m \in 0..n : m = 0 \/ \E g \in [1..m -> Seq(S)] : Joined(m, g)}
<1>1. n \in Nat /\ \A i \in 1..n : seqs[i] \in Seq(S)
  OBVIOUS
<1>2. ASSUME NEW m \in 1..n, m - 1 \in T
      PROVE  m \in T
  <2>1. CASE m = 1
    <3>. DEFINE h == [i \in 1..m |-> seqs[i]]
    <3>1. h \in [1..m -> Seq(S)] /\ Joined(m, h)
      BY <1>1, <2>1
    <3>. HIDE DEF h, Joined
    <3>2. QED
      BY <3>1
  <2>2. CASE m # 1
    <3>0. m - 1 # 0
      BY <2>2
    <3>1. PICK g \in [1..m-1 -> Seq(S)] : Joined(m-1, g)
      <4>1. m - 1 \in T
        BY <1>2
      <4>. HIDE DEF Joined
      <4>2. QED
        BY <3>0, <4>1
    <3>. DEFINE h == [i \in 1..m |-> IF i = m THEN g[m-1] \o seqs[m] ELSE g[i]]
    <3>2. m - 1 \in 1..m-1 /\ g[m-1] \in Seq(S) /\ seqs[m] \in Seq(S)
      BY <1>1, <2>2
    <3>3. g[m-1] \o seqs[m] \in Seq(S)
      BY <3>2
    <3>4. h \in [1..m -> Seq(S)]
      BY <3>3
    <3>5. ASSUME NEW i \in 1..m
          PROVE  h[i] = IF i = 1 THEN seqs[i] ELSE h[i-1] \o seqs[i]
      <4>0. m \in 1..m /\ m - 1 \in 1..m /\ m - 1 # m
        BY <1>1, <2>2
      <4>1. h[m-1] = g[m-1] /\ h[m] = g[m-1] \o seqs[m]
        BY <4>0
      <4>2. CASE i = m
        BY <2>2, <4>0, <4>1, <4>2
      <4>3. CASE i # m
        <5>1. i \in 1..m-1 /\ i - 1 # m /\ h[i] = g[i]
          BY <4>3
        <5>2. g[i] = IF i = 1 THEN seqs[i] ELSE g[i-1] \o seqs[i]
          BY <3>1, <5>1
        <5>3. i # 1 => h[i-1] = g[i-1]
          BY <5>1
        <5>4. QED
          BY <5>1, <5>2, <5>3
      <4>4. QED
        BY <4>2, <4>3
    <3>6. QED
      <4>1. Joined(m, h)
        BY <3>5
      <4>. HIDE DEF h, Joined
      <4>2. QED
        BY <3>4, <4>1
  <2>3. QED
    BY <2>1, <2>2
<1>3. n \in T
  <2>1. T \in SUBSET (0..n) /\ 0 \in T
    BY <1>1
  <2>. HIDE DEF T
  <2>2. QED
    BY <1>1, <1>2, <2>1, EveryStep
<1>4. CASE n = 0
  <2>. DEFINE f == [i \in 0..n |-> <<>>]
  <2>1. seqs = <<>> /\ FlattenSeq(seqs) = <<>>
    BY <1>4 DEF FlattenSeq
  <2>2. f \in [0..n -> Seq(S)] /\ f[0] = <<>> /\ f[n] = <<>> /\ 1..n = {}
    BY <1>4
  <2>. HIDE DEF f
  <2>3. QED
    BY <2>1, <2>2
<1>5. CASE n # 0
  <2>. DEFINE Body(g) == [i \in 1..n |-> IF i = 1 THEN seqs[i] ELSE g[i-1] \o seqs[i]]
              flatten == CHOOSE g : g = Body(g)
  <2>1. FlattenSeq(seqs) = flatten[n]
    BY <1>5 DEF FlattenSeq
  <2>2. PICK g \in [1..n -> Seq(S)] : Joined(n, g)
    BY <1>3, <1>5
  <2>3. g = Body(g)
    BY <2>2
  <2>4. flatten = Body(flatten)
    BY <2>3
  <2>5. \A i \in 1..n : flatten[i] = IF i = 1 THEN seqs[i] ELSE flatten[i-1] \o seqs[i]
    BY <2>4
  <2>. HIDE DEF flatten
(* Only one function is so, and it is made of sequences.                   *)
  <2>. DEFINE Same == {i \in 0..n : i = 0 \/ flatten[i] \in Seq(S)}
  <2>6. Same = 0..n
    <3>1. ASSUME NEW i \in 1..n, i - 1 \in Same
          PROVE  i \in Same
      <4>1. CASE i = 1
        BY <1>1, <2>5, <4>1
      <4>2. CASE i # 1
        <5>1. flatten[i-1] \in Seq(S) /\ seqs[i] \in Seq(S)
          BY <1>1, <3>1, <4>2
        <5>2. flatten[i] = flatten[i-1] \o seqs[i]
          BY <2>5, <4>2
        <5>3. flatten[i] \in Seq(S)
          BY <5>1, <5>2, ConcatProperties
        <5>4. QED
          BY <1>1, <5>3
      <4>3. QED
        BY <4>1, <4>2
    <3>2. Same \in SUBSET (0..n) /\ 0 \in Same
      BY <1>1
    <3>. HIDE DEF Same
    <3>3. QED
      BY <1>1, <3>1, <3>2, EveryStep
  <2>. DEFINE f == [i \in 0..n |-> IF i = 0 THEN <<>> ELSE flatten[i]]
  <2>7. ASSUME NEW i \in 1..n
        PROVE  flatten[i] \in Seq(S)
    <3>. HIDE DEF n
    <3>1. i \in 0..n /\ i # 0
      BY <1>1
    <3>2. QED
      BY <2>6, <3>1
  <2>8. f \in [0..n -> Seq(S)] /\ f[0] = <<>> /\ f[n] = flatten[n]
    BY <1>1, <1>5, <2>7
  <2>9. ASSUME NEW i \in 1..n
        PROVE  f[i] = f[i-1] \o seqs[i]
    <3>1. CASE i = 1
      <4>1. f[i] = seqs[i] /\ f[i-1] = <<>> /\ seqs[i] \in Seq(S)
        BY <1>1, <2>5, <3>1
      <4>2. <<>> \o seqs[i] = seqs[i]
        BY <4>1, ConcatEmptySeq
      <4>3. QED
        BY <4>1, <4>2
    <3>2. CASE i # 1
      <4>1. i - 1 \in 1..n /\ f[i-1] = flatten[i-1] /\ f[i] = flatten[i]
        BY <1>1, <3>2
      <4>. HIDE DEF f
      <4>2. QED
        BY <2>5, <3>2, <4>1
    <3>3. QED
      BY <3>1, <3>2
  <2>. HIDE DEF f
  <2>10. QED
    BY <2>1, <2>8, <2>9
<1>6. QED
  BY <1>4, <1>5

(* The members of joined pieces are the members of the pieces.             *)
LEMMA FlattenRange ==
  ASSUME NEW S, NEW seqs \in Seq(Seq(S))
  PROVE  /\ FlattenSeq(seqs) \in Seq(S)
         /\ \A x : x \in Range(FlattenSeq(seqs))
                     <=> \E i \in 1..Len(seqs) : x \in Range(seqs[i])
<1>. DEFINE n == Len(seqs)
<1>1. n \in Nat /\ \A i \in 1..n : seqs[i] \in Seq(S)
  OBVIOUS
<1>2. PICK f \in [0..n -> Seq(S)] :
        /\ f[0] = <<>>
        /\ \A i \in 1..n : f[i] = f[i-1] \o seqs[i]
        /\ FlattenSeq(seqs) = f[n]
  BY FlattenPieces
<1>3. n \in 0..n
  BY <1>1
<1>. DEFINE Joined(m) == UNION {Range(seqs[i]) : i \in 1..m}
            T == {m \in 0..n : Range(f[m]) = Joined(m)}
<1>4. 0 \in T
  <2>1. Range(<<>>) = {}
    BY DEF Range
  <2>2. QED
    BY <1>1, <1>2, <2>1
<1>5. ASSUME NEW i \in 1..n, i - 1 \in T
      PROVE  i \in T
  <2>1. f[i-1] \in Seq(S) /\ seqs[i] \in Seq(S) /\ f[i] = f[i-1] \o seqs[i]
    BY <1>1, <1>2, <1>5
  <2>2. Range(f[i]) = Range(f[i-1]) \union Range(seqs[i])
    BY <2>1, RangeConcatenation
  <2>3. 1..i = 1..i-1 \union {i}
    BY <1>1
  <2>. HIDE DEF n
  <2>4. Joined(i) = Joined(i-1) \union Range(seqs[i])
    BY <2>3
  <2>. HIDE DEF Joined
  <2>5. i \in 0..n /\ Range(f[i-1]) = Joined(i-1)
    BY <1>1, <1>5
  <2>6. Range(f[i]) = Joined(i)
    BY <2>2, <2>4, <2>5
  <2>7. QED
    BY <2>5, <2>6
<1>6. T = 0..n
  <2>1. T \in SUBSET (0..n)
    OBVIOUS
  <2>. HIDE DEF T, n
  <2>2. QED
    BY <1>1, <1>4, <1>5, <2>1, EveryStep
<1>7. Range(f[n]) = Joined(n)
  <2>. HIDE DEF n, Joined
  <2>1. QED
    BY <1>3, <1>6
<1>8. f[n] \in Seq(S)
  BY <1>3
<1>9. QED
  BY <1>2, <1>7, <1>8

(* The first of some lines in one piece, when the pieces before it have    *)
(* none of them, is the first of the joined pieces.                        *)
LEMMA FlattenFirst ==
  ASSUME NEW S, NEW seqs \in Seq(Seq(S)), NEW some, NEW line,
         NEW at \in 1..Len(seqs), First(seqs[at], some, line),
         \A j \in 1..at-1 : Range(seqs[j]) \intersect some = {}
  PROVE  First(FlattenSeq(seqs), some, line)
<1>. DEFINE n == Len(seqs)
<1>1. n \in Nat /\ n \in 0..n /\ at \in 1..n /\ \A i \in 1..n : seqs[i] \in Seq(S)
  OBVIOUS
<1>2. PICK f \in [0..n -> Seq(S)] :
        /\ f[0] = <<>>
        /\ \A i \in 1..n : f[i] = f[i-1] \o seqs[i]
        /\ FlattenSeq(seqs) = f[n]
  BY FlattenPieces
<1>. DEFINE None(m) == \A j \in 1..Len(f[m]) : f[m][j] \notin some
            T == {m \in 0..n : /\ m < at => None(m)
                               /\ m >= at => First(f[m], some, line)}
<1>3. 0 \in T
  BY <1>1, <1>2
<1>4. ASSUME NEW i \in 1..n, i - 1 \in T
      PROVE  i \in T
  <2>. DEFINE a == f[i-1]
              b == seqs[i]
  <2>1. a \in Seq(S) /\ b \in Seq(S) /\ f[i] = a \o b
    BY <1>1, <1>2, <1>4
  <2>2. /\ Len(a) \in Nat /\ Len(b) \in Nat
        /\ Len(a \o b) = Len(a) + Len(b)
        /\ \A k \in 1..Len(a) : (a \o b)[k] = a[k]
        /\ \A k \in 1..Len(b) : (a \o b)[Len(a) + k] = b[k]
    <3>. HIDE DEF a, b
    <3>1. /\ Len(a) \in Nat /\ Len(b) \in Nat
          /\ Len(a \o b) = Len(a) + Len(b)
          /\ \A k \in 1..Len(a) + Len(b) :
               (a \o b)[k] = IF k <= Len(a) THEN a[k] ELSE b[k - Len(a)]
      BY <2>1, ConcatProperties
    <3>2. ASSUME NEW k \in 1..Len(b)
          PROVE  (a \o b)[Len(a) + k] = b[k]
      <4>1. /\ Len(a) + k \in 1..Len(a) + Len(b) /\ ~(Len(a) + k <= Len(a))
            /\ (Len(a) + k) - Len(a) = k
        BY <3>1
      <4>2. QED
        BY <3>1, <4>1
    <3>3. QED
      BY <3>1, <3>2
  <2>3. CASE i < at
    <3>1. \A k \in 1..Len(a) : a[k] \notin some
      BY <1>1, <1>4, <2>3
    <3>2. \A k \in 1..Len(b) : b[k] \notin some
      <4>1. Range(b) \intersect some = {}
        BY <1>1, <2>3
      <4>2. Range(b) = {b[k] : k \in 1..Len(b)}
        BY <2>1, RangeEquality
      <4>3. QED
        BY <4>1, <4>2
    <3>. HIDE DEF a, b
    <3>3. ASSUME NEW k \in 1..Len(a \o b)
          PROVE  (a \o b)[k] \notin some
      <4>1. CASE k <= Len(a)
        BY <2>2, <3>1, <4>1
      <4>2. CASE ~(k <= Len(a))
        <5>1. k - Len(a) \in 1..Len(b) /\ Len(a) + (k - Len(a)) = k
          BY <2>2, <4>2
        <5>2. QED
          BY <2>2, <3>2, <5>1
      <4>3. QED
        BY <4>1, <4>2
    <3>4. None(i)
      BY <2>1, <3>3
    <3>. HIDE DEF None
    <3>5. QED
      BY <1>1, <2>3, <3>4
  <2>4. CASE i = at
    <3>1. \A k \in 1..Len(a) : a[k] \notin some
      BY <1>1, <1>4, <2>4
    <3>2. PICK k \in 1..Len(b) :
            b[k] = line /\ line \in some /\ \A j \in 1..k-1 : b[j] \notin some
      BY <2>4 DEF First
    <3>. HIDE DEF a, b
    <3>3. Len(a) + k \in 1..Len(a \o b) /\ (a \o b)[Len(a) + k] = line
      BY <2>2, <3>2
    <3>4. ASSUME NEW j \in 1..(Len(a) + k) - 1
          PROVE  (a \o b)[j] \notin some
      <4>1. CASE j <= Len(a)
        BY <2>2, <3>1, <4>1
      <4>2. CASE ~(j <= Len(a))
        <5>1. j \in Nat /\ Len(a) \in Nat /\ Len(b) \in Nat /\ k \in 1..Len(b)
          BY <2>2
        <5>. DEFINE i1 == j - Len(a)
        <5>2. i1 \in 1..k-1 /\ i1 \in 1..Len(b) /\ Len(a) + i1 = j
          BY <4>2, <5>1
        <5>. HIDE DEF i1
        <5>3. QED
          BY <2>2, <3>2, <5>2
      <4>3. QED
        BY <4>1, <4>2
    <3>5. First(f[i], some, line)
      BY <2>1, <3>2, <3>3, <3>4 DEF First
    <3>6. QED
      BY <1>1, <2>4, <3>5
  <2>5. CASE i > at
    <3>1. First(a, some, line)
      BY <1>1, <1>4, <2>5
    <3>2. PICK k \in 1..Len(a) :
            a[k] = line /\ line \in some /\ \A j \in 1..k-1 : a[j] \notin some
      BY <3>1 DEF First
    <3>. HIDE DEF a, b
    <3>3. k \in 1..Len(a \o b) /\ (a \o b)[k] = line
      BY <2>2, <3>2
    <3>4. \A j \in 1..k-1 : (a \o b)[j] \notin some
      BY <2>2, <3>2
    <3>5. First(f[i], some, line)
      BY <2>1, <3>2, <3>3, <3>4 DEF First
    <3>6. QED
      BY <1>1, <2>5, <3>5
  <2>6. QED
    BY <1>1, <2>3, <2>4, <2>5
<1>5. T = 0..n
  <2>1. T \in SUBSET (0..n)
    OBVIOUS
  <2>. HIDE DEF T, n
  <2>2. QED
    BY <1>1, <1>3, <1>4, <2>1, EveryStep
<1>6. n \in T /\ n >= at
  <2>. HIDE DEF T, n
  <2>1. QED
    BY <1>1, <1>5
<1>7. First(f[n], some, line)
  BY <1>6
<1>8. QED
  BY <1>2, <1>7

-----------------------------------------------------------------------------
(* The credentials file *)

(* One line, or two.                                                       *)
LEMMA ShortSeqs ==
  ASSUME NEW S, NEW a \in S, NEW b \in S
  PROVE  /\ <<>> \in Seq(S) /\ <<a>> \in Seq(S) /\ <<a, b>> \in Seq(S)
         /\ Range(<<>>) = {} /\ Range(<<a>>) = {a} /\ Range(<<a, b>>) = {a, b}
<1>1. <<>> \in Seq(S) /\ <<a>> \in Seq(S) /\ <<a, b>> \in Seq(S)
  OBVIOUS
<1>2. Range(<<>>) = {}
  BY DEF Range
<1>3. Range(<<a>>) = {a}
  <2>1. DOMAIN <<a>> = {1} /\ <<a>>[1] = a
    OBVIOUS
  <2>2. QED
    BY <2>1 DEF Range
<1>4. Range(<<a, b>>) = {a, b}
  <2>1. DOMAIN <<a, b>> = {1, 2} /\ <<a, b>>[1] = a /\ <<a, b>>[2] = b
    OBVIOUS
  <2>2. QED
    BY <2>1 DEF Range
<1>5. QED
  BY <1>1, <1>2, <1>3, <1>4

(* A line among some lines is the first of them, alone or behind one that  *)
(* is not among them, and the first of two.                                *)
LEMMA ShortFirst ==
  ASSUME NEW some, NEW a \in some, NEW b
  PROVE  /\ First(<<a>>, some, a) /\ First(<<a, b>>, some, a)
         /\ b \notin some => First(<<b, a>>, some, a)
<1>1. First(<<a>>, some, a)
  <2>1. Len(<<a>>) = 1 /\ <<a>>[1] = a
    OBVIOUS
  <2>2. QED
    BY <2>1 DEF First
<1>2. First(<<a, b>>, some, a)
  <2>1. Len(<<a, b>>) = 2 /\ <<a, b>>[1] = a
    OBVIOUS
  <2>2. 1 \in 1..2 /\ 1..1-1 = {}
    OBVIOUS
  <2>3. QED
    BY <2>1, <2>2 DEF First
<1>3. ASSUME b \notin some
      PROVE  First(<<b, a>>, some, a)
  <2>1. Len(<<b, a>>) = 2 /\ <<b, a>>[1] = b /\ <<b, a>>[2] = a
    OBVIOUS
  <2>2. 2 \in 1..2 /\ \A j \in 1..2-1 : j = 1
    OBVIOUS
  <2>3. QED
    BY <1>3, <2>1, <2>2 DEF First
<1>4. QED
  BY <1>1, <1>2, <1>3

(* LinesWithout keeps the lines for other repositories, and only them.     *)
LEMMA WithoutLines ==
  ASSUME NEW lines \in Seq(Lines), NEW repos
  PROVE  /\ LinesWithout(lines, repos) \in Seq(Lines)
         /\ Range(LinesWithout(lines, repos))
              = {line \in Range(lines) : line.repo \notin repos}
<1>. DEFINE n == Len(lines)
            pieces == [i \in DOMAIN lines |->
                         IF lines[i].repo \in repos THEN <<>> ELSE <<lines[i]>>]
<1>1. n \in Nat /\ DOMAIN lines = 1..n /\ \A i \in 1..n : lines[i] \in Lines
  OBVIOUS
<1>2. \A i \in 1..n : pieces[i] \in Seq(Lines)
  BY <1>1, ShortSeqs
<1>3. pieces \in Seq(Seq(Lines)) /\ Len(pieces) = n
  BY <1>1, <1>2
<1>4. \A i \in 1..n : Range(pieces[i]) = IF lines[i].repo \in repos THEN {} ELSE {lines[i]}
  BY <1>1, ShortSeqs
<1>. HIDE DEF pieces
<1>5. /\ FlattenSeq(pieces) \in Seq(Lines)
      /\ \A line : line \in Range(FlattenSeq(pieces))
                     <=> \E i \in 1..n : line \in Range(pieces[i])
  BY <1>3, FlattenRange
<1>6. \A line : line \in Range(lines) <=> \E i \in 1..n : line = lines[i]
  BY <1>1 DEF Range
<1>. HIDE DEF n
<1>7. \A line : (\E i \in 1..n : line \in Range(pieces[i]))
                  <=> line \in Range(lines) /\ line.repo \notin repos
  <2>1. ASSUME NEW i \in 1..n, NEW line \in Range(pieces[i])
        PROVE  line \in Range(lines) /\ line.repo \notin repos
    <3>1. line = lines[i] /\ lines[i].repo \notin repos
      BY <1>4
    <3>2. QED
      BY <1>6, <3>1
  <2>2. ASSUME NEW line \in Range(lines), line.repo \notin repos
        PROVE  \E i \in 1..n : line \in Range(pieces[i])
    <3>1. PICK i \in 1..n : line = lines[i]
      BY <1>6
    <3>2. line \in Range(pieces[i])
      BY <1>4, <2>2, <3>1
    <3>3. QED
      BY <3>2
  <2>3. QED
    BY <2>1, <2>2
<1>8. LinesWithout(lines, repos) = FlattenSeq(pieces)
  BY DEF LinesWithout, pieces
<1>9. QED
  BY <1>5, <1>7, <1>8

(* What came first still does, unless it is removed.                       *)
LEMMA WithoutFirst ==
  ASSUME NEW lines \in Seq(Lines), NEW repos, NEW some, NEW line,
         First(lines, some, line), line.repo \notin repos
  PROVE  First(LinesWithout(lines, repos), some, line)
<1>. DEFINE n == Len(lines)
            pieces == [i \in DOMAIN lines |->
                         IF lines[i].repo \in repos THEN <<>> ELSE <<lines[i]>>]
<1>1. n \in Nat /\ DOMAIN lines = 1..n /\ \A i \in 1..n : lines[i] \in Lines
  OBVIOUS
<1>2. \A i \in 1..n : pieces[i] \in Seq(Lines)
  BY <1>1, ShortSeqs
<1>3. pieces \in Seq(Seq(Lines)) /\ Len(pieces) = n
  BY <1>1, <1>2
<1>4. PICK at \in 1..n :
        lines[at] = line /\ line \in some /\ \A j \in 1..at-1 : lines[j] \notin some
  BY DEF First
<1>5. First(pieces[at], some, line)
  <2>1. pieces[at] = <<line>>
    BY <1>1, <1>4
  <2>2. line \in some
    BY <1>4
  <2>. HIDE DEF pieces
  <2>3. QED
    BY <2>1, <2>2, ShortFirst
<1>6. ASSUME NEW j \in 1..at-1
      PROVE  Range(pieces[j]) \intersect some = {}
  <2>1. j \in 1..n /\ lines[j] \notin some
    BY <1>1, <1>4
  <2>2. Range(pieces[j]) \subseteq {lines[j]}
    <3>1. pieces[j] \in {<<>>, <<lines[j]>>} /\ lines[j] \in Lines
      BY <1>1, <2>1
    <3>2. Range(<<>>) = {} /\ Range(<<lines[j]>>) = {lines[j]}
      BY <3>1, ShortSeqs
    <3>. HIDE DEF pieces
    <3>3. QED
      BY <3>1, <3>2
  <2>3. QED
    BY <2>1, <2>2
<1>. HIDE DEF pieces, n
<1>7. First(FlattenSeq(pieces), some, line)
  BY <1>3, <1>5, <1>6, FlattenFirst
<1>8. LinesWithout(lines, repos) = FlattenSeq(pieces)
  BY DEF LinesWithout, pieces
<1>9. QED
  BY <1>7, <1>8

(* What becomes of a line is made of it and of the new one.                *)
LEMMA RewrittenLines ==
  ASSUME NEW line \in Lines, NEW added \in Lines
  PROVE  /\ Rewritten(line, added) \in Seq(Lines)
         /\ Range(Rewritten(line, added)) \subseteq {line, added}
<1>1. Rewritten(line, added) \in {<<added>>, <<added, line>>, <<line>>}
  BY DEF Rewritten
<1>2. /\ <<added>> \in Seq(Lines) /\ <<added, line>> \in Seq(Lines)
      /\ Range(<<added>>) = {added} /\ Range(<<added, line>>) = {added, line}
  BY ShortSeqs
<1>3. <<line>> \in Seq(Lines) /\ Range(<<line>>) = {line}
  BY ShortSeqs
<1>4. QED
  BY <1>1, <1>2, <1>3

(* A file with a line added has the old lines and the new one, only.       *)
LEMMA AddLines ==
  ASSUME NEW lines \in Seq(Lines), NEW repo \in Repos, NEW token \in Tokens
  PROVE  /\ AddAptAuthConfEntry(lines, repo, token) \in Seq(Lines)
         /\ Range(AddAptAuthConfEntry(lines, repo, token))
              \subseteq Range(lines) \union {[repo |-> repo, token |-> token]}
<1>. DEFINE added == [repo |-> repo, token |-> token]
            n == Len(lines)
            pieces == [i \in DOMAIN lines |-> Rewritten(lines[i], added)]
<1>0. added \in Lines
  BY DEF Lines
<1>1. n \in Nat /\ DOMAIN lines = 1..n /\ \A i \in 1..n : lines[i] \in Lines
  OBVIOUS
<1>2. \A i \in 1..n : lines[i] \in Range(lines)
  BY <1>1 DEF Range
<1>. HIDE DEF added
<1>3. \A i \in 1..n : /\ pieces[i] \in Seq(Lines)
                      /\ Range(pieces[i]) \subseteq {lines[i], added}
  BY <1>0, <1>1, RewrittenLines
<1>4. pieces \in Seq(Seq(Lines)) /\ Len(pieces) = n
  BY <1>1, <1>3
<1>. HIDE DEF pieces
<1>5. /\ FlattenSeq(pieces) \in Seq(Lines)
      /\ \A line : line \in Range(FlattenSeq(pieces))
                     <=> \E i \in 1..n : line \in Range(pieces[i])
  BY <1>4, FlattenRange
<1>. HIDE DEF n
<1>6. Range(FlattenSeq(pieces)) \subseteq Range(lines) \union {added}
  BY <1>2, <1>3, <1>5
<1>7. lines \in Seq(Lines) /\ Append(lines, added) \in Seq(Lines) /\ <<added>> \in Seq(Lines)
  BY <1>0
<1>8. Range(Append(lines, added)) = Range(lines) \union {added}
  <2>1. Append(lines, added) = lines \o <<added>>
    BY <1>0, AppendIsConcat
  <2>2. Range(lines \o <<added>>) = Range(lines) \union Range(<<added>>)
    <3>1. \A a, b \in Seq(Lines) : Range(a \o b) = Range(a) \union Range(b)
      BY RangeConcatenation
    <3>2. QED
      BY <1>7, <3>1, Zenon
  <2>3. QED
    BY <1>0, <2>1, <2>2, ShortSeqs
<1>9. AddAptAuthConfEntry(lines, repo, token) \in {FlattenSeq(pieces), Append(lines, added)}
  BY DEF AddAptAuthConfEntry, pieces, added
<1>10. QED
  BY <1>5, <1>6, <1>7, <1>8, <1>9 DEF added

(* What came first still does when a line is added, unless the new one is  *)
(* among those looked for.                                                 *)
LEMMA AddKeepsFirst ==
  ASSUME NEW lines \in Seq(Lines), NEW repo \in Repos, NEW token \in Tokens,
         NEW wanted \in Repos, repo \notin {wanted, Host[wanted]},
         NEW line, First(lines, Serving(wanted), line)
  PROVE  First(AddAptAuthConfEntry(lines, repo, token), Serving(wanted), line)
<1>. DEFINE added == [repo |-> repo, token |-> token]
            some == Serving(wanted)
            n == Len(lines)
            pieces == [i \in DOMAIN lines |-> Rewritten(lines[i], added)]
<1>0. added \in Lines /\ added.repo = repo /\ added \notin some
  BY DEF Lines, Serving, Serves
<1>1. n \in Nat /\ DOMAIN lines = 1..n /\ \A i \in 1..n : lines[i] \in Lines
  OBVIOUS
<1>2. PICK at \in 1..n :
        lines[at] = line /\ line \in some /\ \A j \in 1..at-1 : lines[j] \notin some
  BY DEF First
<1>. HIDE DEF added
<1>3. \A i \in 1..n : /\ pieces[i] \in Seq(Lines)
                      /\ Range(pieces[i]) \subseteq {lines[i], added}
  BY <1>0, <1>1, RewrittenLines
<1>4. pieces \in Seq(Seq(Lines)) /\ Len(pieces) = n
  BY <1>1, <1>3
<1>5. pieces[at] = Rewritten(line, added)
  BY <1>1, <1>2
<1>. HIDE DEF pieces
<1>6. First(pieces[at], some, line)
  <2>1. line.repo \in {wanted, Host[wanted]}
    BY <1>2 DEF Serving, Serves
  <2>2. MatchedRepo(line) # added.repo
    BY <1>0, <2>1, AptAuthAssumption DEF MatchedRepo
  <2>3. Rewritten(line, added) \in {<<added, line>>, <<line>>}
    BY <2>2 DEF Rewritten
  <2>. HIDE DEF some
  <2>4. First(<<added, line>>, some, line) /\ First(<<line>>, some, line)
    BY <1>0, <1>2, ShortFirst
  <2>5. QED
    BY <1>5, <2>3, <2>4
<1>. HIDE DEF some, n
<1>7. ASSUME NEW j \in 1..at-1
      PROVE  Range(pieces[j]) \intersect some = {}
  <2>1. j \in 1..n /\ lines[j] \notin some
    BY <1>1, <1>2
  <2>2. QED
    BY <1>0, <1>3, <2>1
<1>8. First(FlattenSeq(pieces), some, line)
  BY <1>4, <1>6, <1>7, FlattenFirst DEF n
<1>9. First(Append(lines, added), some, line)
  <2>1. /\ Len(Append(lines, added)) = n + 1
        /\ \A i \in 1..n : Append(lines, added)[i] = lines[i]
    BY <1>0 DEF n
  <2>2. at \in 1..n+1 /\ \A j \in 1..at-1 : j \in 1..n
    BY <1>1
  <2>3. QED
    BY <1>2, <2>1, <2>2 DEF First
<1>10. AddAptAuthConfEntry(lines, repo, token) \in {FlattenSeq(pieces), Append(lines, added)}
  BY DEF AddAptAuthConfEntry, pieces, added
<1>11. QED
  BY <1>8, <1>9, <1>10 DEF some

(* The line that is added is the first that serves its repository: it has  *)
(* taken the place of the first on its host, stands before it, or is the   *)
(* only one.                                                               *)
LEMMA AddedFirst ==
  ASSUME NEW lines \in Seq(Lines), NEW repo \in Repos, NEW token \in Tokens
  PROVE  First(AddAptAuthConfEntry(lines, repo, token), Serving(repo),
               [repo |-> repo, token |-> token])
<1>. DEFINE added == [repo |-> repo, token |-> token]
            some == Serving(repo)
            n == Len(lines)
            pieces == [i \in DOMAIN lines |-> Rewritten(lines[i], added)]
            Near == {i \in 1..n : MatchedRepo(lines[i]) = Host[repo]}
<1>0. added \in Lines /\ added.repo = repo /\ added \in some
  BY DEF Lines, Serving, Serves
<1>1. n \in Nat /\ DOMAIN lines = 1..n /\ \A i \in 1..n : lines[i] \in Lines
  OBVIOUS
<1>2. \A i \in 1..n : lines[i].repo \in Repos
  BY <1>1 DEF Lines
<1>. HIDE DEF added
<1>3. \A i \in 1..n : pieces[i] = Rewritten(lines[i], added) /\ pieces[i] \in Seq(Lines)
  BY <1>0, <1>1, RewrittenLines
<1>4. pieces \in Seq(Seq(Lines)) /\ Len(pieces) = n
  BY <1>1, <1>3
<1>. HIDE DEF pieces
<1>5. ASSUME NEW i \in 1..n, i \notin Near
      PROVE  lines[i] \notin some /\ MatchedRepo(lines[i]) # repo
  BY <1>2, <1>5, AptAuthAssumption DEF MatchedRepo, Serving, Serves
<1>. HIDE DEF some, n
<1>6. CASE Near # {}
  <2>1. PICK at \in Near : \A j \in Near : at <= j
    <3>1. Near \in SUBSET Nat
      BY <1>1
    <3>. HIDE DEF Near
    <3>2. QED
      BY <1>6, <3>1, Least
  <2>2. First(pieces[at], some, added)
    <3>1. pieces[at] \in {<<added>>, <<added, lines[at]>>}
      BY <1>0, <1>3, <2>1 DEF Rewritten
    <3>2. First(<<added>>, some, added) /\ First(<<added, lines[at]>>, some, added)
      BY <1>0, ShortFirst
    <3>3. QED
      BY <3>1, <3>2
  <2>3. ASSUME NEW j \in 1..at-1
        PROVE  Range(pieces[j]) \intersect some = {}
    <3>1. j \in 1..n /\ j \notin Near
      <4>1. at \in 1..n /\ j \in 1..n /\ ~(at <= j)
        BY <1>1, <2>1
      <4>. HIDE DEF Near
      <4>2. QED
        BY <2>1, <4>1
    <3>2. /\ lines[j] \in Lines /\ lines[j] \notin some
          /\ MatchedRepo(lines[j]) \notin {repo, Host[repo]}
      BY <1>1, <1>5, <3>1
    <3>3. pieces[j] = <<lines[j]>>
      BY <1>0, <1>3, <3>1, <3>2 DEF Rewritten
    <3>4. Range(pieces[j]) = {lines[j]}
      BY <3>2, <3>3, ShortSeqs
    <3>5. QED
      BY <3>2, <3>4
  <2>4. at \in 1..Len(pieces)
    BY <1>4, <2>1
  <2>5. First(FlattenSeq(pieces), some, added)
    BY <1>4, <2>2, <2>3, <2>4, FlattenFirst
  <2>6. \E line \in Range(lines) : MatchedRepo(line) = Host[repo]
    BY <1>1, <2>1 DEF Range
  <2>7. AddAptAuthConfEntry(lines, repo, token) = FlattenSeq(pieces)
    BY <2>6 DEF AddAptAuthConfEntry, pieces, added
  <2>8. QED
    BY <2>5, <2>7 DEF added, some
<1>7. CASE Near = {}
  <2>1. \A i \in 1..n : lines[i] \notin some
    BY <1>5, <1>7
  <2>2. ~\E line \in Range(lines) : MatchedRepo(line) = Host[repo]
    BY <1>1, <1>7 DEF Range
  <2>3. AddAptAuthConfEntry(lines, repo, token) = Append(lines, added)
    BY <2>2 DEF AddAptAuthConfEntry, added
  <2>4. /\ Len(Append(lines, added)) = n + 1
        /\ \A i \in 1..n : Append(lines, added)[i] = lines[i]
        /\ Append(lines, added)[n+1] = added
    BY <1>0 DEF n
  <2>5. n + 1 \in 1..n+1 /\ \A j \in 1..(n+1)-1 : j \in 1..n
    BY <1>1
  <2>6. First(Append(lines, added), some, added)
    BY <1>0, <2>1, <2>4, <2>5 DEF First
  <2>7. QED
    BY <2>3, <2>6 DEF added, some
<1>8. QED
  BY <1>6, <1>7

(* apt uses the first line that serves a repository, and no other.         *)
LEMMA FirstIsServed ==
  ASSUME NEW lines \in Seq(Lines), NEW repo, NEW line,
         First(lines, Serving(repo), line)
  PROVE  ServedToken(lines, repo) = {line.token}
<1>. DEFINE serving == {i \in DOMAIN lines : Serves(lines[i], repo)}
            used == {j \in serving : \A k \in serving : j <= k}
<1>1. /\ DOMAIN lines = 1..Len(lines) /\ Len(lines) \in Nat
      /\ \A i \in 1..Len(lines) : lines[i] \in Lines
  OBVIOUS
<1>2. PICK at \in 1..Len(lines) :
        /\ lines[at] = line /\ line \in Serving(repo)
        /\ \A j \in 1..at-1 : lines[j] \notin Serving(repo)
  BY DEF First
<1>3. at \in serving
  BY <1>1, <1>2 DEF Serving
<1>4. \A j \in serving : at <= j
  <2>1. \A j \in serving : j \in 1..Len(lines) /\ lines[j] \in Serving(repo)
    BY <1>1 DEF Serving
  <2>. HIDE DEF serving
  <2>2. \A j \in serving : j \notin 1..at-1
    BY <1>2, <2>1
  <2>3. QED
    BY <1>1, <2>1, <2>2
<1>5. serving \subseteq Nat
  BY <1>1
<1>. HIDE DEF serving
<1>6. used = {at}
  <2>1. at \in used
    BY <1>3, <1>4
  <2>2. \A j \in used : j \in Nat /\ j <= at /\ at <= j
    BY <1>3, <1>4, <1>5
  <2>. HIDE DEF used
  <2>3. \A j \in used : j = at
    BY <1>3, <1>5, <2>2
  <2>4. QED
    BY <2>1, <2>3
<1>7. ServedToken(lines, repo) = {lines[i].token : i \in used}
  BY DEF ServedToken, serving
<1>. HIDE DEF used
<1>8. QED
  BY <1>2, <1>6, <1>7

-----------------------------------------------------------------------------
(* Contracts and the loop *)

(* The names are the services, each at one place.                          *)
LEMMA NamePlaces ==
  /\ Len(Names) \in Nat
  /\ \A i \in 1..Len(Names) : Names[i] \in Services
  /\ \A s \in Services : \E i \in 1..Len(Names) : Names[i] = s
  /\ \A i, j \in 1..Len(Names) : Names[i] = Names[j] => i = j
<1>1. Names \in Seq(Services) /\ DOMAIN Names = 1..Len(Names) /\ Len(Names) \in Nat
  BY DeltasAssumption
<1>2. \A s \in Services : \E i \in 1..Len(Names) : Names[i] = s
  BY <1>1 DEF Services, Range
<1>3. \A i \in 1..Len(Names) : Names[i] \in Services
  BY <1>1
<1>4. \A i, j \in 1..Len(Names) : Names[i] = Names[j] => i = j
  BY <1>1, DeltasAssumption
<1>5. QED
  BY <1>1, <1>2, <1>3, <1>4

(* What a contract says of a service.                                      *)
LEMMA ViewTypes ==
  ASSUME NEW s \in Services
  PROVE  /\ \A v \in Views(s) : v # Absent =>
              /\ v.entitled \in BOOLEAN /\ v.url \in Repos /\ v.token \in Tokens
              /\ v.url \in Urls(s)
         /\ Urls(s) \subseteq Repos
         /\ Absent \notin Repos
<1>1. \A e \in Offers[s] : e # Absent =>
        /\ e.entitled \in BOOLEAN /\ e.token \in Tokens
        /\ \A r \in Series : e.url[r] \in Repos /\ e.url[r] \in Urls(s)
  <2>1. ASSUME NEW e \in Offers[s], e # Absent
        PROVE  e \in [entitled : BOOLEAN, url : [Series -> Repos], token : Tokens]
    BY <2>1, DeltasAssumption
  <2>2. ASSUME NEW e \in Offers[s], e # Absent, NEW r \in Series
        PROVE  e.url[r] \in Urls(s)
    BY <2>2 DEF Urls
  <2>3. QED
    BY <2>1, <2>2
<1>2. \A v \in Views(s) : v # Absent => \E e \in Offers[s], r \in Series :
        e # Absent /\ v = [entitled |-> e.entitled, url |-> e.url[r], token |-> e.token]
  BY DEF Views, SeriesView
<1>3. Urls(s) \subseteq Repos
  BY <1>1 DEF Urls
<1>4. QED
  BY <1>1, <1>2, <1>3, DeltasAssumption

(* A contract seen on a release.                                           *)
LEMMA ContractViews ==
  ASSUME NEW c \in Contracts \union {Nothing}, NEW r \in Series, NEW s \in Services
  PROVE  /\ SeriesView(c[s], r) \in Views(s)
         /\ Entitlements(c, r)[s] = SeriesView(c[s], r)
         /\ SeriesView(c[s], r) = Absent <=> c[s] = Absent
         /\ c[s] # Absent =>
              /\ SeriesView(c[s], r).entitled = c[s].entitled
              /\ SeriesView(c[s], r).url = c[s].url[r]
              /\ SeriesView(c[s], r).token = c[s].token
<1>1. c[s] \in Offers[s] \union {Absent}
  BY DEF Contracts, Nothing
<1>2. SeriesView(c[s], r) \in Views(s)
  BY <1>1 DEF Views, SeriesView
<1>3. c[s] # Absent => [entitled |-> c[s].entitled, url |-> c[s].url[r],
                        token |-> c[s].token] # Absent
  <2>1. SUFFICES ASSUME c[s] # Absent
                 PROVE  [entitled |-> c[s].entitled, url |-> c[s].url[r],
                         token |-> c[s].token] # Absent
    OBVIOUS
  <2>2. c[s] \in [entitled : BOOLEAN, url : [Series -> Repos], token : Tokens]
    BY <1>1, <2>1, DeltasAssumption
  <2>3. [entitled |-> c[s].entitled, url |-> c[s].url[r], token |-> c[s].token]
          \in [entitled : BOOLEAN, url : Repos, token : Tokens]
    BY <2>2
  <2>4. QED
    BY <2>3, DeltasAssumption
<1>4. QED
  BY <1>2, <1>3 DEF SeriesView, Entitlements

LEMMA CurrentView ==
  ASSUME TypeOK, NEW s \in Services
  PROVE  Current(s) \in Views(s)
BY ContractViews DEF TypeOK, Current

(* After the loop has come to a service it is the others that wait.        *)
LEMMA LoopStep ==
  ASSUME TypeOK, NEW s \in Services, Each(s), Continue
  PROVE  /\ op \in {"attach", "refresh", "upgrade"} /\ op' = op
         /\ past' = past /\ new' = new /\ read' = read
         /\ next' \in 1..Len(Names)+1
         /\ Waits(s) /\ ~Waits(s)'
         /\ \A t \in Services \ {s} : Waits(t)' <=> Waits(t)
<1>1. /\ op \in {"attach", "refresh", "upgrade"} /\ op' = op /\ next' = next + 1
      /\ past' = past /\ new' = new /\ read' = read
      /\ next \in 1..Len(Names) /\ Names[next] = s
  BY NamePlaces DEF TypeOK, Each, Idle, Continue
<1>2. ~Idle /\ ~Idle'
  BY <1>1 DEF Idle
<1>3. next' \in 1..Len(Names)+1
  BY <1>1, NamePlaces
<1>4. \A i \in next+1..Len(Names) : Names[i] # s
  <2>1. \A i \in next+1..Len(Names) : i \in 1..Len(Names) /\ i # next
    BY <1>1, NamePlaces
  <2>2. QED
    BY <1>1, <2>1, NamePlaces
<1>5. next..Len(Names) = {next} \union (next+1..Len(Names))
  BY <1>1, NamePlaces
<1>6. Waits(s)
  BY <1>1, <1>2, <1>5 DEF Waits
<1>7. ~Waits(s)'
  BY <1>1, <1>4 DEF Waits
<1>8. \A t \in Services \ {s} : Waits(t)' <=> Waits(t)
  BY <1>1, <1>2, <1>5 DEF Waits
<1>9. QED
  BY <1>1, <1>3, <1>6, <1>7, <1>8

(* Before the loop begins no service waits, and when it does all do.       *)
LEMMA LoopStarts ==
  ASSUME NEW s \in Services
  PROVE  /\ Idle => ~Waits(s)
         /\ op' # "none" /\ next' = 1 => Waits(s)'
         /\ op' = "none" => ~Waits(s)'
BY NamePlaces DEF Waits, Idle

(* How a lapse is recorded.                                                *)
LEMMA Lapsing ==
  ASSUME TypeOK, NEW s \in Services, NEW kind \in Lapses, NEW cond \in BOOLEAN,
         Lapse(s, kind, cond)
  PROVE  /\ lapses' \in [Services -> Lapses]
         /\ cond => lapses'[s] \in {kind, "source"}
         /\ lapses[s] = "source" => lapses'[s] = "source"
         /\ \A t \in Services : t # s \/ ~cond => lapses'[t] = lapses[t]
BY DEF TypeOK, Lapse, Lapses

-----------------------------------------------------------------------------
(* What a service does to the shared files *)

(* A service that is set up has the contract's repository, its line is the *)
(* first of those that serve it, and the other services' lines stay.       *)
LEMMA Configuring ==
  ASSUME TypeOK, NEW s \in Services, Current(s) # Absent,
         NEW lines \in Seq(Lines), Configure(s, lines)
  PROVE  /\ file' \in Seq(Lines)
         /\ applied' = [applied EXCEPT ![s] = Current(s).url]
         /\ applied' \in [Services -> Repos \union {Absent}]
         /\ lapses' \in [Services -> Lapses]
         /\ \A t \in Services : lapses[t] = "source" => lapses'[t] = "source"
         /\ \A line \in Range(file') : line \in Range(lines) \/ line.repo = Current(s).url
         /\ \A line \in Range(lines) :
              line.repo = applied[s] => applied[s] = Current(s).url \/ lapses'[s] = "source"
         /\ First(file', Serving(Current(s).url),
                  [repo |-> Current(s).url, token |-> Current(s).token])
         /\ \A t \in Services \ {s} : \A line :
              /\ lapses'[t] = "none" /\ applied[t] \in Urls(t)
              /\ First(lines, Serving(applied[t]), line)
              => First(file', Serving(applied[t]), line)
         /\ \A t \in Services \ {s} : lapses'[t] = "none" => lapses[t] = "none"
<1>. DEFINE v == Current(s)
<1>1. v \in Views(s) /\ v # Absent
  BY CurrentView
<1>2. v.url \in Repos /\ v.token \in Tokens /\ v.url \in Urls(s) /\ Absent \notin Repos
  BY <1>1, ViewTypes
<1>3. /\ file' = AddAptAuthConfEntry(lines, v.url, v.token)
      /\ applied' = [applied EXCEPT ![s] = v.url]
  BY DEF Configure
<1>4. /\ lapses' \in [Services -> Lapses]
      /\ \A t \in Services : lapses[t] = "source" => lapses'[t] = "source"
      /\ \A i \in DOMAIN lines :
           lines[i].repo = applied[s] => applied[s] = v.url \/ lapses'[s] = "source"
      /\ \A t \in Services \ {s} : lapses'[t] = "none" =>
           /\ lapses[t] = "none"
           /\ applied[t] = Absent \/ applied[t] = v.url \/ Host[applied[t]] # v.url
  BY DEF TypeOK, Configure, Lapses
<1>. HIDE DEF v
<1>5. /\ file' \in Seq(Lines)
      /\ \A line \in Range(file') : line \in Range(lines) \/ line.repo = v.url
  BY <1>2, <1>3, AddLines
<1>6. First(file', Serving(v.url), [repo |-> v.url, token |-> v.token])
  BY <1>2, <1>3, AddedFirst
<1>7. ASSUME NEW t \in Services \ {s}, NEW line, lapses'[t] = "none",
             applied[t] \in Urls(t), First(lines, Serving(applied[t]), line)
      PROVE  First(file', Serving(applied[t]), line)
  <2>1. applied[t] \in Repos /\ applied[t] # v.url /\ applied[t] # Absent
    BY <1>2, <1>7, ViewTypes, UrlsAssumption
  <2>2. Host[applied[t]] # v.url
    BY <1>4, <1>7, <2>1
  <2>3. QED
    BY <1>2, <1>3, <1>7, <2>1, <2>2, AddKeepsFirst
<1>8. \A line \in Range(lines) :
        line.repo = applied[s] => applied[s] = v.url \/ lapses'[s] = "source"
  BY <1>4 DEF Range
<1>9. applied' \in [Services -> Repos \union {Absent}]
  BY <1>2, <1>3 DEF TypeOK
<1>10. QED
  BY <1>3, <1>4, <1>5, <1>6, <1>7, <1>8, <1>9 DEF v

(* Removing a service's repository leaves the other services' lines.       *)
LEMMA Removing ==
  ASSUME NEW s \in Services, NEW repo \in Urls(s), NEW lines \in Seq(Lines)
  PROVE  /\ RemoveRepoFromAptAuthFile(lines, repo) \in Seq(Lines)
         /\ \A line : line \in Range(RemoveRepoFromAptAuthFile(lines, repo))
                        <=> line \in Range(lines) /\ line.repo # repo
         /\ \A t \in Services \ {s} : \A some, line :
              line.repo \in Urls(t) /\ First(lines, some, line) =>
                First(RemoveRepoFromAptAuthFile(lines, repo), some, line)
<1>1. /\ LinesWithout(lines, {repo}) \in Seq(Lines)
      /\ \A line : line \in Range(LinesWithout(lines, {repo}))
                     <=> line \in Range(lines) /\ line.repo # repo
  BY WithoutLines
<1>2. ASSUME NEW t \in Services \ {s}, NEW some, NEW line,
             line.repo \in Urls(t), First(lines, some, line)
      PROVE  First(LinesWithout(lines, {repo}), some, line)
  <2>1. line.repo \notin {repo}
    BY <1>2, UrlsAssumption
  <2>2. QED
    BY <1>2, <2>1, WithoutFirst
<1>3. QED
  BY <1>1, <1>2 DEF RemoveRepoFromAptAuthFile

LEMMA Clearing ==
  ASSUME TypeOK, LoopInv, NEW s \in Services, Current(s) # Absent
  PROVE  /\ Cleared(s) \in Seq(Lines)
         /\ Range(Cleared(s)) \subseteq Range(file)
         /\ \A t \in Services \ {s} : \A some, line :
              line.repo \in Urls(t) /\ First(file, some, line) =>
                First(Cleared(s), some, line)
<1>. DEFINE now == RemoveRepoFromAptAuthFile(file, Current(s).url)
<1>1. file \in Seq(Lines) /\ Current(s).url \in Urls(s)
  BY CurrentView, ViewTypes DEF TypeOK
<1>2. /\ now \in Seq(Lines) /\ Range(now) \subseteq Range(file)
      /\ \A t \in Services \ {s} : \A some, line :
           line.repo \in Urls(t) /\ First(file, some, line) => First(now, some, line)
  BY <1>1, Removing
<1>. HIDE DEF now
<1>3. CASE past[s] = Absent
  BY <1>2, <1>3 DEF Cleared, now
<1>4. CASE past[s] # Absent
  <2>. DEFINE then == RemoveRepoFromAptAuthFile(now, past[s].url)
  <2>1. past[s].url \in Urls(s)
    BY <1>4, ViewTypes DEF LoopInv
  <2>2. /\ then \in Seq(Lines) /\ Range(then) \subseteq Range(now)
        /\ \A t \in Services \ {s} : \A some, line :
             line.repo \in Urls(t) /\ First(now, some, line) => First(then, some, line)
    BY <1>2, <2>1, Removing
  <2>3. Cleared(s) = then
    BY <1>4 DEF Cleared, now
  <2>. HIDE DEF then
  <2>4. QED
    BY <1>2, <2>2, <2>3
<1>5. QED
  BY <1>3, <1>4

-----------------------------------------------------------------------------
(* The steps *)

(* Each step keeps the Boolean variable Boolean.                           *)
LEMMA StepFlags ==
  ASSUME TypeOK, [Next]_vars
  PROVE  outstanding' \in BOOLEAN
<1>. USE DEF TypeOK, data, loop, history, Untouched, Return
<1>1. CASE UpdateContract
  BY <1>1 DEF UpdateContract
<1>2. CASE ReleaseUpgrade
  BY <1>2 DEF ReleaseUpgrade
<1>3. CASE ReadContracts
  BY <1>3 DEF ReadContracts
<1>4. CASE ProcessRead
  BY <1>4 DEF ProcessRead
<1>5. CASE Finish
  BY <1>5 DEF Finish
<1>6. CASE Crash
  BY <1>6 DEF Crash
<1>7. CASE Detach
  BY <1>7 DEF Detach
<1>8. ASSUME NEW s \in Services, Delta(s) \/ Enable(s) \/ Disable(s)
      PROVE  outstanding' \in BOOLEAN
  BY <1>8 DEF Delta, NoDelta, DeltaUnentitled, DeltaDefault, Rewrite, RewriteFails,
       Settled, DeltaFails, Enable, Disable
<1>9. CASE UNCHANGED vars
  BY <1>9 DEF vars
<1>10. QED
  BY <1>1, <1>2, <1>3, <1>4, <1>5, <1>6, <1>7, <1>8, <1>9 DEF Next

(* What every step of the loop does, and what it does to the service.      *)
LEMMA DeltaTypes ==
  ASSUME TypeOK, LoopInv, NEW s \in Services, Delta(s)
  PROVE  TypeOK' /\ LoopInv'
<1>. USE DEF Untouched
<1>1. Each(s) /\ Continue /\ UNCHANGED <<series, contract, outstanding, updates>>
  BY DEF Delta, NoDelta, DeltaUnentitled, DeltaDefault, Rewrite, RewriteFails,
       Settled, DeltaFails
<1>2. /\ op \in {"attach", "refresh", "upgrade"} /\ op' = op
      /\ past' = past /\ new' = new /\ read' = read
      /\ next' \in 1..Len(Names)+1
  BY <1>1, LoopStep
<1>3. LoopInv'
  BY <1>1, <1>2 DEF LoopInv, Idle
<1>4. /\ applied' \in [Services -> Repos \union {Absent}]
      /\ file' \in Seq(Lines) /\ on' \subseteq Services
      /\ lapses' \in [Services -> Lapses]
  <2>1. CASE UNCHANGED <<applied, file>> /\ on' \in {on, on \union {s}, on \ {s}}
             /\ \E kind \in Lapses, cond \in BOOLEAN : Lapse(s, kind, cond)
    BY <2>1, Lapsing DEF TypeOK
  <2>2. \A u : Current(s) # Absent /\ u = Current(s).url => u \in Urls(s)
    BY CurrentView, ViewTypes
  <2>3. CASE NoDelta(s)
    BY <2>1, <2>3 DEF NoDelta, Lapses
  <2>4. CASE DeltaUnentitled(s)
    <3>1. CASE DeltaStatus(s) /\ Active(s)
      <4>1. Unconfigure(s) /\ lapses' = lapses /\ on' = on /\ Current(s) # Absent
        BY <2>4, <3>1 DEF DeltaUnentitled, Active
      <4>2. file' \in Seq(Lines)
        BY <2>2, <4>1, Removing DEF Unconfigure, TypeOK
      <4>3. applied' \in [Services -> Repos \union {Absent}]
        BY <4>1 DEF Unconfigure, TypeOK
      <4>4. QED
        BY <4>1, <4>2, <4>3 DEF TypeOK
    <3>2. CASE ~(DeltaStatus(s) /\ Active(s))
      BY <2>1, <2>4, <3>2 DEF DeltaUnentitled, Lapses, Configured
    <3>3. QED
      BY <3>1, <3>2
  <2>5. CASE DeltaDefault(s)
    <3>1. CASE op \in {"attach", "upgrade"}
      <4>1. Current(s) # Absent /\ Configure(s, file) /\ on' = on \union {s}
        BY <2>5, <3>1 DEF DeltaDefault, CanEnable
      <4>2. file \in Seq(Lines) /\ on \subseteq Services
        BY DEF TypeOK
      <4>3. QED
        BY <4>1, <4>2, Configuring
    <3>2. CASE ~(op \in {"attach", "upgrade"})
      BY <2>1, <2>5, <3>2 DEF DeltaDefault, Lapses, Configured
    <3>3. QED
      BY <3>1, <3>2
  <2>6. CASE Rewrite(s)
    <3>1. Current(s) # Absent /\ Configure(s, Cleared(s)) /\ on' = on
      BY <2>6 DEF Rewrite
    <3>2. Cleared(s) \in Seq(Lines)
      BY <3>1, Clearing
    <3>3. QED
      BY <3>1, <3>2, Configuring DEF TypeOK
  <2>7. CASE RewriteFails(s)
    <3>1. file' \in Seq(Lines)
      BY <2>7, Clearing DEF RewriteFails
    <3>2. applied' \in [Services -> Repos \union {Absent}] /\ on' \subseteq Services
      BY <2>7 DEF RewriteFails, TypeOK
    <3>3. lapses' \in [Services -> Lapses]
      <4>. DEFINE cond == \E i \in DOMAIN file' : file'[i].repo = applied[s]
      <4>1. Lapse(s, "source", cond) /\ cond \in BOOLEAN /\ "source" \in Lapses
        BY <2>7 DEF RewriteFails, Lapses
      <4>. HIDE DEF cond
      <4>2. QED
        BY <4>1, Lapsing
    <3>4. QED
      BY <3>1, <3>2, <3>3
  <2>8. CASE Settled(s)
    BY <2>1, <2>8 DEF Settled, Lapses, Configured
  <2>9. CASE DeltaFails(s)
    BY <2>1, <2>9 DEF DeltaFails, Lapses, Configured
  <2>10. QED
    BY <2>3, <2>4, <2>5, <2>6, <2>7, <2>8, <2>9 DEF Delta
<1>5. QED
  BY <1>1, <1>2, <1>3, <1>4 DEF TypeOK

(* Types, and what the loop compares, hold of the first state ...          *)
LEMMA InitTypes ==
  ASSUME Init
  PROVE  TypeOK /\ LoopInv
<1>1. /\ applied \in [Services -> Repos \union {Absent}] /\ file \in Seq(Lines)
      /\ lapses \in [Services -> Lapses] /\ contract = Nothing
  BY DEF Init, Nothing, Lapses
<1>2. outstanding \in BOOLEAN
  BY DEF Init
<1>3. series \in Series /\ read \subseteq Contracts /\ on \subseteq Services
  BY DEF Init, Series
<1>4. updates \in 0..MaxUpdates /\ next \in 1..Len(Names)+1
  BY NamePlaces, DeltasAssumption DEF Init
<1>5. op = "none" /\ next = 1
  BY DEF Init
<1>6. TypeOK
  BY <1>1, <1>2, <1>3, <1>4, <1>5 DEF TypeOK
<1>7. \A s \in Services : past[s] \in Views(s) /\ new[s] \in Views(s)
  BY DEF Init, Nothing, Views
<1>8. ~outstanding /\ read = {}
  BY DEF Init
<1>9. QED
  BY <1>5, <1>6, <1>7, <1>8 DEF LoopInv

(* ... and of every step.                                                  *)
LEMMA StepTypes ==
  ASSUME TypeOK, LoopInv, [Next]_vars
  PROVE  TypeOK' /\ LoopInv'
<1>. USE DEF data, loop, history
<1>1. CASE UpdateContract
  <2>1. contract' \in Contracts /\ contract \in Contracts \union {Nothing}
    BY <1>1 DEF UpdateContract, TypeOK
  <2>2. /\ op' \in {"attach", "refresh"} /\ next' = 1
        /\ past' = Entitlements(contract, series) /\ new' = Entitlements(contract', series)
        /\ UNCHANGED <<series, applied, file, read, outstanding, lapses>>
    BY <1>1 DEF UpdateContract, Start
  <2>3. \A s \in Services : past'[s] \in Views(s) /\ new'[s] \in Views(s)
    <3>1. series \in Series
      BY DEF TypeOK
    <3>2. \A s \in Services : Entitlements(contract, series)[s] \in Views(s)
      BY <2>1, <3>1, ContractViews
    <3>3. contract' \in Contracts \union {Nothing}
      BY <2>1
    <3>4. \A s \in Services : Entitlements(contract', series)[s] \in Views(s)
      BY <3>1, <3>3, ContractViews
    <3>5. QED
      BY <2>2, <3>2, <3>4
  <2>4. next' \in 1..Len(Names)+1
    BY <2>2, NamePlaces
  <2>5. on' \subseteq Services
    BY <1>1 DEF UpdateContract, TypeOK
  <2>6. updates' \in 0..MaxUpdates
    BY <1>1, DeltasAssumption DEF UpdateContract, TypeOK
  <2>7. TypeOK'
    BY <2>1, <2>2, <2>4, <2>5, <2>6 DEF TypeOK
  <2>8. QED
    BY <2>2, <2>3, <2>7 DEF LoopInv, Idle
<1>2. CASE ReleaseUpgrade
  <2>1. outstanding' \in BOOLEAN
    BY <1>2, StepFlags
  <2>2. /\ op' = "none" /\ op = "none" /\ series' = 2
        /\ UNCHANGED <<contract, applied, file, next, past, new, read, on, updates, lapses>>
    BY <1>2 DEF ReleaseUpgrade, Idle
  <2>3. QED
    BY <2>1, <2>2 DEF TypeOK, LoopInv, Idle, Series
<1>3. CASE ReadContracts
  <2>1. contract \in Contracts /\ outstanding /\ op = "none"
    BY <1>3 DEF ReadContracts, TypeOK, Idle
  <2>2. QED
    BY <1>3, <2>1, StepFlags DEF ReadContracts, TypeOK, LoopInv, Idle
<1>4. CASE ProcessRead
  <2>1. PICK c \in Contracts :
          past' = Entitlements(c, 1) /\ new' = Entitlements(c, 2)
    BY <1>4 DEF ProcessRead, Start, TypeOK
  <2>2. op' = "upgrade" /\ next' = 1 /\ series = 2 /\ read' = {}
    BY <1>4 DEF ProcessRead, Start, LoopInv
  <2>3. UNCHANGED <<series, contract, applied, file, on, outstanding, updates, lapses>>
    BY <1>4 DEF ProcessRead
  <2>4. \A s \in Services : past'[s] \in Views(s) /\ new'[s] \in Views(s)
    BY <2>1, ContractViews DEF Series
  <2>5. next' \in 1..Len(Names)+1
    BY <2>2, NamePlaces
  <2>6. TypeOK'
    BY <2>2, <2>3, <2>5 DEF TypeOK
  <2>7. QED
    BY <2>1, <2>2, <2>3, <2>4, <2>6 DEF LoopInv, Idle
<1>5. CASE Finish \/ Crash
  <2>1. /\ op' = "none" /\ next' = 1 /\ past' = Nothing /\ new' = Nothing
        /\ outstanding' => outstanding
        /\ UNCHANGED <<series, contract, applied, file, read, on, updates>>
    BY <1>5 DEF Finish, Crash, Return
  <2>2. lapses' \in [Services -> Lapses]
    BY <1>5 DEF Finish, Crash, TypeOK, Lapses
  <2>3. \A s \in Services : past'[s] \in Views(s) /\ new'[s] \in Views(s)
    BY <2>1 DEF Nothing, Views
  <2>4. next' \in 1..Len(Names)+1
    BY <2>1, NamePlaces
  <2>5. TypeOK'
    BY <1>5, <2>1, <2>2, <2>4, StepFlags DEF TypeOK, Next
  <2>6. QED
    BY <2>1, <2>3, <2>5 DEF LoopInv, Idle
<1>6. CASE Detach
  <2>1. /\ op = "none" /\ contract' = Nothing /\ on' = {} /\ ~outstanding'
        /\ UNCHANGED <<series, op, next, past, new, read, updates>>
    BY <1>6 DEF Detach, Idle
  <2>2. file' \in Seq(Lines)
    BY <1>6, WithoutLines DEF Detach, TypeOK
  <2>3. /\ applied' \in [Services -> Repos \union {Absent}]
        /\ lapses' \in [Services -> Lapses]
    BY <1>6 DEF Detach, TypeOK, Lapses
  <2>4. QED
    BY <1>6, <2>1, <2>2, <2>3, StepFlags DEF TypeOK, LoopInv, Idle, Next
<1>7. ASSUME NEW s \in Services, Enable(s)
      PROVE  TypeOK' /\ LoopInv'
  <2>1. /\ Current(s) # Absent /\ Configure(s, file) /\ on' = on \union {s}
        /\ UNCHANGED <<series, contract, op, next, past, new, read, outstanding, updates>>
    BY <1>7 DEF Enable, CanEnable
  <2>2. /\ file' \in Seq(Lines) /\ applied' \in [Services -> Repos \union {Absent}]
        /\ lapses' \in [Services -> Lapses]
    BY <2>1, Configuring DEF TypeOK
  <2>3. QED
    BY <2>1, <2>2 DEF TypeOK, LoopInv, Idle
<1>8. ASSUME NEW s \in Services, Disable(s)
      PROVE  TypeOK' /\ LoopInv'
  <2>1. /\ Current(s) # Absent /\ Unconfigure(s) /\ on' = on \ {s}
        /\ UNCHANGED <<series, contract, op, next, past, new, read, outstanding, updates,
                       lapses>>
    BY <1>8 DEF Disable, Active
  <2>2. Current(s).url \in Urls(s)
    BY <2>1, CurrentView, ViewTypes
  <2>3. file' \in Seq(Lines)
    BY <2>1, <2>2, Removing DEF Unconfigure, TypeOK
  <2>4. applied' \in [Services -> Repos \union {Absent}]
    BY <2>1 DEF Unconfigure, TypeOK
  <2>5. QED
    BY <2>1, <2>3, <2>4 DEF TypeOK, LoopInv, Idle
<1>9. CASE UNCHANGED vars
  BY <1>9 DEF vars, TypeOK, LoopInv, Idle
<1>10. QED
  BY <1>1, <1>2, <1>3, <1>4, <1>5, <1>6, <1>7, <1>8, <1>9, DeltaTypes DEF Next

-----------------------------------------------------------------------------
(* Services keep step *)

(* A service a step does not concern keeps step.                           *)
LEMMA OtherKeeps ==
  ASSUME NEW t \in Services, Keeping(t),
         applied'[t] = applied[t], t \in on' <=> t \in on,
         lapses[t] = "source" => lapses'[t] = "source",
         Waits(t)' <=> Waits(t),
         UNCHANGED <<series, contract, op, past, new, read, outstanding>>
  PROVE  Keeping(t)'
BY DEF Keeping, At, Configured, Current

(* During attach and refresh the loop's new entitlements are the           *)
(* contract's.                                                             *)
LEMMA NewIsCurrent ==
  ASSUME LoopInv, op \in {"attach", "refresh"}, NEW s \in Services
  PROVE  new[s] = Current(s)
BY DEF LoopInv, Current, Entitlements

(* Two releases see one contract, and with it one entitlement.             *)
LEMMA UpgradeCovers ==
  ASSUME LoopInv, op = "upgrade", NEW s \in Services
  PROVE  ~Unentitled(s)
<1>1. PICK c \in Contracts : past = Entitlements(c, 1) /\ new = Entitlements(c, 2)
  BY DEF LoopInv
<1>2. past[s] = SeriesView(c[s], 1) /\ new[s] = SeriesView(c[s], 2)
  BY <1>1 DEF Entitlements
<1>3. past[s] # Absent => past[s].entitled = new[s].entitled
  BY <1>2 DEF SeriesView
<1>4. QED
  BY <1>3 DEF Unentitled, Deltas, DictDeltas

(* What the keys that did not change say.                                  *)
LEMMA DeltaKeys ==
  ASSUME NEW s \in Services, new[s] # Absent
  PROVE  /\ past[s] = Absent => Deltas(s) = {"entitled", "url", "token"}
         /\ past[s] # Absent =>
              /\ "entitled" \notin Deltas(s) => past[s].entitled = new[s].entitled
              /\ "url" \notin Deltas(s) => past[s].url = new[s].url
              /\ "token" \notin Deltas(s) => past[s].token = new[s].token
BY DEF Deltas, DictDeltas

(* A service the loop has come to and left as it was has kept step when it *)
(* is still covered and the url has not changed, or is the source's.       *)
LEMMA LeftAlone ==
  ASSUME TypeOK, LoopInv, NEW s \in Services, Keeping(s), Each(s), Continue, Untouched,
         applied' = applied, lapses[s] = "source" => lapses'[s] = "source",
         lapses'[s] # "source" /\ Configured(s) =>
           /\ new[s] # Absent
           /\ past[s] # Absent => new[s].entitled \/ new[s].entitled = past[s].entitled
           /\ \/ applied[s] \in {Current(s).url, new[s].url}
              \/ op # "upgrade" /\ new[s].url = past[s].url
  PROVE  Keeping(s)'
<1>1. SUFFICES ASSUME lapses'[s] # "source"
               PROVE  /\ Configured(s)' => At(s, Current(s))'
                      /\ s \in on' <=> Configured(s)'
  BY LoopStep DEF Keeping
<1>2. /\ op \in {"attach", "refresh", "upgrade"} /\ op' = op /\ Waits(s) /\ ~Waits(s)'
      /\ UNCHANGED <<series, contract, past, new, read, on, outstanding>>
  BY LoopStep DEF Untouched
<1>3. CASE op = "upgrade"
  BY <1>1, <1>2, <1>3 DEF Keeping, At, Configured, Current
<1>4. CASE op # "upgrade"
  <2>1. new[s] = Current(s)
    BY <1>2, <1>4, NewIsCurrent
  <2>2. /\ Configured(s) => At(s, past[s])
        /\ s \in on <=> Configured(s) /\ new[s] # Absent /\ new[s].entitled
    BY <1>1, <1>2, <1>4 DEF Keeping
  <2>3. CASE ~Configured(s)
    BY <1>2, <2>2, <2>3 DEF Configured
  <2>4. CASE Configured(s)
    <3>1. new[s] # Absent /\ (new[s].entitled \/ new[s].entitled = past[s].entitled)
      BY <1>1, <2>2, <2>4 DEF At
    <3>2. past[s] # Absent /\ past[s].entitled
      BY <2>2, <2>4 DEF At
    <3>3. new[s].entitled
      BY <3>1, <3>2
    <3>4. At(s, Current(s))'
      BY <1>1, <1>2, <1>4, <2>1, <2>2, <2>4, <3>1, <3>3 DEF At, Current
    <3>5. QED
      BY <1>2, <2>2, <2>4, <3>1, <3>3, <3>4 DEF Configured
  <2>5. QED
    BY <2>3, <2>4
<1>5. QED
  BY <1>3, <1>4

(* A service of which nothing is configured has kept step when it is off.  *)
LEMMA LeftOff ==
  ASSUME NEW s \in Services, ~Waits(s)', applied'[s] = Absent, s \notin on'
  PROVE  Keeping(s)'
BY DEF Keeping, Configured

(* A service set up with the contract's url has kept step when it is       *)
(* covered and on.                                                         *)
LEMMA SetUp ==
  ASSUME TypeOK, NEW s \in Services, ~Waits(s)', UNCHANGED <<series, contract>>,
         Current(s) # Absent, applied'[s] = Current(s).url,
         lapses'[s] # "source" => Current(s).entitled /\ s \in on'
  PROVE  Keeping(s)'
<1>1. Current(s)' = Current(s)
  BY DEF Current
<1>2. Current(s).url # Absent
  BY CurrentView, ViewTypes
<1>3. QED
  BY <1>1, <1>2 DEF Keeping, At, Configured

(* Each step of the loop leaves its service in step, or says why not.      *)
LEMMA DeltaKeeps ==
  ASSUME TypeOK, LoopInv, NEW s \in Services, Keeping(s), Delta(s)
  PROVE  Keeping(s)'
<1>1. Each(s) /\ Continue /\ UNCHANGED <<series, contract, outstanding, updates>>
  BY DEF Delta, NoDelta, DeltaUnentitled, DeltaDefault, Rewrite, RewriteFails,
       Settled, DeltaFails, Untouched
<1>2. /\ op \in {"attach", "refresh", "upgrade"} /\ op' = op /\ Waits(s) /\ ~Waits(s)'
      /\ past' = past /\ new' = new
  BY <1>1, LoopStep
<1>3. \A kind \in Lapses, cond \in BOOLEAN : Lapse(s, kind, cond) =>
        /\ cond => lapses'[s] \in {kind, "source"}
        /\ lapses[s] = "source" => lapses'[s] = "source"
  BY Lapsing
<1>4. ASSUME Untouched, applied' = applied, Lapse(s, "source", Configured(s))
      PROVE  Keeping(s)'
  <2>1. /\ Configured(s) => lapses'[s] = "source"
        /\ lapses[s] = "source" => lapses'[s] = "source"
    BY <1>3, <1>4 DEF Lapses, Configured
  <2>2. QED
    BY <1>1, <1>4, <2>1, LeftAlone
<1>5. ASSUME lapses[s] # "source", Configured(s), ~Unentitled(s), new[s] # Absent
      PROVE  s \in on /\ Current(s).entitled
  <2>1. CASE op = "upgrade"
    BY <1>5, <2>1 DEF Keeping, At
  <2>2. CASE op # "upgrade"
    <3>1. At(s, past[s]) /\ (s \in on <=> new[s].entitled) /\ new[s] = Current(s)
      BY <1>2, <1>5, <2>2, NewIsCurrent DEF Keeping
    <3>2. new[s].entitled
      BY <1>5, <3>1, DeltaKeys DEF At, Unentitled
    <3>3. QED
      BY <2>2, <3>1, <3>2
  <2>3. QED
    BY <2>1, <2>2
<1>6. CASE NoDelta(s)
  <2>1. /\ Deltas(s) = {} /\ applied' = applied /\ Untouched
        /\ Lapse(s, "source", Configured(s) /\ (new[s] = Absent \/ Missed(s)))
    BY <1>6 DEF NoDelta
  <2>2. /\ Configured(s) /\ (new[s] = Absent \/ Missed(s)) => lapses'[s] = "source"
        /\ lapses[s] = "source" => lapses'[s] = "source"
    BY <1>3, <2>1 DEF Lapses, Configured, Missed
  <2>3. lapses'[s] # "source" /\ Configured(s) =>
          /\ new[s] # Absent /\ past[s] # Absent
          /\ new[s].entitled = past[s].entitled /\ new[s].url = past[s].url
          /\ op = "upgrade" => applied[s] = new[s].url
    BY <2>1, <2>2, DeltaKeys DEF Missed
  <2>4. QED
    BY <1>1, <2>1, <2>2, <2>3, LeftAlone
<1>7. CASE DeltaUnentitled(s)
  <2>1. CASE DeltaStatus(s) /\ Active(s)
    <3>1. /\ applied' = [applied EXCEPT ![s] = Absent] /\ lapses' = lapses /\ on' = on
          /\ Unentitled(s)
      BY <1>7, <2>1 DEF DeltaUnentitled, Unconfigure, Untouched
    <3>2. applied'[s] = Absent
      BY <3>1 DEF TypeOK
    <3>3. CASE lapses[s] = "source"
      BY <3>1, <3>3 DEF Keeping
    <3>4. CASE lapses[s] # "source"
      <4>1. op # "upgrade"
        BY <3>1, UpgradeCovers
      <4>2. s \notin on
        BY <1>2, <3>1, <3>4, <4>1 DEF Keeping, Unentitled
      <4>3. QED
        BY <1>2, <3>1, <3>2, <4>2, LeftOff
    <3>5. QED
      BY <3>3, <3>4
  <2>2. CASE ~(DeltaStatus(s) /\ Active(s))
    BY <1>4, <1>7, <2>2 DEF DeltaUnentitled
  <2>3. QED
    BY <2>1, <2>2
<1>8. CASE DeltaDefault(s)
  <2>1. CASE op \in {"attach", "upgrade"}
    <3>1. /\ Current(s) # Absent /\ Current(s).entitled
          /\ Configure(s, file) /\ on' = on \union {s} /\ file \in Seq(Lines)
      BY <1>8, <2>1 DEF DeltaDefault, CanEnable, TypeOK
    <3>2. applied' = [applied EXCEPT ![s] = Current(s).url]
      BY <3>1, Configuring
    <3>3. applied'[s] = Current(s).url
      BY <3>2 DEF TypeOK
    <3>4. QED
      BY <1>1, <1>2, <3>1, <3>3, SetUp
  <2>2. CASE ~(op \in {"attach", "upgrade"})
    BY <1>1, <1>4, <1>8, <2>2 DEF DeltaDefault, Untouched
  <2>3. QED
    BY <2>1, <2>2
<1>9. CASE Rewrite(s)
  <2>1. /\ ~Unentitled(s) /\ Rewrites(s) /\ Current(s) # Absent
        /\ Configure(s, Cleared(s)) /\ on' = on
    BY <1>9 DEF Rewrite, Untouched
  <2>2. Cleared(s) \in Seq(Lines)
    BY <2>1, Clearing
  <2>3. /\ applied' = [applied EXCEPT ![s] = Current(s).url]
        /\ lapses[s] = "source" => lapses'[s] = "source"
    BY <2>1, <2>2, Configuring
  <2>4. applied'[s] = Current(s).url
    BY <2>3 DEF TypeOK
  <2>5. Configured(s) /\ new[s] # Absent
    BY <2>1 DEF Rewrites, DeltaStatus, Deltas
  <2>6. lapses'[s] # "source" => s \in on /\ Current(s).entitled
    BY <1>5, <2>1, <2>3, <2>5
  <2>7. QED
    BY <1>1, <1>2, <2>1, <2>4, <2>6, SetUp
<1>10. CASE RewriteFails(s)
  <2>1. applied'[s] = Absent /\ s \notin on'
    BY <1>10 DEF RewriteFails, TypeOK
  <2>2. QED
    BY <1>2, <2>1, LeftOff
<1>11. CASE Settled(s)
  <2>1. /\ Deltas(s) # {} /\ ~Unentitled(s) /\ applied' = applied /\ Untouched
    BY <1>11 DEF Settled
  <2>. DEFINE lost == ~DeltaStatus(s) \/ ("url" \in Deltas(s) /\ new[s].url # applied[s])
  <2>2. /\ lost => Lapse(s, "source", Configured(s))
        /\ ~lost => Lapse(s, "token", Configured(s) /\ "token" \in Deltas(s))
    BY <1>11 DEF Settled
  <2>3. /\ lost /\ Configured(s) => lapses'[s] = "source"
        /\ lapses[s] = "source" => lapses'[s] = "source"
    <3>. HIDE DEF lost
    <3>1. QED
      BY <1>3, <2>2 DEF Lapses, Configured
  <2>4. new[s] # Absent
    BY <2>1 DEF Deltas
  <2>5. past[s] # Absent => new[s].entitled \/ new[s].entitled = past[s].entitled
    BY <2>1, <2>4, DeltaKeys DEF Unentitled
  <2>6. lapses'[s] # "source" /\ Configured(s) => applied[s] \in {Current(s).url, new[s].url}
    BY <2>3 DEF DeltaStatus, Active
  <2>. HIDE DEF lost
  <2>7. QED
    BY <1>1, <2>1, <2>3, <2>4, <2>5, <2>6, LeftAlone
<1>12. CASE DeltaFails(s)
  BY <1>4, <1>12 DEF DeltaFails
<1>13. QED
  BY <1>6, <1>7, <1>8, <1>9, <1>10, <1>11, <1>12 DEF Delta

(* A step of the loop leaves the other services' sources as they are.      *)
LEMMA DeltaOthers ==
  ASSUME TypeOK, LoopInv, NEW s \in Services, Delta(s), NEW t \in Services \ {s}
  PROVE  /\ applied'[t] = applied[t] /\ (t \in on' <=> t \in on)
         /\ lapses[t] = "source" => lapses'[t] = "source"
<1>1. /\ applied' = applied \/ \E u : applied' = [applied EXCEPT ![s] = u]
      /\ on' \in {on, on \union {s}, on \ {s}}
  BY DEF Delta, NoDelta, DeltaUnentitled, DeltaDefault, Rewrite, RewriteFails,
       Settled, DeltaFails, Untouched, Configure, Unconfigure
<1>2. applied'[t] = applied[t] /\ (t \in on' <=> t \in on)
  BY <1>1 DEF TypeOK
<1>3. ASSUME \E kind, cond : Lapse(s, kind, cond)
      PROVE  lapses[t] = "source" => lapses'[t] = "source"
  BY <1>3 DEF TypeOK, Lapse
<1>4. ASSUME \E lines : Configure(s, lines)
      PROVE  lapses[t] = "source" => lapses'[t] = "source"
  BY <1>4 DEF Configure
<1>5. \/ lapses' = lapses
      \/ \E kind, cond : Lapse(s, kind, cond)
      \/ \E lines : Configure(s, lines)
  BY DEF Delta, NoDelta, DeltaUnentitled, DeltaDefault, Rewrite, RewriteFails,
       Settled, DeltaFails
<1>6. QED
  BY <1>2, <1>3, <1>4, <1>5

(* Every step leaves every service in step.                                *)
LEMMA StepKeeps ==
  ASSUME TypeOK, LoopInv, StepInv, [Next]_vars
  PROVE  StepInv'
<1>. SUFFICES ASSUME NEW t \in Services
              PROVE  Keeping(t)'
  BY DEF StepInv
<1>. Keeping(t)
  BY DEF StepInv
<1>1. CASE UpdateContract
  <2>1. /\ op = "none" /\ op' \in {"attach", "refresh"} /\ next' = 1
        /\ past' = Entitlements(contract, series) /\ new' = Entitlements(contract', series)
        /\ on' = {s \in on : contract'[s] # Absent /\ contract'[s].entitled}
        /\ UNCHANGED <<series, applied, read, outstanding, lapses>>
    BY <1>1 DEF UpdateContract, Start, Idle
  <2>2. /\ contract' \in Contracts \union {Nothing} /\ series \in Series
    BY <1>1 DEF UpdateContract, TypeOK
  <2>3. ~Waits(t) /\ Waits(t)'
    BY <2>1, LoopStarts DEF Idle
  <2>4. past'[t] = Current(t)
    BY <2>1 DEF Entitlements, Current
  <2>5. /\ new'[t] # Absent <=> contract'[t] # Absent
        /\ contract'[t] # Absent => new'[t].entitled = contract'[t].entitled
    BY <2>1, <2>2, ContractViews
  <2>6. lapses[t] # "source" =>
          /\ Configured(t) => At(t, Current(t))
          /\ t \in on <=> Configured(t)
    BY <2>3 DEF Keeping
  <2>7. lapses'[t] # "source" /\ Configured(t)' => At(t, past[t])'
    BY <2>1, <2>4, <2>6 DEF At, Configured
  <2>8. lapses'[t] # "source" =>
          (t \in on' <=> Configured(t)' /\ new'[t] # Absent /\ new'[t].entitled)
    BY <2>1, <2>5, <2>6 DEF Configured
  <2>9. QED
    BY <2>1, <2>3, <2>7, <2>8 DEF Keeping
<1>2. CASE ReleaseUpgrade
  <2>1. /\ op = "none" /\ op' = "none" /\ series = 1 /\ series' = 2
        /\ outstanding' = (contract # Nothing)
        /\ UNCHANGED <<contract, applied, past, new, read, on, lapses>>
    BY <1>2 DEF ReleaseUpgrade, Idle, loop
  <2>2. ~Waits(t) /\ ~Waits(t)' /\ read = {} /\ ~outstanding
    BY <2>1, LoopStarts DEF Idle, LoopInv
  <2>3. SUFFICES ASSUME lapses[t] # "source", Configured(t)
                 PROVE  At(t, Current(t))'
    BY <2>1, <2>2 DEF Keeping, Configured
  <2>4. Current(t) # Absent /\ Current(t).entitled
    BY <2>2, <2>3 DEF Keeping, At
  <2>5. contract[t] # Absent /\ contract # Nothing
    BY <2>4, ContractViews DEF TypeOK, Current, Nothing
  <2>6. Current(t)' # Absent /\ Current(t)'.entitled
    <3>1. contract \in Contracts \union {Nothing} /\ 2 \in Series /\ series \in Series
      BY DEF TypeOK, Series
    <3>2. Current(t)' = SeriesView(contract[t], 2)
      BY <2>1 DEF Current
    <3>3. /\ SeriesView(contract[t], 2) # Absent
          /\ SeriesView(contract[t], 2).entitled = contract[t].entitled
      BY <2>5, <3>1, ContractViews
    <3>4. Current(t).entitled = contract[t].entitled
      BY <2>5, <3>1, ContractViews DEF Current
    <3>5. QED
      BY <2>4, <3>2, <3>3, <3>4
  <2>7. QED
    BY <2>1, <2>2, <2>5, <2>6 DEF At
<1>3. CASE ReadContracts
  <2>1. /\ op = "none" /\ read = {} /\ read' = {contract} /\ outstanding
        /\ UNCHANGED <<series, contract, applied, op, next, past, new, on, outstanding, lapses>>
    BY <1>3 DEF ReadContracts, Idle, data, loop, history
  <2>2. ~Waits(t) /\ ~Waits(t)' /\ series = 2
    BY <2>1, LoopStarts DEF Idle, LoopInv
  <2>3. SUFFICES ASSUME lapses[t] # "source", Configured(t)
                 PROVE  At(t, Current(t))'
    BY <2>1, <2>2 DEF Keeping, Configured
  <2>4. Current(t) # Absent /\ Current(t).entitled
    BY <2>2, <2>3 DEF Keeping, At
  <2>5. contract[t] # Absent /\ Current(t).url = contract[t].url[2]
    <3>1. contract \in Contracts \union {Nothing} /\ series \in Series
      BY DEF TypeOK
    <3>2. contract[t] # Absent
      BY <2>4, <3>1, ContractViews DEF Current
    <3>3. SeriesView(contract[t], series).url = contract[t].url[series]
      BY <3>1, <3>2, ContractViews
    <3>4. QED
      BY <2>2, <3>2, <3>3 DEF Current
  <2>6. QED
    BY <2>1, <2>4, <2>5 DEF At, Current
<1>4. CASE ProcessRead
  <2>1. PICK c \in read : Start("upgrade", Entitlements(c, 1), Entitlements(c, 2))
    BY <1>4 DEF ProcessRead
  <2>2. /\ op = "none" /\ op' = "upgrade" /\ next' = 1
        /\ new' = Entitlements(c, 2)
        /\ UNCHANGED <<series, contract, applied, on, outstanding, lapses>>
    BY <1>4, <2>1 DEF ProcessRead, Start, Idle, data, history
  <2>3. ~Waits(t) /\ Waits(t)'
    BY <2>2, LoopStarts DEF Idle
  <2>4. SUFFICES ASSUME lapses[t] # "source", Configured(t)
                 PROVE  At(t, Current(t))'
    BY <2>2, <2>3 DEF Keeping, Configured
  <2>5. At(t, Current(t))
    BY <2>3, <2>4 DEF Keeping
  <2>6. c[t] # Absent => new'[t] # Absent /\ new'[t].url = c[t].url[2]
    <3>1. c \in Contracts \union {Nothing} /\ 2 \in Series
      BY DEF TypeOK, Series
    <3>2. QED
      BY <2>2, <3>1, ContractViews
  <2>7. QED
    BY <2>2, <2>3, <2>5, <2>6 DEF At, Current
<1>5. CASE Finish
  <2>1. /\ op # "none" /\ op' = "none" /\ next > Len(Names)
        /\ outstanding' = (outstanding /\ op # "upgrade")
        /\ UNCHANGED <<series, contract, applied, read, on, lapses>>
    BY <1>5 DEF Finish, Return, Idle, data
  <2>2. ~Waits(t) /\ ~Waits(t)'
    <3>1. next..Len(Names) = {}
      BY <2>1, NamePlaces DEF TypeOK
    <3>2. QED
      BY <2>1, <3>1, LoopStarts DEF Waits
  <2>3. QED
    BY <2>1, <2>2 DEF Keeping, At, Configured, Current
<1>6. CASE Crash
  <2>1. /\ op # "none" /\ op' = "none"
        /\ outstanding' = (outstanding /\ op # "upgrade")
        /\ UNCHANGED <<series, contract, applied, read, on>>
        /\ lapses' = [s \in Services |->
             IF /\ Configured(s) /\ (past[s] # new[s] \/ Missed(s))
                /\ \E i \in next..Len(Names) : Names[i] = s
             THEN "source" ELSE lapses[s]]
    BY <1>6 DEF Crash, Return, Idle, data
  <2>2. ~Waits(t)'
    BY <2>1, LoopStarts
  <2>3. SUFFICES ASSUME lapses'[t] # "source"
                 PROVE  /\ Configured(t)' => At(t, Current(t))'
                        /\ t \in on' <=> Configured(t)'
    BY <2>2 DEF Keeping
  <2>4. /\ lapses[t] # "source"
        /\ Waits(t) /\ Configured(t) => past[t] = new[t] /\ ~Missed(t)
    BY <2>1, <2>3 DEF Waits
  <2>5. CASE Waits(t) /\ op # "upgrade"
    <3>1. new[t] = Current(t)
      BY <2>1, <2>5, NewIsCurrent DEF TypeOK
    <3>2. QED
      BY <2>1, <2>4, <2>5, <3>1 DEF Keeping, At, Configured, Current
  <2>6. CASE ~(Waits(t) /\ op # "upgrade")
    BY <2>1, <2>4, <2>6 DEF Keeping, At, Configured, Current, Missed
  <2>7. QED
    BY <2>5, <2>6
<1>7. CASE Detach
  <2>1. /\ op = "none" /\ op' = "none" /\ on' = {}
        /\ lapses' = [s \in Services |-> IF applied'[s] = Absent THEN lapses[s]
                                         ELSE "source"]
    BY <1>7 DEF Detach, Idle, loop
  <2>2. ~Waits(t)'
    BY <2>1, LoopStarts
  <2>3. CASE applied'[t] = Absent
    BY <2>1, <2>2, <2>3, LeftOff
  <2>4. CASE applied'[t] # Absent
    BY <2>1, <2>4 DEF Keeping
  <2>5. QED
    BY <2>3, <2>4
<1>8. ASSUME NEW s \in Services, Delta(s)
      PROVE  Keeping(t)'
  <2>1. CASE t = s
    BY <1>8, <2>1, DeltaKeeps
  <2>2. CASE t # s
    <3>1. Each(s) /\ Continue /\ UNCHANGED <<series, contract, outstanding>>
      BY <1>8 DEF Delta, NoDelta, DeltaUnentitled, DeltaDefault, Rewrite, RewriteFails,
           Settled, DeltaFails, Untouched
    <3>2. Waits(t)' <=> Waits(t)
      BY <2>2, <3>1, LoopStep
    <3>3. applied'[t] = applied[t] /\ (t \in on' <=> t \in on)
          /\ (lapses[t] = "source" => lapses'[t] = "source")
      BY <1>8, <2>2, DeltaOthers
    <3>4. UNCHANGED <<op, past, new, read>>
      BY <3>1 DEF Continue
    <3>5. QED
      BY <3>1, <3>2, <3>3, <3>4, OtherKeeps
  <2>3. QED
    BY <2>1, <2>2
<1>9. ASSUME NEW s \in Services, Enable(s)
      PROVE  Keeping(t)'
  <2>1. /\ Current(s) # Absent /\ Current(s).entitled /\ Configure(s, file)
        /\ on' = on \union {s} /\ op = "none" /\ op' = "none" /\ file \in Seq(Lines)
        /\ UNCHANGED <<series, contract, op, next, past, new, read, outstanding>>
    BY <1>9 DEF Enable, CanEnable, Idle, TypeOK, loop
  <2>2. /\ applied' = [applied EXCEPT ![s] = Current(s).url]
        /\ lapses[t] = "source" => lapses'[t] = "source"
    BY <2>1, Configuring
  <2>3. ~Waits(t) /\ ~Waits(t)'
    BY <2>1, LoopStarts DEF Idle
  <2>4. CASE t = s
    <3>1. applied'[s] = Current(s).url
      BY <2>2 DEF TypeOK
    <3>2. QED
      BY <2>1, <2>3, <2>4, <3>1, SetUp
  <2>5. CASE t # s
    <3>1. applied'[t] = applied[t] /\ (t \in on' <=> t \in on)
      BY <2>1, <2>2, <2>5 DEF TypeOK
    <3>2. QED
      BY <2>1, <2>2, <2>3, <3>1, OtherKeeps
  <2>6. QED
    BY <2>4, <2>5
<1>10. ASSUME NEW s \in Services, Disable(s)
       PROVE  Keeping(t)'
  <2>1. /\ applied' = [applied EXCEPT ![s] = Absent] /\ on' = on \ {s}
        /\ op = "none" /\ op' = "none"
        /\ UNCHANGED <<series, contract, op, next, past, new, read, outstanding, lapses>>
    BY <1>10 DEF Disable, Unconfigure, Idle, loop
  <2>2. ~Waits(t) /\ ~Waits(t)'
    BY <2>1, LoopStarts DEF Idle
  <2>3. CASE t = s
    <3>1. applied'[t] = Absent /\ t \notin on'
      BY <2>1, <2>3 DEF TypeOK
    <3>2. QED
      BY <2>2, <3>1, LeftOff
  <2>4. CASE t # s
    <3>1. applied'[t] = applied[t] /\ (t \in on' <=> t \in on)
      BY <2>1, <2>4 DEF TypeOK
    <3>2. QED
      BY <2>1, <2>2, <3>1, OtherKeeps
  <2>5. QED
    BY <2>3, <2>4
<1>11. CASE UNCHANGED vars
  <2>1. UNCHANGED <<series, contract, applied, op, next, past, new, read, on, outstanding, lapses>>
    BY <1>11 DEF vars, data, loop, history
  <2>2. Waits(t)' <=> Waits(t)
    BY <2>1 DEF Waits, Idle
  <2>3. QED
    BY <2>1, <2>2, OtherKeeps
<1>12. QED
  BY <1>1, <1>2, <1>3, <1>4, <1>5, <1>6, <1>7, <1>8, <1>9, <1>10, <1>11 DEF Next

-----------------------------------------------------------------------------
(* Credentials that are gone *)

(* A service a step does not concern has left no other lines, when the     *)
(* file gets none for it.                                                  *)
LEMMA OtherGone ==
  ASSUME NEW t \in Services, Gone(t), applied'[t] = applied[t],
         lapses[t] = "source" => lapses'[t] = "source",
         \A line \in Range(file') : line \in Range(file) \/ line.repo \notin Urls(t)
  PROVE  Gone(t)'
BY DEF Gone, Configured

(* A service that is set up leaves only the contract's repository.         *)
LEMMA SetUpGone ==
  ASSUME TypeOK, GoneInv, NEW s \in Services, Current(s) # Absent,
         NEW lines \in Seq(Lines), Range(lines) \subseteq Range(file), Configure(s, lines)
  PROVE  GoneInv'
<1>1. /\ applied' = [applied EXCEPT ![s] = Current(s).url]
      /\ \A t \in Services : lapses[t] = "source" => lapses'[t] = "source"
      /\ \A line \in Range(file') : line \in Range(lines) \/ line.repo = Current(s).url
      /\ \A line \in Range(lines) :
           line.repo = applied[s] => applied[s] = Current(s).url \/ lapses'[s] = "source"
  BY Configuring
<1>2. Current(s).url \in Urls(s)
  BY CurrentView, ViewTypes
<1>3. Gone(s)'
  <2>1. applied'[s] = Current(s).url
    BY <1>1 DEF TypeOK
  <2>2. ASSUME lapses'[s] # "source", NEW line \in Range(file'), line.repo \in Urls(s)
        PROVE  line.repo = Current(s).url
    BY <1>1, <2>2 DEF GoneInv, Gone
  <2>3. QED
    BY <1>2, <2>1, <2>2 DEF Gone
<1>4. ASSUME NEW t \in Services \ {s}
      PROVE  Gone(t)'
  <2>1. applied'[t] = applied[t] /\ Gone(t)
    BY <1>1 DEF TypeOK, GoneInv
  <2>2. Current(s).url \notin Urls(t)
    BY <1>2, UrlsAssumption
  <2>3. QED
    BY <1>1, <2>1, <2>2, OtherGone
<1>5. QED
  BY <1>3, <1>4 DEF GoneInv

(* A service that is found and removed leaves nothing.                     *)
LEMMA RemovedGone ==
  ASSUME TypeOK, GoneInv, NEW s \in Services, Active(s), Unconfigure(s), lapses' = lapses
  PROVE  GoneInv'
<1>1. Current(s) # Absent /\ applied[s] = Current(s).url
  BY DEF Active
<1>2. Current(s).url \in Urls(s) /\ file \in Seq(Lines)
  BY <1>1, CurrentView, ViewTypes DEF TypeOK
<1>3. \A line : line \in Range(file') <=> line \in Range(file) /\ line.repo # applied[s]
  BY <1>1, <1>2, Removing DEF Unconfigure
<1>4. applied'[s] = Absent /\ \A t \in Services \ {s} : applied'[t] = applied[t]
  BY DEF Unconfigure, TypeOK
<1>5. Gone(s)'
  BY <1>3, <1>4 DEF GoneInv, Gone, Configured
<1>6. \A t \in Services \ {s} : Gone(t)'
  BY <1>3, <1>4, OtherGone DEF GoneInv
<1>7. QED
  BY <1>5, <1>6 DEF GoneInv

LEMMA DeltaGone ==
  ASSUME TypeOK, LoopInv, GoneInv, NEW s \in Services, Delta(s)
  PROVE  GoneInv'
<1>1. ASSUME UNCHANGED <<applied, file>>, \E kind, cond : Lapse(s, kind, cond)
      PROVE  GoneInv'
  <2>1. \A t \in Services : lapses[t] = "source" => lapses'[t] = "source"
    BY <1>1 DEF TypeOK, Lapse
  <2>2. QED
    BY <1>1, <2>1, OtherGone DEF GoneInv
<1>2. CASE NoDelta(s) \/ Settled(s) \/ DeltaFails(s)
  BY <1>1, <1>2 DEF NoDelta, Settled, DeltaFails
<1>3. CASE DeltaUnentitled(s)
  BY <1>1, <1>3, RemovedGone DEF DeltaUnentitled
<1>4. CASE DeltaDefault(s)
  <2>1. CASE op \in {"attach", "upgrade"}
    BY <1>4, <2>1, SetUpGone DEF DeltaDefault, CanEnable, TypeOK
  <2>2. CASE ~(op \in {"attach", "upgrade"})
    BY <1>1, <1>4, <2>2 DEF DeltaDefault
  <2>3. QED
    BY <2>1, <2>2
<1>5. CASE Rewrite(s)
  <2>1. Current(s) # Absent /\ Configure(s, Cleared(s))
    BY <1>5 DEF Rewrite
  <2>2. Cleared(s) \in Seq(Lines) /\ Range(Cleared(s)) \subseteq Range(file)
    BY <2>1, Clearing
  <2>3. QED
    BY <2>1, <2>2, SetUpGone
<1>6. CASE RewriteFails(s)
  <2>. DEFINE cond == \E i \in DOMAIN file' : file'[i].repo = applied[s]
  <2>1. /\ Current(s) # Absent /\ file' = Cleared(s)
        /\ applied' = [applied EXCEPT ![s] = Absent]
        /\ Lapse(s, "source", cond)
    BY <1>6 DEF RewriteFails
  <2>2. Range(file') \subseteq Range(file)
    BY <2>1, Clearing
  <2>3. applied'[s] = Absent /\ \A t \in Services \ {s} : applied'[t] = applied[t]
    BY <2>1 DEF TypeOK
  <2>4. /\ \A t \in Services : lapses[t] = "source" => lapses'[t] = "source"
        /\ lapses'[s] # "source" => ~cond
    <3>1. cond \in BOOLEAN
      OBVIOUS
    <3>. HIDE DEF cond
    <3>2. QED
      BY <2>1, <3>1 DEF TypeOK, Lapse
  <2>5. Gone(s)'
    <3>1. ASSUME lapses'[s] # "source", NEW line \in Range(file')
          PROVE  line.repo \notin Urls(s)
      <4>1. line.repo # applied[s]
        BY <2>4, <3>1 DEF Range
      <4>2. QED
        BY <2>2, <2>4, <3>1, <4>1 DEF GoneInv, Gone
    <3>2. QED
      BY <2>3, <3>1 DEF Gone, Configured
  <2>6. \A t \in Services \ {s} : Gone(t)'
    BY <2>2, <2>3, <2>4, OtherGone DEF GoneInv
  <2>7. QED
    BY <2>5, <2>6 DEF GoneInv
<1>7. QED
  BY <1>2, <1>3, <1>4, <1>5, <1>6 DEF Delta

LEMMA StepGone ==
  ASSUME TypeOK, LoopInv, GoneInv, [Next]_vars
  PROVE  GoneInv'
<1>1. ASSUME UNCHANGED <<applied, file>>,
             \A t \in Services : lapses[t] = "source" => lapses'[t] = "source"
      PROVE  GoneInv'
  BY <1>1, OtherGone DEF GoneInv
<1>2. CASE UpdateContract \/ ReleaseUpgrade \/ ReadContracts \/ ProcessRead \/ Finish
           \/ UNCHANGED vars
  BY <1>1, <1>2 DEF UpdateContract, ReleaseUpgrade, ReadContracts, ProcessRead, Finish,
     vars, data, history
<1>3. CASE Crash
  BY <1>1, <1>3 DEF Crash, data
<1>4. CASE Detach
  <2>. DEFINE gone == {s \in Services : Active(s)}
              repos == {applied[s] : s \in gone}
  <2>1. /\ applied' = [s \in Services |-> IF s \in gone THEN Absent ELSE applied[s]]
        /\ file' = LinesWithout(file, repos)
        /\ lapses' = [s \in Services |-> IF applied'[s] = Absent THEN lapses[s]
                                         ELSE "source"]
    BY <1>4 DEF Detach
  <2>2. Range(file') = {line \in Range(file) : line.repo \notin repos}
    BY <2>1, WithoutLines DEF TypeOK
  <2>3. ASSUME NEW t \in Services
        PROVE  Gone(t)'
    <3>1. /\ applied'[t] = IF t \in gone THEN Absent ELSE applied[t]
          /\ lapses'[t] = IF applied'[t] = Absent THEN lapses[t] ELSE "source"
          /\ t \in gone => applied[t] \in repos
      BY <2>1
    <3>2. Gone(t)
      BY DEF GoneInv
    <3>. HIDE DEF gone, repos
    <3>3. CASE t \in gone
      BY <2>2, <3>1, <3>2, <3>3 DEF Gone, Configured
    <3>4. CASE t \notin gone
      BY <2>2, <3>1, <3>2, <3>4 DEF Gone, Configured
    <3>5. QED
      BY <3>3, <3>4
  <2>4. QED
    BY <2>3 DEF GoneInv
<1>5. ASSUME NEW s \in Services, Enable(s)
      PROVE  GoneInv'
  BY <1>5, SetUpGone DEF Enable, CanEnable, TypeOK
<1>6. ASSUME NEW s \in Services, Disable(s)
      PROVE  GoneInv'
  BY <1>6, RemovedGone DEF Disable
<1>7. QED
  BY <1>2, <1>3, <1>4, <1>5, <1>6, DeltaGone DEF Next

-----------------------------------------------------------------------------
(* Credentials that are served *)

(* A service a step does not concern is served as before, when its line is *)
(* kept at the head of those that serve it.                                *)
LEMMA OtherServed ==
  ASSUME NEW t \in Services, Served(t), Gone(t), applied'[t] = applied[t],
         lapses'[t] = "none" => lapses[t] = "none",
         Configured(t) /\ lapses'[t] = "none" => Seen(t)'.token = Seen(t).token,
         lapses'[t] = "none" /\ applied[t] \in Urls(t) =>
           \A line : line.repo \in Urls(t) /\ First(file, Serving(applied[t]), line)
                       => First(file', Serving(applied[t]), line)
  PROVE  Served(t)'
<1>1. SUFFICES ASSUME Configured(t), lapses'[t] = "none"
               PROVE  First(file', Serving(applied[t]),
                            [repo |-> applied[t], token |-> Seen(t).token])
  BY DEF Served, Configured
<1>2. applied[t] \in Urls(t)
  BY <1>1 DEF Gone
<1>. DEFINE line == [repo |-> applied[t], token |-> Seen(t).token]
<1>3. line.repo \in Urls(t) /\ First(file, Serving(applied[t]), line)
  BY <1>1, <1>2 DEF Served
<1>. HIDE DEF line
<1>4. First(file', Serving(applied[t]), line)
  BY <1>1, <1>2, <1>3
<1>5. QED
  BY <1>4 DEF line

(* A service that is set up is served by its new line, and the others by   *)
(* the lines they had among those the new one is added to.                 *)
LEMMA SetUpServed ==
  ASSUME TypeOK, GoneInv, ServedInv, NEW s \in Services, Current(s) # Absent,
         NEW lines \in Seq(Lines), Configure(s, lines), ~Waits(s)',
         UNCHANGED <<series, contract>>,
         \A t \in Services \ {s} : Seen(t)' = Seen(t),
         \A t \in Services \ {s} : \A some, line :
           line.repo \in Urls(t) /\ First(file, some, line) => First(lines, some, line)
  PROVE  ServedInv'
<1>1. /\ applied' = [applied EXCEPT ![s] = Current(s).url]
      /\ First(file', Serving(Current(s).url),
               [repo |-> Current(s).url, token |-> Current(s).token])
      /\ \A t \in Services \ {s} : \A line :
           /\ lapses'[t] = "none" /\ applied[t] \in Urls(t)
           /\ First(lines, Serving(applied[t]), line)
           => First(file', Serving(applied[t]), line)
      /\ \A t \in Services \ {s} : lapses'[t] = "none" => lapses[t] = "none"
  BY Configuring
<1>2. Served(s)'
  <2>1. applied'[s] = Current(s).url
    BY <1>1 DEF TypeOK
  <2>2. Seen(s)' = Current(s)
    BY DEF Seen, Current
  <2>3. QED
    BY <1>1, <2>1, <2>2 DEF Served
<1>3. ASSUME NEW t \in Services \ {s}
      PROVE  Served(t)'
  <2>1. applied'[t] = applied[t] /\ Gone(t) /\ Served(t)
    BY <1>1 DEF TypeOK, GoneInv, ServedInv
  <2>2. lapses'[t] = "none" /\ applied[t] \in Urls(t) =>
          \A line : line.repo \in Urls(t) /\ First(file, Serving(applied[t]), line)
                      => First(file', Serving(applied[t]), line)
    BY <1>1
  <2>3. QED
    BY <1>1, <2>1, <2>2, OtherServed
<1>4. QED
  BY <1>2, <1>3 DEF ServedInv

(* A service that is removed leaves the others their lines.                *)
LEMMA RemovedServed ==
  ASSUME TypeOK, GoneInv, ServedInv, NEW s \in Services,
         applied' = [applied EXCEPT ![s] = Absent],
         \A t \in Services \ {s} : lapses'[t] = "none" => lapses[t] = "none",
         \A t \in Services \ {s} : Seen(t)' = Seen(t),
         \A t \in Services \ {s} : \A some, line :
           line.repo \in Urls(t) /\ First(file, some, line) => First(file', some, line)
  PROVE  ServedInv'
<1>1. Served(s)'
  BY DEF Served, Configured, TypeOK
<1>2. ASSUME NEW t \in Services \ {s}
      PROVE  Served(t)'
  <2>1. applied'[t] = applied[t] /\ Gone(t) /\ Served(t)
    BY DEF TypeOK, GoneInv, ServedInv
  <2>2. QED
    BY <2>1, OtherServed
<1>3. QED
  BY <1>1, <1>2 DEF ServedInv

LEMMA DeltaServed ==
  ASSUME TypeOK, LoopInv, GoneInv, ServedInv, NEW s \in Services, Delta(s)
  PROVE  ServedInv'
<1>1. Each(s) /\ Continue /\ UNCHANGED <<series, contract, outstanding, updates>>
  BY DEF Delta, NoDelta, DeltaUnentitled, DeltaDefault, Rewrite, RewriteFails,
       Settled, DeltaFails, Untouched
<1>2. /\ op \in {"attach", "refresh", "upgrade"} /\ op' = op /\ Waits(s) /\ ~Waits(s)'
      /\ past' = past /\ new' = new
      /\ \A t \in Services \ {s} : Waits(t)' <=> Waits(t)
  BY <1>1, LoopStep
<1>3. \A t \in Services \ {s} : Seen(t)' = Seen(t)
  BY <1>1, <1>2 DEF Seen, Current
(* A service left alone, and named when its token has changed.             *)
<1>4. ASSUME UNCHANGED <<applied, file>>, NEW kind \in {"token", "source"},
             NEW cond \in BOOLEAN, Lapse(s, kind, cond),
             Configured(s) /\ ~cond /\ op # "upgrade" => past[s].token = new[s].token
      PROVE  ServedInv'
  <2>1. kind \in Lapses
    BY DEF Lapses
  <2>2. /\ cond => lapses'[s] \in {kind, "source"}
        /\ \A t \in Services : t # s \/ ~cond => lapses'[t] = lapses[t]
    BY <1>4, <2>1, Lapsing
  <2>3. ASSUME NEW t \in Services \ {s}
        PROVE  Served(t)'
    BY <1>3, <1>4, <2>2, OtherServed DEF GoneInv, ServedInv
  <2>4. Served(s)'
    <3>1. lapses'[s] = "none" => ~cond /\ lapses[s] = "none"
      BY <2>2
    <3>2. Configured(s) /\ lapses'[s] = "none" => Seen(s)'.token = Seen(s).token
      <4>1. Seen(s)' = Current(s)
        BY <1>1, <1>2 DEF Seen, Current
      <4>2. CASE op = "upgrade"
        BY <4>1, <4>2 DEF Seen
      <4>3. CASE op # "upgrade"
        <5>1. new[s] = Current(s) /\ Seen(s) = past[s]
          BY <1>2, <4>3, NewIsCurrent DEF Seen
        <5>2. QED
          BY <1>4, <3>1, <4>1, <4>3, <5>1
      <4>4. QED
        BY <4>2, <4>3
    <3>3. QED
      BY <1>4, <3>1, <3>2, OtherServed DEF GoneInv, ServedInv
  <2>5. QED
    BY <2>3, <2>4 DEF ServedInv
<1>5. ASSUME UNCHANGED <<applied, file>>, Lapse(s, "source", Configured(s))
      PROVE  ServedInv'
  BY <1>4, <1>5 DEF Configured
<1>6. CASE NoDelta(s)
  <2>. DEFINE cond == Configured(s) /\ (new[s] = Absent \/ Missed(s))
  <2>1. /\ Deltas(s) = {} /\ UNCHANGED <<applied, file>> /\ Lapse(s, "source", cond)
        /\ cond \in BOOLEAN
    BY <1>6 DEF NoDelta
  <2>2. Configured(s) /\ ~cond => past[s].token = new[s].token
    BY <2>1, DeltaKeys
  <2>. HIDE DEF cond
  <2>3. QED
    BY <1>4, <2>1, <2>2
<1>7. CASE DeltaUnentitled(s)
  <2>1. CASE DeltaStatus(s) /\ Active(s)
    <3>1. /\ lapses' = lapses /\ applied' = [applied EXCEPT ![s] = Absent]
          /\ file' = RemoveRepoFromAptAuthFile(file, Current(s).url)
      BY <1>7, <2>1 DEF DeltaUnentitled, Unconfigure
    <3>2. Current(s).url \in Urls(s) /\ file \in Seq(Lines)
      BY <2>1, CurrentView, ViewTypes DEF TypeOK, Active
    <3>3. QED
      BY <1>3, <3>1, <3>2, Removing, RemovedServed
  <2>2. CASE ~(DeltaStatus(s) /\ Active(s))
    BY <1>5, <1>7, <2>2 DEF DeltaUnentitled
  <2>3. QED
    BY <2>1, <2>2
<1>8. CASE DeltaDefault(s)
  <2>1. CASE op \in {"attach", "upgrade"}
    <3>1. Current(s) # Absent /\ Configure(s, file) /\ file \in Seq(Lines)
      BY <1>8, <2>1 DEF DeltaDefault, CanEnable, TypeOK
    <3>2. QED
      BY <1>1, <1>2, <1>3, <3>1, SetUpServed
  <2>2. CASE ~(op \in {"attach", "upgrade"})
    BY <1>5, <1>8, <2>2 DEF DeltaDefault
  <2>3. QED
    BY <2>1, <2>2
<1>9. CASE Rewrite(s)
  <2>1. Current(s) # Absent /\ Configure(s, Cleared(s))
    BY <1>9 DEF Rewrite
  <2>2. /\ Cleared(s) \in Seq(Lines)
        /\ \A t \in Services \ {s} : \A some, line :
             line.repo \in Urls(t) /\ First(file, some, line) =>
               First(Cleared(s), some, line)
    BY <2>1, Clearing
  <2>3. QED
    BY <1>1, <1>2, <1>3, <2>1, <2>2, SetUpServed
<1>10. CASE RewriteFails(s)
  <2>1. /\ Current(s) # Absent /\ file' = Cleared(s)
        /\ applied' = [applied EXCEPT ![s] = Absent]
    BY <1>10 DEF RewriteFails
  <2>2. \A t \in Services \ {s} : lapses'[t] = lapses[t]
    BY <1>10 DEF RewriteFails, Lapse, TypeOK
  <2>3. QED
    BY <1>3, <2>1, <2>2, Clearing, RemovedServed
<1>11. CASE Settled(s)
  <2>. DEFINE lost == ~DeltaStatus(s) \/ ("url" \in Deltas(s) /\ new[s].url # applied[s])
              renewed == Configured(s) /\ "token" \in Deltas(s)
  <2>1. /\ Deltas(s) # {} /\ UNCHANGED <<applied, file>>
        /\ lost => Lapse(s, "source", Configured(s))
        /\ ~lost => Lapse(s, "token", renewed)
    BY <1>11 DEF Settled
  <2>2. Configured(s) /\ ~renewed => past[s].token = new[s].token
    <3>1. new[s] # Absent
      BY <2>1 DEF Deltas
    <3>2. QED
      BY <3>1, DeltaKeys
  <2>3. renewed \in BOOLEAN
    BY DEF Configured
  <2>. HIDE DEF lost, renewed
  <2>4. CASE lost
    BY <1>5, <2>1, <2>4
  <2>5. CASE ~lost
    BY <1>4, <2>1, <2>2, <2>3, <2>5
  <2>6. QED
    BY <2>4, <2>5
<1>12. CASE DeltaFails(s)
  BY <1>5, <1>12 DEF DeltaFails
<1>13. QED
  BY <1>6, <1>7, <1>8, <1>9, <1>10, <1>11, <1>12 DEF Delta

LEMMA StepServed ==
  ASSUME TypeOK, LoopInv, GoneInv, ServedInv, [Next]_vars
  PROVE  ServedInv'
<1>. USE DEF data, loop, history
<1>1. ASSUME UNCHANGED <<applied, file>>,
             \A t \in Services : /\ lapses'[t] = "none" => lapses[t] = "none"
                                 /\ Configured(t) /\ lapses'[t] = "none" =>
                                      Seen(t)'.token = Seen(t).token
      PROVE  ServedInv'
  BY <1>1, OtherServed DEF GoneInv, ServedInv
<1>2. \A t \in Services : Idle => Seen(t) = Current(t)
  BY LoopStarts DEF Seen
<1>3. \A t \in Services : op' = "none" => Seen(t)' = Current(t)'
  BY LoopStarts DEF Seen
<1>4. CASE UpdateContract
  <2>1. /\ op = "none" /\ op' \in {"attach", "refresh"} /\ next' = 1
        /\ past' = Entitlements(contract, series)
        /\ UNCHANGED <<applied, file, lapses>>
    BY <1>4 DEF UpdateContract, Start, Idle
  <2>2. \A t \in Services : Seen(t)' = Seen(t)
    BY <1>2, <2>1, LoopStarts DEF Seen, Idle, Entitlements, Current
  <2>3. QED
    BY <1>1, <2>1, <2>2
<1>5. CASE ReleaseUpgrade
  <2>1. /\ op = "none" /\ op' = "none" /\ series' = 2
        /\ UNCHANGED <<contract, applied, file, lapses>>
    BY <1>5 DEF ReleaseUpgrade, Idle
  <2>2. ASSUME NEW t \in Services
        PROVE  Seen(t)'.token = Seen(t).token
    <3>1. contract \in Contracts \union {Nothing} /\ series \in Series /\ 2 \in Series
      BY DEF TypeOK, Series
    <3>2. Seen(t) = SeriesView(contract[t], series) /\ Seen(t)' = SeriesView(contract[t], 2)
      BY <1>2, <1>3, <2>1 DEF Idle, Current
    <3>3. CASE contract[t] = Absent
      BY <3>2, <3>3 DEF SeriesView
    <3>4. CASE contract[t] # Absent
      <4>1. SeriesView(contract[t], 2).token = contract[t].token
        BY <3>1, <3>4, ContractViews
      <4>2. SeriesView(contract[t], series).token = contract[t].token
        BY <3>1, <3>4, ContractViews
      <4>3. QED
        BY <3>2, <4>1, <4>2
    <3>5. QED
      BY <3>3, <3>4
  <2>3. QED
    BY <1>1, <2>1, <2>2
<1>6. CASE ReadContracts
  <2>1. /\ op = "none" /\ op' = "none"
        /\ UNCHANGED <<series, contract, applied, file, lapses>>
    BY <1>6 DEF ReadContracts, Idle
  <2>2. \A t \in Services : Seen(t)' = Seen(t)
    BY <1>2, <1>3, <2>1 DEF Idle, Current
  <2>3. QED
    BY <1>1, <2>1, <2>2
<1>7. CASE ProcessRead
  <2>1. /\ op = "none" /\ op' = "upgrade"
        /\ UNCHANGED <<series, contract, applied, file, lapses>>
    BY <1>7 DEF ProcessRead, Start, Idle
  <2>2. \A t \in Services : Seen(t)' = Seen(t)
    BY <1>2, <2>1 DEF Seen, Idle, Current
  <2>3. QED
    BY <1>1, <2>1, <2>2
<1>8. CASE Finish
  <2>1. /\ op' = "none" /\ next > Len(Names)
        /\ UNCHANGED <<series, contract, applied, file, lapses>>
    BY <1>8 DEF Finish, Return
  <2>2. next..Len(Names) = {}
    BY <2>1, NamePlaces DEF TypeOK
  <2>3. \A t \in Services : Seen(t)' = Seen(t)
    BY <1>3, <2>1, <2>2 DEF Seen, Waits, Current
  <2>4. QED
    BY <1>1, <2>1, <2>3
<1>9. CASE Crash
  <2>1. /\ op # "none" /\ op' = "none"
        /\ UNCHANGED <<series, contract, applied, file>>
        /\ lapses' = [s \in Services |->
             IF /\ Configured(s) /\ (past[s] # new[s] \/ Missed(s))
                /\ \E i \in next..Len(Names) : Names[i] = s
             THEN "source" ELSE lapses[s]]
    BY <1>9 DEF Crash, Return, Idle
  <2>2. ASSUME NEW t \in Services, lapses'[t] = "none"
        PROVE  /\ lapses[t] = "none"
               /\ Configured(t) => Seen(t)' = Seen(t)
    <3>1. /\ lapses[t] = "none"
          /\ Waits(t) /\ Configured(t) => past[t] = new[t]
      BY <2>1, <2>2 DEF Waits
    <3>2. Seen(t)' = Current(t)
      BY <1>3, <2>1 DEF Current
    <3>3. CASE Waits(t) /\ op # "upgrade"
      <4>1. new[t] = Current(t)
        BY <2>1, <3>3, NewIsCurrent DEF TypeOK
      <4>2. QED
        BY <3>1, <3>2, <3>3, <4>1 DEF Seen
    <3>4. CASE ~(Waits(t) /\ op # "upgrade")
      BY <3>1, <3>2, <3>4 DEF Seen
    <3>5. QED
      BY <3>3, <3>4
  <2>3. QED
    BY <1>1, <2>1, <2>2
<1>10. CASE Detach
  <2>1. lapses' = [s \in Services |-> IF applied'[s] = Absent THEN lapses[s] ELSE "source"]
    BY <1>10 DEF Detach
  <2>2. QED
    BY <2>1 DEF ServedInv, Served, Configured
<1>11. ASSUME NEW s \in Services, Enable(s)
       PROVE  ServedInv'
  <2>1. /\ Current(s) # Absent /\ Configure(s, file) /\ file \in Seq(Lines)
        /\ op = "none" /\ op' = "none" /\ UNCHANGED <<series, contract>>
    BY <1>11 DEF Enable, CanEnable, Idle, TypeOK
  <2>2. ~Waits(s)' /\ \A t \in Services : Seen(t)' = Seen(t)
    BY <1>2, <1>3, <2>1, LoopStarts DEF Idle, Current
  <2>3. QED
    BY <2>1, <2>2, SetUpServed
<1>12. ASSUME NEW s \in Services, Disable(s)
       PROVE  ServedInv'
  <2>1. /\ Active(s) /\ lapses' = lapses
        /\ file' = RemoveRepoFromAptAuthFile(file, Current(s).url)
        /\ applied' = [applied EXCEPT ![s] = Absent]
        /\ op = "none" /\ op' = "none" /\ UNCHANGED <<series, contract>>
    BY <1>12 DEF Disable, Unconfigure, Idle
  <2>2. \A t \in Services : Seen(t)' = Seen(t)
    BY <1>2, <1>3, <2>1 DEF Idle, Current
  <2>3. Current(s).url \in Urls(s) /\ file \in Seq(Lines)
    BY <2>1, CurrentView, ViewTypes DEF TypeOK, Active
  <2>4. QED
    BY <2>1, <2>2, <2>3, Removing, RemovedServed
<1>13. CASE UNCHANGED vars
  <2>1. UNCHANGED <<series, contract, applied, file, op, next, past, new, lapses>>
    BY <1>13 DEF vars
  <2>2. \A t \in Services : Seen(t)' = Seen(t)
    BY <2>1 DEF Seen, Waits, Idle, Current
  <2>3. QED
    BY <1>1, <2>1, <2>2
<1>14. QED
  BY <1>4, <1>5, <1>6, <1>7, <1>8, <1>9, <1>10, <1>11, <1>12, <1>13, DeltaServed DEF Next

-----------------------------------------------------------------------------
(* The theorems *)

(* The invariant holds in every reachable state: whatever updates of the   *)
(* contract, release upgrades, failures and crashes there were.            *)
THEOREM InvariantHolds == Spec => []DeltasInv
<1>1. Init => DeltasInv
  <2>1. SUFFICES ASSUME Init
                 PROVE  StepInv /\ GoneInv /\ ServedInv
    BY InitTypes DEF DeltasInv
  <2>2. \A s \in Services : ~Configured(s) /\ ~Waits(s) /\ s \notin on
    BY <2>1 DEF Init, Nothing, Configured, Waits, Idle
  <2>3. Range(file) = {}
    BY <2>1 DEF Init, Range
  <2>4. QED
    BY <2>2, <2>3 DEF StepInv, Keeping, GoneInv, Gone, ServedInv, Served
<1>2. DeltasInv /\ [Next]_vars => DeltasInv'
  BY StepTypes, StepKeeps, StepGone, StepServed DEF DeltasInv
<1>3. QED
  BY <1>1, <1>2, PTL DEF Spec

(* Every variable keeps its type: the loop of process_entitlements_delta   *)
(* never leaves its list and the credentials file stays a list of lines.   *)
THEOREM TypeCorrect == Spec => []TypeOK
<1>1. DeltasInv => TypeOK
  BY DEF DeltasInv
<1>2. QED
  BY <1>1, InvariantHolds, PTL

(* InStep: however many services there are and whatever their entitlements *)
(* become, between commands a service is configured, with the contract's   *)
(* own url, exactly when it was enabled and is still covered, unless one   *)
(* of the lapses it names has put it out of step.                          *)
THEOREM KeepsStep == Spec => []InStep
<1>1. DeltasInv => InStep
  <2>1. SUFFICES ASSUME DeltasInv, Idle, ~outstanding, NEW s \in Services,
                        lapses[s] = "none"
                 PROVE  applied[s] = IF s \in on THEN Current(s).url ELSE Absent
    BY DEF InStep
  <2>2. Keeping(s) /\ ~Waits(s)
    BY <2>1, LoopStarts DEF DeltasInv, StepInv
  <2>3. QED
    BY <2>1, <2>2 DEF Keeping, At, Configured
<1>2. QED
  BY <1>1, InvariantHolds, PTL

(* CredentialsGone: between commands the credentials file has no line for  *)
(* a repository of a service that is not configured with it.               *)
THEOREM NothingLeftBehind == Spec => []CredentialsGone
<1>1. DeltasInv => CredentialsGone
  BY DEF DeltasInv, GoneInv, Gone, CredentialsGone
<1>2. QED
  BY <1>1, InvariantHolds, PTL

(* CredentialsServed: whatever lines the services have put into the shared *)
(* file and in whatever order, apt fetches each service's repository with  *)
(* that service's own present token.                                       *)
THEOREM OwnToken == Spec => []CredentialsServed
<1>1. DeltasInv => CredentialsServed
  <2>1. SUFFICES ASSUME DeltasInv, Idle, NEW s \in Services,
                        lapses[s] = "none", Configured(s)
                 PROVE  ServedToken(file, applied[s]) = {Current(s).token}
    BY DEF CredentialsServed
  <2>2. Seen(s) = Current(s)
    BY <2>1, LoopStarts DEF Seen
  <2>. DEFINE line == [repo |-> applied[s], token |-> Current(s).token]
  <2>3. First(file, Serving(applied[s]), line) /\ line.token = Current(s).token
    BY <2>1, <2>2 DEF DeltasInv, ServedInv, Served
  <2>4. file \in Seq(Lines)
    BY <2>1 DEF DeltasInv, TypeOK
  <2>. HIDE DEF line
  <2>5. QED
    BY <2>3, <2>4, FirstIsServed
<1>2. QED
  BY <1>1, InvariantHolds, PTL

=============================================================================
