---------------------------- MODULE AuditLogProofs ----------------------------
(***************************************************************************)
(* Proofs about AuditLog for any writers, processes, peers and bounds.     *)
(* The numbers rest on the lock and the sidecar (Numbered), the order on   *)
(* files that go up one by one and are opened at the active place          *)
(* (Chronicle), and the retained files on the shape a rotation gives the   *)
(* directory at each of its steps (Rotation).                              *)
(***************************************************************************)
EXTENDS AuditLog, SequenceTheorems, WellFoundedInduction, TLAPS

\* No record has a number above some bound.
Bounded == \E B \in Nat : \A x \in AllLines : Record(x).seq <= B

Typed == TypeOK /\ Bounded

\* A sound record has a number.
Sound ==
  /\ \A x \in AllLines : Record(x).sound => Record(x).seq # 0
  /\ \A w \in Writers :
       pc[w] \in {"numbered", "measuring", "rotating", "opening", "appending"} /\ sound[w]
         => seq[w] # 0

\* The lock is held by whoever is between loading and storing.
Exclusive == ~degraded => \A w \in Writers : InSeq(w) => flock = w

\* The sidecar is as high as any number of its peer, given out, written or in
\* a memory, and who is about to store remembers just what is in it.
Covered ==
  ~degraded =>
    /\ \A w \in Writers : seq[w] <= sidecar[Peer[w]]
    /\ \A x \in AllLines : Record(x).seq <= sidecar[PeerOf(x)]
    /\ \A q \in Processes, p \in Peers : counter[q][p] <= sidecar[p]
    /\ \A w \in Writers : pc[w] = "storing" => counter[Home[w]] = sidecar

\* The places hold the files from the newest to the oldest.
Ordered ==
  /\ dir[0] \in {0, Len(content)}
  /\ \A m, n \in Places : m < n /\ dir[m] # 0 /\ dir[n] # 0 => dir[m] > dir[n]

\* Line x comes before line y.
Earlier(x, y) == x[1] < y[1] \/ (x[1] = y[1] /\ x[2] < y[2])

\* A writer's records come in the order of their numbers, none in a file after
\* the one it has open, and none with a number from the one it has been given.
Chronicle ==
  /\ \A w \in Writers : fd[w] # 0 =>
       \A x \in AllLines : Record(x).by = w => x[1] <= fd[w]
  /\ ~degraded =>
       /\ \A w \in Writers : seq[w] # 0 =>
            \A x \in AllLines : Record(x).by = w => Record(x).seq < seq[w]
       /\ \A x, y \in AllLines :
            /\ Earlier(x, y)
            /\ Record(x).by = Record(y).by
            /\ Record(x).seq # 0 /\ Record(y).seq # 0
            => Record(x).seq < Record(y).seq

\* A rotation that has come down to place k has left that place: the files
\* below it are still where they were, the others have gone up.
File(i) == IF i > 0 THEN i ELSE 0
Shape(k) ==
  \A n \in Places :
    dir[n] = IF n <= k THEN File(Len(content) - n)
             ELSE IF n = k + 1 THEN 0
             ELSE File(Len(content) + 1 - n)

Rotating == {w \in Writers : pc[w] = "rotating"}

Rotation ==
  ~torn =>
    /\ Rotating = {} => Shape(-1) \/ Shape(MaxFiles)
    /\ \A w \in Writers : Rotating = {w} => Shape(place[w])
    /\ Rotating # {} => dir[0] # 0 /\ \E k \in Places : Shape(k)
-------------------------------------------------------------------------------
(***************************************************************************)
(* Numbers and lines.                                                      *)
(***************************************************************************)

LEMMA LeastOf ==
  ASSUME NEW S, S \subseteq Nat, S # {}
  PROVE  \E x \in S : \A y \in S : x <= y
<1>1. IsWellFoundedOn({ss \in Nat \X Nat : ss[1] < ss[2]}, Nat)
  BY NatLessThanWellFounded DEF OpToRel
<1>2. PICK x \in S : \A y \in S : <<y, x>> \notin {ss \in Nat \X Nat : ss[1] < ss[2]}
  BY <1>1, WFMin
<1>3. ASSUME NEW y \in S PROVE x <= y
  <2>1. <<y, x>> \in Nat \X Nat
    OBVIOUS
  <2>2. ~(y < x)
    BY <1>2, <2>1
  <2>3. QED
    BY <2>2
<1>4. QED
  BY <1>3

LEMMA MaxOf ==
  ASSUME NEW S, S \subseteq Nat, S # {}, NEW B \in Nat, \A x \in S : x <= B
  PROVE  Max(S) \in S /\ \A y \in S : y <= Max(S)
<1> DEFINE D == {B - x : x \in S}
<1>1. D \subseteq Nat /\ D # {}
  <2>1. \A x \in S : B - x \in Nat
    OBVIOUS
  <2>2. D \subseteq Nat
    BY <2>1
  <2>3. PICK x \in S : TRUE
    OBVIOUS
  <2>4. B - x \in D
    OBVIOUS
  <2>5. QED
    BY <2>2, <2>4
<1>m. \A y \in S : B - y \in D
  OBVIOUS
<1> HIDE DEF D
<1>2. PICK d \in D : \A e \in D : d <= e
  BY <1>1, LeastOf
<1>3. PICK x \in S : d = B - x
  BY DEF D
<1>4. \A y \in S : x >= y
  <2>1. ASSUME NEW y \in S PROVE x >= y
    <3>1. B - x <= B - y
      BY <1>2, <1>3, <1>m
    <3>2. QED
      BY <3>1
  <2>2. QED
    BY <2>1
<1>5. Max(S) \in S /\ \A y \in S : Max(S) >= y
  BY <1>4, Zenon DEF Max
<1>6. QED
  BY <1>5

LinesOf(c) == UNION {{f} \X DOMAIN c[f] : f \in DOMAIN c}

LEMMA LineOf ==
  ASSUME NEW c \in Seq(Seq(Records))
  PROVE  /\ \A x : x \in LinesOf(c) <=>
              \E f \in DOMAIN c : \E i \in DOMAIN c[f] : x = <<f, i>>
         /\ \A x \in LinesOf(c) :
              /\ x = <<x[1], x[2]>>
              /\ x[1] \in 1 .. Len(c) /\ x[2] \in 1 .. Len(c[x[1]])
              /\ c[x[1]] \in Seq(Records)
              /\ c[x[1]][x[2]] \in Records
<1>1. ASSUME NEW x PROVE x \in LinesOf(c) <=>
              \E f \in DOMAIN c : \E i \in DOMAIN c[f] : x = <<f, i>>
  BY DEF LinesOf
<1>2. ASSUME NEW x \in LinesOf(c)
      PROVE  /\ x = <<x[1], x[2]>>
             /\ x[1] \in 1 .. Len(c) /\ x[2] \in 1 .. Len(c[x[1]])
             /\ c[x[1]] \in Seq(Records)
             /\ c[x[1]][x[2]] \in Records
  <2>1. PICK f \in DOMAIN c : \E i \in DOMAIN c[f] : x = <<f, i>>
    BY <1>1
  <2>i. PICK i \in DOMAIN c[f] : x = <<f, i>>
    BY <2>1
  <2>2. f \in 1 .. Len(c) /\ c[f] \in Seq(Records)
    BY ElementOfSeq
  <2>3. i \in 1 .. Len(c[f]) /\ c[f][i] \in Records
    BY <2>2, ElementOfSeq
  <2>4. QED
    BY <2>i, <2>2, <2>3
<1>3. QED
  BY <1>1, <1>2

\* Creating the active file adds no line.
LEMMA Created ==
  ASSUME content \in Seq(Seq(Records)), Create
  PROVE  /\ content' \in Seq(Seq(Records))
         /\ Len(content') = IF dir[0] = 0 THEN Len(content) + 1 ELSE Len(content)
         /\ \A f \in 1 .. Len(content) : content'[f] = content[f]
         /\ AllLines' = AllLines
         /\ \A x \in AllLines : content'[x[1]][x[2]] = content[x[1]][x[2]]
<1>1. /\ content' \in Seq(Seq(Records))
      /\ Len(content') = IF dir[0] = 0 THEN Len(content) + 1 ELSE Len(content)
      /\ \A f \in 1 .. Len(content) : content'[f] = content[f]
  <2>1. CASE dir[0] = 0
    <3>1. content' = Append(content, <<>>) /\ <<>> \in Seq(Records)
      BY <2>1 DEF Create
    <3>2. QED
      BY <2>1, <3>1, AppendProperties
  <2>2. CASE dir[0] # 0
    BY <2>2 DEF Create
  <2>3. QED
    BY <2>1, <2>2
<1>2. content'[Len(content) + 1] = <<>> \/ Len(content') = Len(content)
  <2>1. CASE dir[0] = 0
    BY <2>1, AppendProperties DEF Create
  <2>2. QED
    BY <1>1, <2>1
<1>3. LinesOf(content') = LinesOf(content)
  <2>1. DOMAIN content' = 1 .. Len(content') /\ DOMAIN content = 1 .. Len(content)
    BY <1>1, LenProperties
  <2>2. ASSUME NEW x \in LinesOf(content) PROVE x \in LinesOf(content')
    <3>f. PICK f \in DOMAIN content : \E i \in DOMAIN content[f] : x = <<f, i>>
      BY LineOf
    <3>1. PICK i \in DOMAIN content[f] : x = <<f, i>>
      BY <3>f
    <3>2. f \in DOMAIN content' /\ i \in DOMAIN content'[f]
      BY <1>1, <2>1, LenProperties
    <3>3. QED
      BY <1>1, <3>1, <3>2, LineOf
  <2>3. ASSUME NEW x \in LinesOf(content') PROVE x \in LinesOf(content)
    <3>f. PICK f \in DOMAIN content' : \E i \in DOMAIN content'[f] : x = <<f, i>>
      BY <1>1, LineOf
    <3>1. PICK i \in DOMAIN content'[f] : x = <<f, i>>
      BY <3>f
    <3>2. f \in DOMAIN content
      <4>1. CASE f = Len(content) + 1
        <5>1. f \in 1 .. Len(content') /\ Len(content) \in Nat
          BY <2>1, LenProperties
        <5>2. content'[f] = <<>>
          BY <1>2, <4>1, <5>1
        <5>3. DOMAIN <<>> = {}
          OBVIOUS
        <5>4. QED
          BY <3>1, <5>2, <5>3
      <4>2. QED
        BY <1>1, <2>1, <4>1, LenProperties
    <3>3. i \in DOMAIN content[f]
      BY <1>1, <2>1, <3>2
    <3>4. QED
      BY <3>1, <3>2, <3>3, LineOf
  <2>4. QED
    BY <2>2, <2>3
<1>4. \A x \in LinesOf(content) : content'[x[1]] = content[x[1]]
  BY <1>1, LineOf
<1>5. AllLines' = LinesOf(content') /\ AllLines = LinesOf(content)
  BY DEF AllLines, LinesOf
<1>6. QED
  BY <1>1, <1>3, <1>4, <1>5

LEMMA OneMore == \A n \in Nat : 1 .. n + 1 = (1 .. n) \cup {n + 1}
OBVIOUS

\* Writing adds one line, at the end of the file the writer has open.
EndOf(w) == <<fd[w], Len(content[fd[w]]) + 1>>
LEMMA Written ==
  ASSUME content \in Seq(Seq(Records)), NEW w \in Writers, fd[w] \in 1 .. Len(content),
         seq[w] \in Nat, sound[w] \in BOOLEAN, Write(w)
  PROVE  /\ content' \in Seq(Seq(Records))
         /\ Len(content') = Len(content)
         /\ AllLines' = AllLines \cup {EndOf(w)}
         /\ \A x \in AllLines : content'[x[1]][x[2]] = content[x[1]][x[2]]
         /\ EndOf(w) \notin AllLines
         /\ content'[fd[w]][Len(content[fd[w]]) + 1]
              = [by |-> w, seq |-> seq[w], sound |-> sound[w]]
<1> DEFINE f0 == fd[w]
           r == [by |-> w, seq |-> seq[w], sound |-> sound[w]]
           s == Append(content[f0], r)
           k == Len(content[f0])
<1>1. r \in Records
  BY DEF Records
<1>2. content[f0] \in Seq(Records)
  BY ElementOfSeq
<1>3. /\ s \in Seq(Records) /\ Len(s) = k + 1 /\ s[k + 1] = r
      /\ \A i \in 1 .. k : s[i] = content[f0][i]
      /\ k \in Nat
  BY <1>1, <1>2, AppendProperties, LenProperties
<1>4. content' = [content EXCEPT ![f0] = s]
  BY DEF Write
<1>5. /\ content' \in Seq(Seq(Records)) /\ Len(content') = Len(content)
      /\ \A f \in 1 .. Len(content) : content'[f] = IF f = f0 THEN s ELSE content[f]
  BY <1>3, <1>4, ExceptSeq
<1> HIDE DEF r, s
<1>6. DOMAIN content' = 1 .. Len(content) /\ DOMAIN content = 1 .. Len(content)
  BY <1>5, LenProperties
<1>7. DOMAIN s = 1 .. k + 1 /\ DOMAIN content[f0] = 1 .. k
  BY <1>2, <1>3, LenProperties
<1>8. ASSUME NEW x PROVE x \in LinesOf(content') <=> x \in LinesOf(content) \cup {<<f0, k + 1>>}
  <2>1. ASSUME NEW f \in 1 .. Len(content), NEW i
        PROVE  i \in DOMAIN content'[f] <=> i \in DOMAIN content[f] \/ (f = f0 /\ i = k + 1)
    <3>1. 1 .. k + 1 = (1 .. k) \cup {k + 1}
      BY <1>3, OneMore, Zenon
    <3>2. CASE f = f0
      BY <1>5, <1>7, <3>1, <3>2
    <3>3. CASE f # f0
      BY <1>5, <3>3
    <3>4. QED
      BY <3>2, <3>3
  <2>2. (\E f \in DOMAIN content' : \E i \in DOMAIN content'[f] : x = <<f, i>>)
          <=> (\E f \in DOMAIN content : \E i \in DOMAIN content[f] : x = <<f, i>>) \/ x = <<f0, k + 1>>
    <3>1. ASSUME NEW f \in DOMAIN content', NEW i \in DOMAIN content'[f], x = <<f, i>>
          PROVE  (\E g \in DOMAIN content : \E j \in DOMAIN content[g] : x = <<g, j>>)
                   \/ x = <<f0, k + 1>>
      BY <1>6, <2>1, <3>1
    <3>2. ASSUME NEW f \in DOMAIN content, NEW i \in DOMAIN content[f], x = <<f, i>>
          PROVE  \E g \in DOMAIN content' : \E j \in DOMAIN content'[g] : x = <<g, j>>
      BY <1>6, <2>1, <3>2
    <3>3. f0 \in DOMAIN content' /\ k + 1 \in DOMAIN content'[f0]
      BY <1>6, <2>1
    <3>4. QED
      BY <3>1, <3>2, <3>3
  <2>3. x \in LinesOf(content')
          <=> \E f \in DOMAIN content' : \E i \in DOMAIN content'[f] : x = <<f, i>>
    BY <1>5, LineOf
  <2>4. x \in LinesOf(content)
          <=> \E f \in DOMAIN content : \E i \in DOMAIN content[f] : x = <<f, i>>
    BY LineOf
  <2>5. QED
    BY <2>2, <2>3, <2>4
<1>9. \A x \in LinesOf(content) : content'[x[1]][x[2]] = content[x[1]][x[2]]
  BY <1>3, <1>5, LineOf
<1>10. <<f0, k + 1>> \notin LinesOf(content)
  BY <1>3, LineOf
<1>11. AllLines' = LinesOf(content') /\ AllLines = LinesOf(content) /\ EndOf(w) = <<f0, k + 1>>
  BY DEF AllLines, LinesOf, EndOf
<1>12. content'[f0][k + 1] = r
  BY <1>3, <1>5
<1>13. QED
  BY <1>5, <1>8, <1>9, <1>10, <1>11, <1>12 DEF r
-------------------------------------------------------------------------------
(***************************************************************************)
(* Types.                                                                  *)
(***************************************************************************)

LEMMA NamedAreFiles == TypeOK => Named \subseteq 1 .. Len(content) /\ Len(content) \in Nat
<1> SUFFICES ASSUME TypeOK
             PROVE  Named \subseteq 1 .. Len(content) /\ Len(content) \in Nat
  OBVIOUS
<1>1. Len(content) \in Nat
  BY LenProperties DEF TypeOK
<1>2. \A n \in Places : dir[n] \in 0 .. Len(content)
  BY DEF TypeOK
<1>3. QED
  BY <1>1, <1>2 DEF Named

\* What is found in some of the files is at most what is in all of them.
LEMMA HighestOf ==
  ASSUME TypeOK, NEW F \in SUBSET Named, NEW p \in Peers, NEW B \in Nat,
         \A x \in AllLines : PeerOf(x) = p => Record(x).seq <= B
  PROVE  Highest(F, p) \in 0 .. B
<1> DEFINE Of(f) == {r.seq : r \in {x \in ToSet(content[f]) : Peer[x.by] = p}}
           S == {0} \cup UNION {Of(f) : f \in F}
<1>1. ASSUME NEW f \in F, NEW n \in Of(f) PROVE n \in 0 .. B
  <2>1. PICK r \in ToSet(content[f]) : Peer[r.by] = p /\ n = r.seq
    OBVIOUS
  <2>2. PICK i \in DOMAIN content[f] : r = content[f][i]
    BY <2>1 DEF ToSet
  <2>3. f \in DOMAIN content
    BY NamedAreFiles, LenProperties DEF TypeOK
  <2>4. <<f, i>> \in AllLines
    BY <2>2, <2>3, LineOf DEF TypeOK, AllLines, LinesOf
  <2>5. r \in Records
    BY <2>2, <2>3, ElementOfSeq, LenProperties DEF TypeOK
  <2>6. Record(<<f, i>>) = r /\ PeerOf(<<f, i>>) = p
    BY <2>1, <2>2 DEF Record, PeerOf
  <2>7. n <= B /\ n \in Nat
    BY <2>1, <2>4, <2>5, <2>6 DEF Records
  <2>8. QED
    BY <2>7
<1>2. \A n \in S : n \in 0 .. B
  BY <1>1
<1> HIDE DEF S
<1>3. S \subseteq Nat /\ \A n \in S : n <= B
  BY <1>2
<1>4. S # {}
  BY DEF S
<1>5. Max(S) \in S
  BY <1>3, <1>4, MaxOf
<1>6. Highest(F, p) = Max(S)
  BY DEF Highest, S
<1>7. QED
  BY <1>2, <1>5, <1>6

LEMMA ResetTyped ==
  ASSUME TypeOK, NEW W \in SUBSET Writers, Reset(W)
  PROVE  /\ pc' \in [Writers -> {"idle", "called", "loading", "storing", "numbered",
                       "measuring", "rotating", "opening", "appending"}]
         /\ seq' \in [Writers -> Nat] /\ sound' \in [Writers -> BOOLEAN]
         /\ place' \in [Writers -> Places] /\ fd' \in [Writers -> 0 .. Len(content)]
         /\ \A w \in W : pc'[w] = "idle" /\ seq'[w] = 0 /\ fd'[w] = 0
         /\ \A w \in Writers \ W : /\ pc'[w] = pc[w] /\ seq'[w] = seq[w] /\ fd'[w] = fd[w]
                                   /\ sound'[w] = sound[w] /\ place'[w] = place[w]
<1>1. 0 \in Places /\ 0 \in 0 .. Len(content)
  BY NumbersAssumption, NamedAreFiles DEF Places
<1>2. QED
  BY <1>1 DEF TypeOK, Reset

LEMMA CreateTyped ==
  ASSUME TypeOK, Create
  PROVE  /\ content' \in Seq(Seq(Records))
         /\ Len(content') \in Nat /\ Len(content) <= Len(content')
         /\ dir' \in [Places -> 0 .. Len(content')]
         /\ fd \in [Writers -> 0 .. Len(content')]
         /\ dir'[0] \in 1 .. Len(content')
<1>1. content' \in Seq(Seq(Records)) /\ Len(content) \in Nat
      /\ Len(content') = IF dir[0] = 0 THEN Len(content) + 1 ELSE Len(content)
  BY Created, LenProperties DEF TypeOK
<1>2. 0 .. Len(content) \subseteq 0 .. Len(content') /\ 0 \in Places
  BY <1>1, NumbersAssumption DEF Places
<1>3. fd \in [Writers -> 0 .. Len(content')]
  BY <1>2 DEF TypeOK
<1>4. dir' \in [Places -> 0 .. Len(content')] /\ dir'[0] \in 1 .. Len(content')
  <2>1. CASE dir[0] = 0
    <3>1. dir' = [dir EXCEPT ![0] = Len(content) + 1] /\ Len(content') = Len(content) + 1
      BY <1>1, <2>1 DEF Create
    <3>2. dir \in [Places -> 0 .. Len(content')]
      BY <1>2 DEF TypeOK
    <3>3. QED
      BY <1>1, <1>2, <3>1, <3>2
  <2>2. CASE dir[0] # 0
    <3>1. dir' = dir /\ content' = content
      BY <2>2 DEF Create
    <3>2. dir[0] \in 0 .. Len(content)
      BY <1>2 DEF TypeOK
    <3>3. QED
      BY <1>1, <2>2, <3>1, <3>2 DEF TypeOK
  <2>3. QED
    BY <2>1, <2>2
<1>5. QED
  BY <1>1, <1>3, <1>4

LEMMA LaterTyped ==
  ASSUME NEW f \in [Peers -> Nat], NEW g \in [Peers -> Nat]
  PROVE  /\ Later(f, g) \in [Peers -> Nat]
         /\ \A p \in Peers : /\ Later(f, g)[p] >= f[p] /\ Later(f, g)[p] >= g[p]
                             /\ Later(f, g)[p] \in {f[p], g[p]}
BY DEF Later

LEMMA TypedInit == Init => Typed
<1> SUFFICES ASSUME Init PROVE Typed
  OBVIOUS
<1> USE WritersAssumption, NumbersAssumption, NoOneAssumption DEF Init
<1>1. content \in Seq(Seq(Records)) /\ Len(content) = 0 /\ DOMAIN content = {}
  BY EmptySeq
<1>2. 0 \in Places
  BY DEF Places
<1>3. TypeOK
  <2>1. /\ dir \in [Places -> 0 .. Len(content)] /\ fd \in [Writers -> 0 .. Len(content)]
        /\ counter \in [Processes -> [Peers -> Nat]]
        /\ place \in [Writers -> Places]
    BY <1>1, <1>2
  <2>2. /\ sidecar \in [Peers -> Nat] /\ flock \in Writers \cup {NoOne}
        /\ seeded \subseteq Processes /\ seq \in [Writers -> Nat]
        /\ sound \in [Writers -> BOOLEAN]
    OBVIOUS
  <2>3. /\ pc \in [Writers -> {"idle", "called", "loading", "storing", "numbered",
                     "measuring", "rotating", "opening", "appending"}]
        /\ \A w \in Writers : /\ flock = w => InSeq(w)
                              /\ pc[w] = "appending" <=> fd[w] # 0
    BY DEF InSeq
  <2>4. /\ events \in [Writers -> Nat] /\ \A w \in Writers : events[w] <= MaxEvents[w]
        /\ faults \in 0 .. MaxFaults /\ degraded \in BOOLEAN /\ torn \in BOOLEAN
    <3>1. \A w \in Writers : events[w] = 0 /\ MaxEvents[w] \in Nat
      OBVIOUS
    <3>2. events \in [Writers -> Nat] /\ faults \in 0 .. MaxFaults
      OBVIOUS
    <3>3. degraded \in BOOLEAN /\ torn \in BOOLEAN
      OBVIOUS
    <3>4. QED
      BY <3>1, <3>2, <3>3
  <2>5. QED
    BY <1>1, <2>1, <2>2, <2>3, <2>4 DEF TypeOK
<1>4. AllLines = {}
  BY <1>1, LineOf DEF AllLines, LinesOf
<1>5. Bounded
  BY <1>4 DEF Bounded
<1>6. QED
  BY <1>3, <1>5 DEF Typed

\* A step other than a write leaves the lines as they are ...
LEMMA LinesKept ==
  ASSUME Typed, [Next]_vars, \A w \in Writers : ~Write(w)
  PROVE  AllLines' = AllLines /\ \A x \in AllLines : Record(x)' = Record(x)
<1>1. ASSUME content' = content \/ Create
      PROVE  AllLines' = AllLines /\ \A x \in AllLines : Record(x)' = Record(x)
  BY <1>1, Created DEF AllLines, Record, Typed, TypeOK
<1>2. CASE UNCHANGED vars
  BY <1>1, <1>2 DEF vars, files
<1>3. ASSUME NEW w \in Writers, Begin(w) \/ Step(w) \/ Failure(w)
      PROVE  content' = content \/ Create
  BY <1>3 DEF Step, Failure, Begin, LockSeq, Load, Store, Take, LockLog, Measure, Shift, GoDown, Open,
       LockSeqUnguarded, LockSeqFails, StoreFails, Spoil, ShiftFails, Drop, files
<1>4. ASSUME NEW q \in Processes, Crash(q) PROVE content' = content
  BY <1>4 DEF Crash
<1>5. QED
  BY <1>1, <1>2, <1>3, <1>4 DEF Next

\* ... and a write adds the record of its writer.
LEMMA LineWritten ==
  ASSUME Typed, NEW w \in Writers, Write(w)
  PROVE  /\ AllLines' = AllLines \cup {EndOf(w)}
         /\ EndOf(w) \notin AllLines
         /\ \A x \in AllLines : Record(x)' = Record(x)
         /\ \A x : x = EndOf(w) =>
              Record(x)' = [by |-> w, seq |-> seq[w], sound |-> sound[w]]
<1>1. fd[w] \in 1 .. Len(content) /\ seq[w] \in Nat /\ sound[w] \in BOOLEAN
  BY NamedAreFiles DEF Typed, TypeOK, Write
<1>2. content \in Seq(Seq(Records))
  BY DEF Typed, TypeOK
<1>3. /\ AllLines' = AllLines \cup {EndOf(w)} /\ EndOf(w) \notin AllLines
      /\ \A x \in AllLines : Record(x)' = Record(x)
  BY <1>1, <1>2, Written DEF Record
<1>4. content'[fd[w]][Len(content[fd[w]]) + 1]
        = [by |-> w, seq |-> seq[w], sound |-> sound[w]]
  BY <1>1, <1>2, Written
<1>5. ASSUME NEW x, x = EndOf(w)
      PROVE  Record(x)' = [by |-> w, seq |-> seq[w], sound |-> sound[w]]
  <2>1. x[1] = fd[w] /\ x[2] = Len(content[fd[w]]) + 1
    BY <1>5 DEF EndOf
  <2>2. QED
    BY <1>4, <2>1 DEF Record
<1>6. QED
  BY <1>3, <1>5

LEMMA RecordTyped ==
  ASSUME TypeOK, NEW x \in AllLines
  PROVE  Record(x) \in Records
BY LineOf DEF TypeOK, AllLines, LinesOf, Record

LEMMA BoundedStep == Typed /\ [Next]_vars => Bounded'
<1> SUFFICES ASSUME Typed, [Next]_vars PROVE Bounded'
  OBVIOUS
<1>1. PICK B \in Nat : \A x \in AllLines : Record(x).seq <= B
  BY DEF Typed, Bounded
<1>2. ASSUME NEW w \in Writers, Write(w) PROVE Bounded'
  <2>1. seq[w] \in Nat /\ \A x \in AllLines : Record(x).seq \in Nat
    BY RecordTyped DEF Typed, TypeOK, Records
  <2>2. ASSUME NEW x \in AllLines' PROVE Record(x)'.seq <= B + seq[w]
    <3>1. CASE x \in AllLines
      BY <1>1, <1>2, <2>1, <3>1, LineWritten
    <3>2. CASE x = EndOf(w)
      BY <1>2, <2>1, <3>2, LineWritten
    <3>3. QED
      BY <1>2, <3>1, <3>2, LineWritten
  <2>3. QED
    BY <2>1, <2>2 DEF Bounded
<1>3. QED
  BY <1>1, <1>2, LinesKept DEF Bounded

LEMMA TypeStep == Typed /\ [Next]_vars => TypeOK'
<1> SUFFICES ASSUME Typed, [Next]_vars PROVE TypeOK'
  OBVIOUS
<1> USE WritersAssumption, NumbersAssumption, NoOneAssumption
        DEF numbering, files, record
<1>ok. TypeOK
  BY DEF Typed
<1>files. Len(content) \in Nat /\ 0 \in Places
  BY NamedAreFiles, <1>ok DEF Places
<1>fault. Fault => faults' \in 0 .. MaxFaults
  BY <1>ok DEF Fault, TypeOK
<1>down. ASSUME NEW w \in Writers
         PROVE  /\ place[w] # 0 => place[w] - 1 \in Places
                /\ place[w] # MaxFiles => place[w] + 1 \in Places
                /\ MaxFiles \in Places /\ place[w] \in Places
  <2>1. place[w] \in 0 .. MaxFiles
    BY <1>ok DEF TypeOK, Places
  <2>2. QED
    BY <2>1 DEF Places
<1>1. ASSUME NEW w \in Writers, Begin(w) PROVE TypeOK'
  <2>1. /\ pc' = [pc EXCEPT ![w] = "called"] /\ fd' = fd /\ flock' = flock /\ pc[w] = "idle"
    BY <1>1 DEF Begin, Goto
  <2>2. \A v \in Writers : (flock' = v => InSeq(v)') /\ (pc'[v] = "appending" <=> fd'[v] # 0)
    BY <1>ok, <2>1 DEF TypeOK, InSeq
  <2>3. events' \in [Writers -> Nat] /\ \A v \in Writers : events'[v] <= MaxEvents[v]
    <3>1. events' = [events EXCEPT ![w] = @ + 1] /\ events[w] < MaxEvents[w]
      BY <1>1 DEF Begin
    <3>2. \A v \in Writers : events[v] \in Nat /\ MaxEvents[v] \in Nat /\ events[v] <= MaxEvents[v]
      BY <1>ok DEF TypeOK
    <3>3. \A v \in Writers : events'[v] \in Nat /\ events'[v] <= MaxEvents[v]
      BY <1>ok, <3>1, <3>2 DEF TypeOK
    <3>4. QED
      BY <1>ok, <3>1, <3>2, <3>3 DEF TypeOK
  <2>4. QED
    BY <1>1, <1>ok, <2>1, <2>2, <2>3 DEF TypeOK, Begin
<1>2. ASSUME NEW w \in Writers, LockSeq(w) PROVE TypeOK'
  <2>1. /\ pc' = [pc EXCEPT ![w] = "loading"] /\ fd' = fd
        /\ flock' = w /\ flock = NoOne
    BY <1>2, <1>ok DEF LockSeq, Goto, TypeOK
  <2>2. \A v \in Writers : (flock' = v => InSeq(v)') /\ (pc'[v] = "appending" <=> fd'[v] # 0)
    BY <1>2, <1>ok, <2>1 DEF TypeOK, InSeq, LockSeq
  <2>9. QED
    BY <1>2, <1>ok, <1>files, <1>fault, <2>1, <2>2 DEF TypeOK, LockSeq
<1>3. ASSUME NEW w \in Writers, LockSeqUnguarded(w) PROVE TypeOK'
  <2>1. /\ pc' = [pc EXCEPT ![w] = "loading"] /\ fd' = fd
        /\ flock' = flock
    BY <1>3, <1>ok DEF LockSeqUnguarded, Goto, TypeOK
  <2>2. \A v \in Writers : (flock' = v => InSeq(v)') /\ (pc'[v] = "appending" <=> fd'[v] # 0)
    BY <1>3, <1>ok, <2>1 DEF TypeOK, InSeq, LockSeqUnguarded
  <2>9. QED
    BY <1>3, <1>ok, <1>files, <1>fault, <2>1, <2>2 DEF TypeOK, LockSeqUnguarded
<1>4. ASSUME NEW w \in Writers, LockSeqFails(w) PROVE TypeOK'
  <2>1. /\ pc' = [pc EXCEPT ![w] = "numbered"] /\ pc[w] = "called" /\ fd' = fd
        /\ flock' = flock
    BY <1>4, <1>ok DEF LockSeqFails, Goto, TypeOK
  <2>2. \A v \in Writers : (flock' = v => InSeq(v)') /\ (pc'[v] = "appending" <=> fd'[v] # 0)
    BY <1>4, <1>ok, <2>1 DEF TypeOK, InSeq, LockSeqFails
  <2>9. QED
    BY <1>4, <1>ok, <1>files, <1>fault, <2>1, <2>2 DEF TypeOK, LockSeqFails
<1>5. ASSUME NEW w \in Writers, Load(w) PROVE TypeOK'
  <2>1. /\ pc' = [pc EXCEPT ![w] = "storing"] /\ pc[w] = "loading" /\ fd' = fd
        /\ flock' = flock
    BY <1>5, <1>ok DEF Load, Goto, TypeOK
  <2>2. \A v \in Writers : (flock' = v => InSeq(v)') /\ (pc'[v] = "appending" <=> fd'[v] # 0)
    BY <1>5, <1>ok, <2>1 DEF TypeOK, InSeq, Load
  <2>3. PICK B \in Nat : \A x \in AllLines : Record(x).seq <= B
    BY DEF Typed, Bounded
  <2>4. \A F \in SUBSET Named : [p \in Peers |-> Highest(F, p)] \in [Peers -> Nat]
    BY <1>ok, <2>3, HighestOf
  <2>5. sidecar \in [Peers -> Nat] /\ counter \in [Processes -> [Peers -> Nat]]
    BY <1>ok DEF TypeOK
  <2>6. \A g \in [Peers -> Nat] : Later(counter[Home[w]], g) \in [Peers -> Nat]
    BY <2>5, LaterTyped
  <2>7. counter' \in [Processes -> [Peers -> Nat]] /\ seeded' \subseteq Processes
    <3>1. \E g \in [Peers -> Nat] : counter' = [counter EXCEPT ![Home[w]] = Later(@, g)]
      BY <1>5, <2>4, <2>5 DEF Load
    <3>2. seeded' \subseteq Processes
      <4>1. Home[w] \in Processes /\ seeded \subseteq Processes
        BY <1>ok DEF TypeOK
      <4>2. seeded' = seeded \/ seeded' = seeded \cup {Home[w]}
        BY <1>5 DEF Load
      <4>3. QED
        BY <4>1, <4>2
    <3>3. QED
      BY <2>5, <2>6, <3>1, <3>2
  <2>9. QED
    BY <1>5, <1>ok, <1>files, <1>fault, <2>1, <2>2, <2>7 DEF TypeOK, Load
<1>6. ASSUME NEW w \in Writers, Store(w) PROVE TypeOK'
  <2>1. /\ pc' = [pc EXCEPT ![w] = "numbered"] /\ pc[w] = "storing" /\ fd' = fd
        /\ flock' = IF flock = w THEN NoOne ELSE flock
    BY <1>6, <1>ok DEF Store, Goto, TypeOK, Take, Release
  <2>2. \A v \in Writers : (flock' = v => InSeq(v)') /\ (pc'[v] = "appending" <=> fd'[v] # 0)
    BY <1>6, <1>ok, <2>1 DEF TypeOK, InSeq, Take, Release, Store
  <2>3. counter' \in [Processes -> [Peers -> Nat]] /\ seq' \in [Writers -> Nat]
    <3>1. /\ counter' = [counter EXCEPT ![Home[w]][Peer[w]] = @ + 1]
          /\ seq' = [seq EXCEPT ![w] = counter[Home[w]][Peer[w]] + 1]
      BY <1>6 DEF Store, Take
    <3>2. Home[w] \in Processes /\ Peer[w] \in Peers
      OBVIOUS
    <3>3. counter \in [Processes -> [Peers -> Nat]] /\ seq \in [Writers -> Nat]
      BY <1>ok DEF TypeOK
    <3>4. counter[Home[w]] \in [Peers -> Nat] /\ counter[Home[w]][Peer[w]] + 1 \in Nat
      BY <3>2, <3>3
    <3>5. QED
      BY <3>1, <3>2, <3>3, <3>4
  <2>4. sidecar' \in [Peers -> Nat]
    BY <1>6, <1>ok, <2>3 DEF Store, TypeOK
  <2>9. QED
    BY <1>6, <1>ok, <1>files, <1>fault, <2>1, <2>2, <2>3, <2>4 DEF TypeOK, Store, Take, Release
<1>7. ASSUME NEW w \in Writers, StoreFails(w) PROVE TypeOK'
  <2>1. /\ pc' = [pc EXCEPT ![w] = "numbered"] /\ pc[w] = "storing" /\ fd' = fd
        /\ flock' = IF flock = w THEN NoOne ELSE flock
    BY <1>7, <1>ok DEF StoreFails, Goto, TypeOK, Take, Release
  <2>2. \A v \in Writers : (flock' = v => InSeq(v)') /\ (pc'[v] = "appending" <=> fd'[v] # 0)
    BY <1>7, <1>ok, <2>1 DEF TypeOK, InSeq, Take, Release, StoreFails
  <2>3. counter' \in [Processes -> [Peers -> Nat]] /\ seq' \in [Writers -> Nat]
    <3>1. /\ counter' = [counter EXCEPT ![Home[w]][Peer[w]] = @ + 1]
          /\ seq' = [seq EXCEPT ![w] = counter[Home[w]][Peer[w]] + 1]
      BY <1>7 DEF StoreFails, Take
    <3>2. Home[w] \in Processes /\ Peer[w] \in Peers
      OBVIOUS
    <3>3. counter \in [Processes -> [Peers -> Nat]] /\ seq \in [Writers -> Nat]
      BY <1>ok DEF TypeOK
    <3>4. counter[Home[w]] \in [Peers -> Nat] /\ counter[Home[w]][Peer[w]] + 1 \in Nat
      BY <3>2, <3>3
    <3>5. QED
      BY <3>1, <3>2, <3>3, <3>4
  <2>4. sidecar' \in [Peers -> Nat]
    BY <1>7, <1>ok, <2>3 DEF StoreFails, TypeOK
  <2>9. QED
    BY <1>7, <1>ok, <1>files, <1>fault, <2>1, <2>2, <2>3, <2>4 DEF TypeOK, StoreFails, Take, Release
<1>8. ASSUME NEW w \in Writers, Spoil(w) PROVE TypeOK'
  BY <1>8, <1>ok, <1>fault DEF Spoil, TypeOK, InSeq
<1>9. ASSUME NEW w \in Writers, LockLog(w) PROVE TypeOK'
  <2>1. pc' = [pc EXCEPT ![w] = "measuring"] /\ pc[w] = "numbered" /\ fd' = fd /\ flock' = flock
    BY <1>9 DEF LockLog, Goto
  <2>2. \A v \in Writers : (flock' = v => InSeq(v)') /\ (pc'[v] = "appending" <=> fd'[v] # 0)
    BY <1>ok, <2>1 DEF TypeOK, InSeq
  <2>3. content' \in Seq(Seq(Records)) /\ dir' \in [Places -> 0 .. Len(content')]
        /\ fd' \in [Writers -> 0 .. Len(content')]
    BY <1>9, <1>ok, <2>1, CreateTyped DEF LockLog
  <2>4. QED
    BY <1>9, <1>ok, <2>1, <2>2, <2>3 DEF TypeOK, LockLog
<1>10. ASSUME NEW w \in Writers, Measure(w) PROVE TypeOK'
  <2>1. /\ pc' = [pc EXCEPT ![w] = "rotating"] \/ pc' = [pc EXCEPT ![w] = "opening"]
        /\ pc[w] = "measuring" /\ fd' = fd /\ flock' = flock
    BY <1>10 DEF Measure, Goto
  <2>2. \A v \in Writers : (flock' = v => InSeq(v)') /\ (pc'[v] = "appending" <=> fd'[v] # 0)
    BY <1>ok, <2>1 DEF TypeOK, InSeq
  <2>3. place' \in [Writers -> Places]
    BY <1>10, <1>ok, <1>down DEF Measure, TypeOK
  <2>4. QED
    BY <1>10, <1>ok, <2>1, <2>2, <2>3 DEF TypeOK, Measure
<1>11. ASSUME NEW w \in Writers, GoDown(w)
       PROVE  /\ pc' \in [Writers -> {"idle", "called", "loading", "storing", "numbered",
                            "measuring", "rotating", "opening", "appending"}]
              /\ \A v \in Writers : (flock' = v => InSeq(v)') /\ (pc'[v] = "appending" <=> fd'[v] # 0)
              /\ place' \in [Writers -> Places]
  <2>1. /\ pc' = pc \/ pc' = [pc EXCEPT ![w] = "opening"]
        /\ pc[w] = "rotating" /\ fd' = fd /\ flock' = flock
    BY <1>11 DEF GoDown, Goto
  <2>2. \A v \in Writers : (flock' = v => InSeq(v)') /\ (pc'[v] = "appending" <=> fd'[v] # 0)
    BY <1>ok, <2>1 DEF TypeOK, InSeq
  <2>3. place' \in [Writers -> Places]
    BY <1>11, <1>ok, <1>down DEF GoDown, TypeOK
  <2>4. QED
    BY <1>ok, <2>1, <2>2, <2>3 DEF TypeOK
<1>12. ASSUME NEW w \in Writers, Shift(w) PROVE TypeOK'
  <2>1. dir' \in [Places -> 0 .. Len(content)]
    <3>1. dir \in [Places -> 0 .. Len(content)] /\ 0 \in 0 .. Len(content)
      BY <1>ok, <1>files DEF TypeOK
    <3>2. CASE dir' = dir
      BY <3>1, <3>2
    <3>3. CASE dir' = [dir EXCEPT ![place[w]] = 0]
      BY <3>1, <3>3
    <3>4. CASE /\ place[w] # MaxFiles
               /\ dir' = [dir EXCEPT ![place[w] + 1] = dir[place[w]], ![place[w]] = 0]
      BY <1>down, <3>1, <3>4
    <3>5. QED
      BY <1>12, <3>2, <3>3, <3>4 DEF Shift
  <2>2. torn' \in BOOLEAN
    BY <1>12, <1>ok DEF Shift, TypeOK
  <2>3. QED
    BY <1>11, <1>12, <1>ok, <2>1, <2>2 DEF TypeOK, Shift, GoDown
<1>13. ASSUME NEW w \in Writers, ShiftFails(w) PROVE TypeOK'
  BY <1>11, <1>13, <1>ok, <1>fault DEF TypeOK, ShiftFails, GoDown
<1>14. ASSUME NEW w \in Writers, Open(w) PROVE TypeOK'
  <2>1. /\ pc' = [pc EXCEPT ![w] = "appending"] /\ pc[w] = "opening" /\ flock' = flock
        /\ fd' = [fd EXCEPT ![w] = dir'[0]]
    BY <1>14 DEF Open, Goto
  <2>2. content' \in Seq(Seq(Records)) /\ dir' \in [Places -> 0 .. Len(content')]
        /\ fd \in [Writers -> 0 .. Len(content')] /\ dir'[0] \in 1 .. Len(content')
    BY <1>14, <1>ok, CreateTyped DEF Open
  <2>3. \A v \in Writers : (flock' = v => InSeq(v)') /\ (pc'[v] = "appending" <=> fd'[v] # 0)
    <3>1. pc'[w] = "appending" /\ fd'[w] # 0 /\ flock # w
      <4>1. pc'[w] = "appending" /\ flock # w
        BY <1>ok, <2>1 DEF TypeOK, InSeq
      <4>2. fd'[w] = dir'[0]
        BY <2>1, <2>2
      <4>3. QED
        BY <1>files, <2>2, <4>1, <4>2
    <3>2. \A v \in Writers \ {w} : pc'[v] = pc[v] /\ fd'[v] = fd[v]
      BY <1>ok, <2>1 DEF TypeOK
    <3>3. QED
      BY <1>ok, <2>1, <3>1, <3>2 DEF TypeOK, InSeq
  <2>4. fd' \in [Writers -> 0 .. Len(content')]
    BY <2>1, <2>2
  <2>5. QED
    BY <1>14, <1>ok, <2>1, <2>2, <2>3, <2>4 DEF TypeOK, Open
<1>15. ASSUME NEW w \in Writers, Write(w) PROVE TypeOK'
  <2>1. fd[w] \in 1 .. Len(content) /\ seq[w] \in Nat /\ sound[w] \in BOOLEAN
    BY <1>15, <1>ok, <1>files DEF TypeOK, Write
  <2>2. content' \in Seq(Seq(Records)) /\ Len(content') = Len(content)
    BY <1>15, <1>ok, <2>1, Written DEF TypeOK
  <2>3. Reset({w}) /\ {w} \in SUBSET Writers /\ pc[w] = "appending" /\ flock' = flock
    BY <1>15 DEF Write
  <2>4. /\ pc' \in [Writers -> {"idle", "called", "loading", "storing", "numbered",
                      "measuring", "rotating", "opening", "appending"}]
        /\ seq' \in [Writers -> Nat] /\ sound' \in [Writers -> BOOLEAN]
        /\ place' \in [Writers -> Places] /\ fd' \in [Writers -> 0 .. Len(content)]
    BY <1>ok, <2>3, ResetTyped
  <2>5. /\ pc'[w] = "idle" /\ fd'[w] = 0
        /\ \A v \in Writers \ {w} : pc'[v] = pc[v] /\ fd'[v] = fd[v]
    BY <1>ok, <2>3, ResetTyped
  <2>6. \A v \in Writers : (flock' = v => InSeq(v)') /\ (pc'[v] = "appending" <=> fd'[v] # 0)
    BY <1>ok, <2>3, <2>5 DEF TypeOK, InSeq
  <2>7. QED
    BY <1>15, <1>ok, <2>2, <2>4, <2>6 DEF TypeOK, Write
<1>16. ASSUME NEW w \in Writers, Drop(w) PROVE TypeOK'
  <2>3. Reset({w}) /\ {w} \in SUBSET Writers /\ pc[w] \in {"opening", "appending"} /\ flock' = flock
    BY <1>16 DEF Drop
  <2>4. /\ pc' \in [Writers -> {"idle", "called", "loading", "storing", "numbered",
                      "measuring", "rotating", "opening", "appending"}]
        /\ seq' \in [Writers -> Nat] /\ sound' \in [Writers -> BOOLEAN]
        /\ place' \in [Writers -> Places] /\ fd' \in [Writers -> 0 .. Len(content)]
    BY <1>ok, <2>3, ResetTyped
  <2>5. /\ pc'[w] = "idle" /\ fd'[w] = 0
        /\ \A v \in Writers \ {w} : pc'[v] = pc[v] /\ fd'[v] = fd[v]
    BY <1>ok, <2>3, ResetTyped
  <2>6. \A v \in Writers : (flock' = v => InSeq(v)') /\ (pc'[v] = "appending" <=> fd'[v] # 0)
    BY <1>ok, <2>3, <2>5 DEF TypeOK, InSeq
  <2>7. QED
    BY <1>16, <1>ok, <1>fault, <2>4, <2>6 DEF TypeOK, Drop
<1>17. ASSUME NEW q \in Processes, Crash(q) PROVE TypeOK'
  <2> DEFINE W == {w \in Writers : Home[w] = q}
  <2>3. Reset(W) /\ W \in SUBSET Writers /\ flock' = IF flock \in W THEN NoOne ELSE flock
    BY <1>17 DEF Crash
  <2>4. /\ pc' \in [Writers -> {"idle", "called", "loading", "storing", "numbered",
                      "measuring", "rotating", "opening", "appending"}]
        /\ seq' \in [Writers -> Nat] /\ sound' \in [Writers -> BOOLEAN]
        /\ place' \in [Writers -> Places] /\ fd' \in [Writers -> 0 .. Len(content)]
    BY <1>ok, <2>3, ResetTyped
  <2>5. /\ \A w \in W : pc'[w] = "idle" /\ fd'[w] = 0
        /\ \A v \in Writers \ W : pc'[v] = pc[v] /\ fd'[v] = fd[v]
    BY <1>ok, <2>3, ResetTyped
  <2> HIDE DEF W
  <2>6. \A v \in Writers : (flock' = v => InSeq(v)') /\ (pc'[v] = "appending" <=> fd'[v] # 0)
    BY <1>ok, <2>3, <2>5 DEF TypeOK, InSeq
  <2>7. flock' \in Writers \cup {NoOne} /\ counter' \in [Processes -> [Peers -> Nat]]
        /\ seeded' \subseteq Processes /\ torn' \in BOOLEAN
    BY <1>17, <1>ok, <2>3 DEF Crash, TypeOK
  <2>8. QED
    BY <1>17, <1>ok, <1>fault, <2>4, <2>6, <2>7 DEF TypeOK, Crash
<1>18. CASE UNCHANGED vars
  BY <1>18, <1>ok DEF vars, TypeOK, InSeq
<1>19. QED
  BY <1>1, <1>2, <1>3, <1>4, <1>5, <1>6, <1>7, <1>8, <1>9, <1>10, <1>12, <1>13, <1>14,
     <1>15, <1>16, <1>17, <1>18 DEF Next, Step, Failure

\* The types hold, and the numbers in the files have a bound, as the files are
\* finite: the walk of the log (_load_seq_counters) finds a highest.
THEOREM TypesHold == Spec => []Typed
<1>1. Typed /\ [Next]_vars => Typed'
  BY TypeStep, BoundedStep DEF Typed
<1>2. QED
  BY TypedInit, <1>1, PTL DEF Spec

\* The files, the counters and the positions of the writers stay as they are
\* meant: a lock is held by a thread that numbers an event, and a file is open
\* exactly while a record is appended to it.
THEOREM WellTyped == Spec => []TypeOK
<1>1. Typed => TypeOK
  BY DEF Typed
<1>2. QED
  BY TypesHold, <1>1, PTL
-------------------------------------------------------------------------------
(***************************************************************************)
(* The numbers.                                                            *)
(***************************************************************************)

LEMMA ExclusiveStep == Typed /\ Exclusive /\ [Next]_vars => Exclusive'
<1> SUFFICES ASSUME Typed, Exclusive, [Next]_vars, ~degraded', NEW v \in Writers, InSeq(v)'
             PROVE  flock' = v
  BY DEF Exclusive
<1> USE NoOneAssumption DEF numbering, record, files
<1>pc. pc \in [Writers -> {"idle", "called", "loading", "storing", "numbered",
                "measuring", "rotating", "opening", "appending"}]
  BY DEF Typed, TypeOK
<1>ok. TypeOK
  BY DEF Typed
<1>1. ASSUME ~degraded, InSeq(v) PROVE flock = v
  BY <1>1 DEF Exclusive
<1>2. ASSUME NEW w \in Writers,
             Begin(w) \/ Spoil(w) \/ LockLog(w) \/ Measure(w) \/ Shift(w) \/ ShiftFails(w) \/ Open(w)
      PROVE  flock' = flock /\ degraded' = degraded /\ InSeq(v)
  <2>1. flock' = flock /\ degraded' = degraded
    BY <1>2 DEF Begin, Spoil, LockLog, Measure, Shift, ShiftFails, GoDown, Open
  <2>2. pc' = pc \/ \E l \in {"called", "measuring", "rotating", "opening", "appending"} :
                      pc' = [pc EXCEPT ![w] = l]
    BY <1>2 DEF Begin, Spoil, LockLog, Measure, Shift, ShiftFails, GoDown, Open, Goto
  <2>3. QED
    BY <1>pc, <2>1, <2>2 DEF InSeq
<1>3. ASSUME NEW w \in Writers, LockSeq(w) PROVE flock' = v
  <2>1. flock = NoOne /\ flock' = w /\ degraded' = degraded /\ pc' = [pc EXCEPT ![w] = "loading"]
    BY <1>3 DEF LockSeq, Goto
  <2>2. v # w => InSeq(v)
    BY <1>pc, <2>1 DEF InSeq
  <2>3. QED
    BY <1>1, <2>1, <2>2
<1>4. ASSUME NEW w \in Writers, LockSeqUnguarded(w) \/ StoreFails(w) PROVE FALSE
  BY <1>4 DEF LockSeqUnguarded, StoreFails
<1>5. ASSUME NEW w \in Writers, LockSeqFails(w) PROVE flock' = flock /\ degraded' = degraded /\ InSeq(v)
  BY <1>5, <1>pc DEF LockSeqFails, Goto, InSeq
<1>6. ASSUME NEW w \in Writers, Load(w) PROVE flock' = flock /\ degraded' = degraded /\ InSeq(v)
  <2>1. /\ flock' = flock /\ degraded' = degraded
        /\ pc[w] = "loading" /\ pc' = [pc EXCEPT ![w] = "storing"]
    BY <1>6 DEF Load, Goto
  <2>2. QED
    BY <1>pc, <2>1 DEF InSeq
<1>7. ASSUME NEW w \in Writers, Store(w) PROVE flock' = v
  <2>1. /\ degraded' = degraded /\ pc[w] = "storing" /\ pc' = [pc EXCEPT ![w] = "numbered"]
        /\ flock' = IF flock = w THEN NoOne ELSE flock
    BY <1>7 DEF Store, Take, Goto, Release
  <2>2. v # w /\ InSeq(v)
    BY <1>pc, <2>1 DEF InSeq
  <2>3. QED
    BY <1>1, <2>1, <2>2
<1>8. ASSUME NEW W \in SUBSET Writers, Reset(W), degraded' = degraded,
             flock' = flock \/ flock' = IF flock \in W THEN NoOne ELSE flock
      PROVE  flock' = v
  <2>1. v \notin W /\ InSeq(v)
    BY <1>8, <1>ok, ResetTyped DEF InSeq
  <2>2. QED
    BY <1>1, <1>8, <2>1
<1>9. ASSUME NEW w \in Writers, Write(w) \/ Drop(w)
      PROVE  {w} \in SUBSET Writers /\ Reset({w}) /\ degraded' = degraded /\ flock' = flock
  BY <1>9 DEF Write, Drop
<1>10. ASSUME NEW q \in Processes, Crash(q) PROVE flock' = v
  BY <1>8, <1>10 DEF Crash
<1>11. CASE UNCHANGED vars
  BY <1>1, <1>11 DEF vars, InSeq
<1>12. ASSUME NEW w \in Writers, Write(w) \/ Drop(w) PROVE flock' = v
  BY <1>8, <1>9, <1>12
<1>13. QED
  BY <1>1, <1>2, <1>3, <1>4, <1>5, <1>6, <1>7, <1>10, <1>11, <1>12 DEF Next, Step, Failure

\* What a process remembers once it has loaded is what is in the sidecar.
LEMMA Loaded ==
  ASSUME Typed, Exclusive, Covered, ~degraded, NEW w \in Writers, Load(w)
  PROVE  counter' = [counter EXCEPT ![Home[w]] = sidecar]
<1> DEFINE q == Home[w]
<1>1. Home[w] \in Processes
  BY WritersAssumption
<1>2. /\ counter \in [Processes -> [Peers -> Nat]] /\ sidecar \in [Peers -> Nat]
      /\ counter[q] \in [Peers -> Nat]
  BY <1>1 DEF Typed, TypeOK
<1>3. \A p \in Peers : /\ counter[q][p] \in Nat /\ sidecar[p] \in Nat
                       /\ counter[q][p] <= sidecar[p]
  BY <1>1, <1>2 DEF Covered
<1>4. CASE counter' = [counter EXCEPT ![q] = Later(@, sidecar)]
  <2>1. Later(counter[q], sidecar) = sidecar
    <3>1. \A p \in Peers : Later(counter[q], sidecar)[p] = sidecar[p]
      <4>1. \A p \in Peers : /\ Later(counter[q], sidecar)[p] >= sidecar[p]
                             /\ Later(counter[q], sidecar)[p] \in {counter[q][p], sidecar[p]}
        BY <1>2, LaterTyped
      <4>2. QED
        BY <1>3, <4>1
    <3>2. Later(counter[q], sidecar) \in [Peers -> Nat]
      BY <1>2, LaterTyped
    <3>3. QED
      BY <1>2, <3>1, <3>2
  <2>2. QED
    BY <1>1, <1>2, <1>4, <2>1
<1>5. ASSUME NEW F \in SUBSET Named, ~\E p \in Peers : sidecar[p] > counter[q][p],
             counter' = [counter EXCEPT ![q] = Later(@, [p \in Peers |-> Highest(F, p)])]
      PROVE  counter' = [counter EXCEPT ![q] = sidecar]
  <2> DEFINE g == [p \in Peers |-> Highest(F, p)]
  <2>1. ASSUME NEW p \in Peers PROVE g[p] \in 0 .. sidecar[p]
    <3>1. \A x \in AllLines : PeerOf(x) = p => Record(x).seq <= sidecar[p]
      BY DEF Covered
    <3>2. sidecar[p] \in Nat
      BY <1>2
    <3>3. Highest(F, p) \in 0 .. sidecar[p]
      BY <3>1, <3>2, HighestOf DEF Typed
    <3>4. QED
      BY <3>3
  <2>2. g \in [Peers -> Nat]
    BY <1>2, <2>1
  <2> HIDE DEF g
  <2>3. \A p \in Peers : counter[q][p] = sidecar[p]
    <3>1. ASSUME NEW p \in Peers PROVE counter[q][p] = sidecar[p]
      <4>1. ~(sidecar[p] > counter[q][p])
        BY <1>5
      <4>2. QED
        BY <1>3, <4>1
    <3>2. QED
      BY <3>1
  <2>4. \A p \in Peers : Later(counter[q], g)[p] = sidecar[p]
    BY <1>2, <2>1, <2>2, <2>3 DEF Later
  <2>5. Later(counter[q], g) \in [Peers -> Nat]
    BY <1>2, <2>2, LaterTyped
  <2>6. Later(counter[q], g) = sidecar
    BY <1>2, <2>4, <2>5
  <2>7. QED
    BY <1>1, <1>2, <1>5, <2>6 DEF g
<1>6. QED
  BY <1>4, <1>5 DEF Load

\* The number a writer takes is the one after the last of its peer.
LEMMA Stored ==
  ASSUME Typed, Exclusive, Covered, ~degraded, NEW w \in Writers, Store(w)
  PROVE  /\ sidecar' = [sidecar EXCEPT ![Peer[w]] = @ + 1]
         /\ counter' = [counter EXCEPT ![Home[w]] = sidecar']
         /\ seq' = [seq EXCEPT ![w] = sidecar[Peer[w]] + 1]
<1>1. Home[w] \in Processes /\ Peer[w] \in Peers
  BY WritersAssumption
<1>2. /\ counter \in [Processes -> [Peers -> Nat]] /\ sidecar \in [Peers -> Nat]
  BY DEF Typed, TypeOK
<1>3. counter[Home[w]] = sidecar
  BY DEF Store, Take, Covered
<1>4. /\ counter' = [counter EXCEPT ![Home[w]][Peer[w]] = @ + 1]
      /\ seq' = [seq EXCEPT ![w] = counter[Home[w]][Peer[w]] + 1]
      /\ sidecar' = counter'[Home[w]]
  BY DEF Store, Take
<1>5. QED
  BY <1>1, <1>2, <1>3, <1>4

\* Steps that neither give out a number nor load or store one.
Elsewhere(w) ==
  \/ Begin(w) \/ LockSeq(w) \/ LockSeqFails(w) \/ Spoil(w)
  \/ LockLog(w) \/ Measure(w) \/ Shift(w) \/ ShiftFails(w) \/ Open(w)

LEMMA ElsewhereKeeps ==
  ASSUME Typed, NEW w \in Writers, Elsewhere(w)
  PROVE  /\ sidecar' = sidecar /\ counter' = counter /\ seq' = seq /\ degraded' = degraded
         /\ \A v \in Writers : pc'[v] = "storing" => pc[v] = "storing"
         /\ ~\E v \in Writers : Write(v)
<1> USE DEF numbering, record, files
<1>1. sidecar' = sidecar /\ counter' = counter /\ seq' = seq /\ degraded' = degraded
  BY DEF Elsewhere, Begin, LockSeq, LockSeqFails, Spoil, LockLog, Measure, Shift, ShiftFails,
         GoDown, Open
<1>2. pc' = pc \/ \E l \in {"called", "loading", "numbered", "measuring", "rotating", "opening",
                            "appending"} : pc' = [pc EXCEPT ![w] = l]
  BY DEF Elsewhere, Begin, LockSeq, LockSeqFails, Spoil, LockLog, Measure, Shift, ShiftFails,
         GoDown, Open, Goto
<1>3. pc \in [Writers -> {"idle", "called", "loading", "storing", "numbered",
                 "measuring", "rotating", "opening", "appending"}]
  BY DEF Typed, TypeOK
<1>4. \A v \in Writers : pc'[v] = "storing" => pc[v] = "storing"
  BY <1>2, <1>3
<1>5. ASSUME NEW v \in Writers, Write(v) PROVE FALSE
  <2>1. pc[v] = "appending" /\ pc'[v] = "idle"
    BY <1>5 DEF Write, Reset
  <2>2. QED
    BY <1>2, <1>3, <2>1
<1>6. QED
  BY <1>1, <1>4, <1>5

LEMMA CoveredStep == Typed /\ Exclusive /\ Covered /\ [Next]_vars => Covered'
<1> SUFFICES ASSUME Typed, Exclusive, Covered, [Next]_vars, ~degraded'
             PROVE  /\ \A w \in Writers : seq'[w] <= sidecar'[Peer[w]]
                    /\ \A x \in AllLines' : Record(x)'.seq <= sidecar'[PeerOf(x)']
                    /\ \A q \in Processes, p \in Peers : counter'[q][p] <= sidecar'[p]
                    /\ \A w \in Writers : pc'[w] = "storing" => counter'[Home[w]] = sidecar'
  BY DEF Covered
<1> USE WritersAssumption, NoOneAssumption
<1>ok. TypeOK
  BY DEF Typed
<1>nat. /\ sidecar \in [Peers -> Nat] /\ seq \in [Writers -> Nat]
        /\ counter \in [Processes -> [Peers -> Nat]]
        /\ \A q \in Processes : counter[q] \in [Peers -> Nat]
        /\ \A x \in AllLines : /\ Record(x).seq \in Nat /\ Record(x).by \in Writers
                               /\ PeerOf(x) \in Peers
  BY <1>ok, RecordTyped DEF TypeOK, Records, PeerOf
<1>pc. pc \in [Writers -> {"idle", "called", "loading", "storing", "numbered",
                "measuring", "rotating", "opening", "appending"}]
  BY <1>ok DEF TypeOK
<1> DEFINE Kept == AllLines' = AllLines /\ \A x \in AllLines : Record(x)' = Record(x)
           Seqs == \A w \in Writers : seq'[w] <= sidecar'[Peer[w]]
           Marks == \A x \in AllLines' : Record(x)'.seq <= sidecar'[PeerOf(x)']
           Memory == \A q \in Processes, p \in Peers : counter'[q][p] <= sidecar'[p]
           Ready == \A w \in Writers : pc'[w] = "storing" => counter'[Home[w]] = sidecar'
<1>now. ASSUME ~degraded
        PROVE  /\ \A w \in Writers : seq[w] <= sidecar[Peer[w]]
               /\ \A x \in AllLines : Record(x).seq <= sidecar[PeerOf(x)]
               /\ \A q \in Processes, p \in Peers : counter[q][p] <= sidecar[p]
               /\ \A w \in Writers : pc[w] = "storing" => counter[Home[w]] = sidecar
               /\ \A v, w \in Writers : InSeq(v) /\ InSeq(w) => v = w
  BY <1>now DEF Covered, Exclusive
<1>lines. ASSUME ~degraded, Kept, \A p \in Peers : sidecar'[p] \in Nat /\ sidecar[p] <= sidecar'[p]
          PROVE  Marks
  <2>1. ASSUME NEW x \in AllLines PROVE Record(x)'.seq <= sidecar'[PeerOf(x)']
    <3>1. Record(x)' = Record(x) /\ PeerOf(x)' = PeerOf(x)
      BY <1>lines DEF PeerOf
    <3>2. Record(x).seq <= sidecar[PeerOf(x)] /\ sidecar[PeerOf(x)] \in Nat
      BY <1>nat, <1>now, <1>lines
    <3>3. QED
      BY <1>nat, <1>lines, <3>1, <3>2
  <2>2. QED
    BY <1>lines, <2>1
<1>1. ASSUME NEW w \in Writers, Elsewhere(w) PROVE Seqs /\ Marks /\ Memory /\ Ready
  <2>1. /\ sidecar' = sidecar /\ counter' = counter /\ seq' = seq /\ ~degraded
        /\ \A v \in Writers : pc'[v] = "storing" => pc[v] = "storing"
        /\ Kept
    BY <1>1, ElsewhereKeeps, LinesKept
  <2>2. Marks
    BY <1>nat, <1>lines, <2>1
  <2>3. QED
    BY <1>now, <2>1, <2>2
<1>2. ASSUME NEW w \in Writers, LockSeqUnguarded(w) \/ StoreFails(w) PROVE FALSE
  BY <1>2 DEF LockSeqUnguarded, StoreFails
<1>3. ASSUME NEW w \in Writers, Load(w) PROVE Seqs /\ Marks /\ Memory /\ Ready
  <2>1. /\ sidecar' = sidecar /\ seq' = seq /\ ~degraded
        /\ pc[w] = "loading" /\ pc' = [pc EXCEPT ![w] = "storing"]
    BY <1>3 DEF Load, Goto, record
  <2>2. counter' = [counter EXCEPT ![Home[w]] = sidecar]
    BY <1>3, <2>1, Loaded
  <2>3. Kept
    <3>1. \A v \in Writers : ~Write(v)
      BY <1>pc, <2>1 DEF Write, Reset
    <3>2. QED
      BY <3>1, LinesKept
  <2>4. Marks
    BY <1>nat, <1>lines, <2>1, <2>3
  <2>5. Memory
    BY <1>nat, <1>now, <2>1, <2>2
  <2>6. Ready
    <3>1. ASSUME NEW v \in Writers, pc'[v] = "storing" PROVE v = w
      BY <1>pc, <1>now, <2>1, <3>1 DEF InSeq
    <3>2. QED
      BY <1>nat, <2>1, <2>2, <3>1
  <2>7. QED
    BY <1>now, <2>1, <2>4, <2>5, <2>6
<1>4. ASSUME NEW w \in Writers, Store(w) PROVE Seqs /\ Marks /\ Memory /\ Ready
  <2>1. ~degraded /\ pc[w] = "storing" /\ pc' = [pc EXCEPT ![w] = "numbered"]
    BY <1>4 DEF Store, Take, Goto
  <2>2. /\ sidecar' = [sidecar EXCEPT ![Peer[w]] = @ + 1]
        /\ counter' = [counter EXCEPT ![Home[w]] = sidecar']
        /\ seq' = [seq EXCEPT ![w] = sidecar[Peer[w]] + 1]
    BY <1>4, <2>1, Stored
  <2>3. Kept
    <3>1. \A v \in Writers : ~Write(v)
      BY <1>pc, <2>1 DEF Write, Reset
    <3>2. QED
      BY <3>1, LinesKept
  <2>4. /\ \A p \in Peers : sidecar[p] \in Nat /\ sidecar'[p] \in Nat /\ sidecar[p] <= sidecar'[p]
        /\ sidecar'[Peer[w]] = sidecar[Peer[w]] + 1
    BY <1>nat, <2>2
  <2>5. Marks
    BY <1>lines, <2>1, <2>3, <2>4
  <2>6. Seqs
    <3>1. seq'[w] = sidecar'[Peer[w]] /\ sidecar'[Peer[w]] \in Nat
      BY <1>nat, <2>2, <2>4
    <3>2. ASSUME NEW v \in Writers \ {w} PROVE seq'[v] <= sidecar'[Peer[v]]
      <4>1. seq'[v] = seq[v] /\ seq[v] \in Nat /\ seq[v] <= sidecar[Peer[v]]
        BY <1>nat, <1>now, <2>1, <2>2
      <4>2. Peer[v] \in Peers
        OBVIOUS
      <4>3. QED
        BY <2>4, <4>1, <4>2
    <3>3. QED
      BY <3>1, <3>2
  <2>7. Memory
    <3>1. ASSUME NEW q \in Processes, NEW p \in Peers PROVE counter'[q][p] <= sidecar'[p]
      <4>1. CASE q = Home[w]
        BY <1>nat, <2>2, <2>4, <4>1
      <4>2. CASE q # Home[w]
        <5>1. counter'[q][p] = counter[q][p] /\ counter[q][p] \in Nat
              /\ counter[q][p] <= sidecar[p]
          BY <1>nat, <1>now, <2>1, <2>2, <4>2
        <5>2. QED
          BY <2>4, <5>1
      <4>3. QED
        BY <4>1, <4>2
    <3>2. QED
      BY <3>1
  <2>8. Ready
    BY <1>pc, <1>now, <2>1 DEF InSeq
  <2>9. QED
    BY <2>5, <2>6, <2>7, <2>8
<1>5. ASSUME NEW W \in SUBSET Writers, Reset(W), sidecar' = sidecar, ~degraded
      PROVE  /\ Seqs
             /\ \A v \in Writers : pc'[v] = "storing" => v \notin W /\ pc[v] = "storing"
  <2>1. /\ \A v \in W : pc'[v] = "idle" /\ seq'[v] = 0
        /\ \A v \in Writers \ W : pc'[v] = pc[v] /\ seq'[v] = seq[v]
    BY <1>5, <1>ok, ResetTyped
  <2>2. \A v \in Writers : sidecar[Peer[v]] \in Nat /\ seq[v] \in Nat
    BY <1>nat
  <2>3. Seqs
    BY <1>5, <1>now, <2>1, <2>2
  <2>4. QED
    BY <2>1, <2>3
<1>6. ASSUME NEW w \in Writers, Write(w) PROVE Seqs /\ Marks /\ Memory /\ Ready
  <2>1. /\ Reset({w}) /\ {w} \in SUBSET Writers
        /\ sidecar' = sidecar /\ counter' = counter /\ ~degraded
    BY <1>6 DEF Write, numbering
  <2>2. ASSUME NEW x \in AllLines' PROVE Record(x)'.seq <= sidecar'[PeerOf(x)']
    <3>1. CASE x \in AllLines
      <4>1. Record(x)' = Record(x) /\ PeerOf(x)' = PeerOf(x)
        BY <1>6, <3>1, LineWritten DEF PeerOf
      <4>2. QED
        BY <1>now, <2>1, <3>1, <4>1
    <3>2. CASE x = EndOf(w)
      <4>1. Record(x)'.seq = seq[w] /\ PeerOf(x)' = Peer[w]
        BY <1>6, <3>2, LineWritten DEF PeerOf
      <4>2. QED
        BY <1>now, <2>1, <4>1
    <3>3. QED
      BY <1>6, <3>1, <3>2, LineWritten
  <2>3. QED
    BY <1>5, <1>now, <2>1, <2>2
<1>7. ASSUME NEW w \in Writers, Drop(w) PROVE Seqs /\ Marks /\ Memory /\ Ready
  <2>1. /\ content' = content
        /\ sidecar' = sidecar /\ counter' = counter /\ ~degraded
    BY <1>7 DEF Drop, numbering, files
  <2>2. Reset({w}) /\ {w} \in SUBSET Writers /\ content' = content
    BY <1>7 DEF Drop, files
  <2>3. Kept
    BY <2>2 DEF AllLines, Record
  <2>4. Marks
    BY <1>nat, <1>lines, <2>1, <2>3
  <2>5. QED
    BY <1>5, <1>now, <2>1, <2>2, <2>4
<1>8. ASSUME NEW q \in Processes, Crash(q) PROVE Seqs /\ Marks /\ Memory /\ Ready
  <2> DEFINE W == {w \in Writers : Home[w] = q}
  <2>1. /\ Reset(W) /\ W \in SUBSET Writers /\ content' = content /\ sidecar' = sidecar /\ ~degraded
        /\ counter' = [counter EXCEPT ![q] = [p \in Peers |-> 0]]
    BY <1>8 DEF Crash
  <2>2. Kept
    BY <2>1 DEF AllLines, Record
  <2>3. Marks
    BY <1>nat, <1>lines, <2>1, <2>2
  <2>4. Memory
    BY <1>nat, <1>now, <2>1
  <2>5. Seqs /\ \A v \in Writers : pc'[v] = "storing" => v \notin W /\ pc[v] = "storing"
    BY <1>5, <2>1
  <2>6. Ready
    BY <1>nat, <1>now, <2>1, <2>5
  <2>7. QED
    BY <2>3, <2>4, <2>5, <2>6
<1>9. CASE UNCHANGED vars
  <2>1. /\ sidecar' = sidecar /\ counter' = counter /\ seq' = seq /\ ~degraded /\ pc' = pc
        /\ content' = content
    BY <1>9 DEF vars, numbering, record, files
  <2>2. Kept
    BY <2>1 DEF AllLines, Record
  <2>3. Marks
    BY <1>nat, <1>lines, <2>1, <2>2
  <2>4. QED
    BY <1>now, <2>1, <2>3
<1>10. QED
  BY <1>1, <1>2, <1>3, <1>4, <1>6, <1>7, <1>8, <1>9 DEF Next, Step, Failure, Elsewhere

LEMMA UniqueStep ==
  Typed /\ Exclusive /\ Covered /\ NumbersAreUnique /\ [Next]_vars => NumbersAreUnique'
<1> SUFFICES ASSUME Typed, Exclusive, Covered, NumbersAreUnique, [Next]_vars, ~degraded'
             PROVE  /\ \A v, w \in Writers :
                         seq'[w] # 0 /\ seq'[w] = seq'[v] /\ Peer[v] = Peer[w] => v = w
                    /\ \A x \in AllLines' : Record(x)'.seq # 0 =>
                         /\ \A w \in Writers : seq'[w] = Record(x)'.seq => Peer[w] # PeerOf(x)'
                         /\ \A y \in AllLines' :
                              Record(y)'.seq = Record(x)'.seq /\ PeerOf(y)' = PeerOf(x)' => x = y
  BY DEF NumbersAreUnique
<1> USE WritersAssumption, NoOneAssumption
<1>ok. TypeOK
  BY DEF Typed
<1>nat. /\ sidecar \in [Peers -> Nat] /\ seq \in [Writers -> Nat]
        /\ \A x \in AllLines : /\ Record(x).seq \in Nat /\ Record(x).by \in Writers
                               /\ PeerOf(x) \in Peers
  BY <1>ok, RecordTyped DEF TypeOK, Records, PeerOf
<1>sure. ~degraded
  BY DEF Next, Step, Failure, Begin, LockSeq, Load, Store, Take, LockLog, Measure, Shift, GoDown,
         Open, Write, LockSeqUnguarded, LockSeqFails, StoreFails, Spoil, ShiftFails, Drop, Crash,
         vars, numbering
<1>now. /\ \A v, w \in Writers :
             seq[w] # 0 /\ seq[w] = seq[v] /\ Peer[v] = Peer[w] => v = w
        /\ \A x \in AllLines : Record(x).seq # 0 =>
             /\ \A w \in Writers : seq[w] = Record(x).seq => Peer[w] # PeerOf(x)
             /\ \A y \in AllLines :
                  Record(y).seq = Record(x).seq /\ PeerOf(y) = PeerOf(x) => x = y
  BY <1>sure, Zenon DEF NumbersAreUnique
<1>max. /\ \A w \in Writers : seq[w] <= sidecar[Peer[w]]
        /\ \A x \in AllLines : Record(x).seq <= sidecar[PeerOf(x)]
  BY <1>sure DEF Covered
<1> DEFINE Given == \A v, w \in Writers :
                      seq'[w] # 0 /\ seq'[w] = seq'[v] /\ Peer[v] = Peer[w] => v = w
           Logged == \A x \in AllLines' : Record(x)'.seq # 0 =>
                       /\ \A w \in Writers : seq'[w] = Record(x)'.seq => Peer[w] # PeerOf(x)'
                       /\ \A y \in AllLines' :
                            Record(y)'.seq = Record(x)'.seq /\ PeerOf(y)' = PeerOf(x)' => x = y
\* No number is given out: each writer keeps its number or drops it.
<1>1. ASSUME \A w \in Writers : seq'[w] \in {0, seq[w]} PROVE Given
  BY <1>1, <1>now
<1>2. ASSUME \A w \in Writers : seq'[w] \in {0, seq[w]},
             \A w \in Writers : ~Write(w)
      PROVE  Logged
  <2>1. AllLines' = AllLines /\ \A x \in AllLines : Record(x)' = Record(x) /\ PeerOf(x)' = PeerOf(x)
    BY <1>2, LinesKept DEF PeerOf
  <2>2. QED
    BY <1>2, <1>now, <2>1
<1>3. ASSUME NEW w \in Writers, Store(w) PROVE Given /\ Logged
  <2>1. seq' = [seq EXCEPT ![w] = sidecar[Peer[w]] + 1]
    BY <1>3, <1>sure, Stored
  <2>2. \A v \in Writers : ~Write(v)
    <3>1. /\ pc' = [pc EXCEPT ![w] = "numbered"]
          /\ pc \in [Writers -> {"idle", "called", "loading", "storing", "numbered",
                      "measuring", "rotating", "opening", "appending"}]
      BY <1>3, <1>ok DEF Store, Take, Goto, TypeOK
    <3>2. QED
      BY <3>1 DEF Write, Reset
  <2>3. AllLines' = AllLines /\ \A x \in AllLines : Record(x)' = Record(x) /\ PeerOf(x)' = PeerOf(x)
    BY <2>2, LinesKept DEF PeerOf
  <2>4. \A v \in Writers : Peer[v] \in Peers /\ sidecar[Peer[v]] \in Nat /\ seq[v] \in Nat
    BY <1>nat
  <2>5. \A v \in Writers \ {w} : seq'[v] = seq[v] /\ (Peer[v] = Peer[w] => seq'[v] < seq'[w])
    BY <1>nat, <1>max, <2>1, <2>4
  <2>6. \A v \in Writers \ {w} : Peer[v] = Peer[w] => seq'[v] # seq'[w]
    BY <1>nat, <2>1, <2>4, <2>5
  <2>7. Given
    BY <1>now, <2>5, <2>6
  <2>8. \A x \in AllLines : PeerOf(x) = Peer[w] => Record(x).seq # seq'[w]
    BY <1>nat, <1>max, <2>1, <2>4
  <2>9. Logged
    <3>1. ASSUME NEW x \in AllLines, Record(x).seq # 0, NEW v \in Writers, seq'[v] = Record(x).seq
          PROVE  Peer[v] # PeerOf(x)
      BY <1>now, <2>5, <2>8, <3>1
    <3>2. QED
      BY <1>now, <2>3, <3>1
  <2>10. QED
    BY <2>7, <2>9
<1>4. ASSUME NEW W \in SUBSET Writers, Reset(W) PROVE \A w \in Writers : seq'[w] \in {0, seq[w]}
  BY <1>4, <1>ok, ResetTyped
<1>5. ASSUME NEW w \in Writers, Write(w) PROVE Given /\ Logged
  <2>1. {w} \in SUBSET Writers /\ Reset({w})
    BY <1>5 DEF Write
  <2>2. seq'[w] = 0 /\ \A v \in Writers \ {w} : seq'[v] = seq[v]
    BY <1>ok, <2>1, ResetTyped
  <2>3. /\ AllLines' = AllLines \cup {EndOf(w)} /\ EndOf(w) \notin AllLines
        /\ \A x \in AllLines : Record(x)' = Record(x) /\ PeerOf(x)' = PeerOf(x)
        /\ \A x : x = EndOf(w) => Record(x)'.seq = seq[w] /\ PeerOf(x)' = Peer[w]
    BY <1>5, LineWritten DEF PeerOf
  <2> DEFINE Fits(x) ==
               /\ \A v \in Writers : seq'[v] = Record(x)'.seq => Peer[v] # PeerOf(x)'
               /\ \A y \in AllLines' :
                    Record(y)'.seq = Record(x)'.seq /\ PeerOf(y)' = PeerOf(x)' => x = y
  <2>4. ASSUME NEW x \in AllLines, Record(x)'.seq # 0 PROVE Fits(x)
    <3>1. Record(x)' = Record(x) /\ PeerOf(x)' = PeerOf(x)
      BY <2>3
    <3>2. \A v \in Writers : seq'[v] = Record(x)'.seq => Peer[v] # PeerOf(x)'
      BY <1>now, <2>2, <2>4, <3>1
    <3>3. ASSUME NEW y \in AllLines', Record(y)'.seq = Record(x)'.seq, PeerOf(y)' = PeerOf(x)'
          PROVE  x = y
      BY <1>now, <2>3, <2>4, <3>1, <3>3
    <3>4. QED
      BY <3>2, <3>3
  <2>5. ASSUME NEW x, x = EndOf(w), Record(x)'.seq # 0 PROVE Fits(x)
    <3>1. Record(x)'.seq = seq[w] /\ PeerOf(x)' = Peer[w] /\ seq[w] # 0
      BY <2>3, <2>5
    <3>2. \A v \in Writers : seq'[v] = Record(x)'.seq => Peer[v] # PeerOf(x)'
      BY <1>now, <2>2, <3>1
    <3>3. ASSUME NEW y \in AllLines', Record(y)'.seq = Record(x)'.seq, PeerOf(y)' = PeerOf(x)'
          PROVE  x = y
      <4>1. y \notin AllLines
        BY <1>now, <2>3, <3>1, <3>3
      <4>2. QED
        BY <2>3, <2>5, <4>1
    <3>4. QED
      BY <3>2, <3>3
  <2>6. Logged
    BY <2>3, <2>4, <2>5
  <2>7. Given
    BY <1>1, <1>4, <2>1
  <2>8. QED
    BY <2>6, <2>7
<1>6. ASSUME NEW w \in Writers,
             Elsewhere(w) \/ Load(w) \/ LockSeqUnguarded(w) \/ StoreFails(w) \/ Drop(w)
      PROVE  \A v \in Writers : seq'[v] \in {0, seq[v]}
  <2>1. ~LockSeqUnguarded(w) /\ ~StoreFails(w)
    BY DEF LockSeqUnguarded, StoreFails
  <2>2. Elsewhere(w) \/ Load(w) => seq' = seq
    BY ElsewhereKeeps DEF Load, record
  <2>3. Drop(w) => {w} \in SUBSET Writers /\ Reset({w})
    BY DEF Drop
  <2>4. QED
    BY <1>4, <1>6, <2>1, <2>2, <2>3
<1>7. ASSUME NEW q \in Processes, Crash(q) PROVE \A v \in Writers : seq'[v] \in {0, seq[v]}
  <2> DEFINE W == {w \in Writers : Home[w] = q}
  <2>1. Reset(W) /\ W \in SUBSET Writers
    BY <1>7 DEF Crash
  <2>2. QED
    BY <1>4, <2>1
<1>8. QED
  <2>1. CASE \E w \in Writers : Write(w)
    BY <1>5, <2>1
  <2>2. CASE \E w \in Writers : Store(w)
    BY <1>3, <2>2
  <2>3. CASE UNCHANGED vars /\ \A w \in Writers : ~Write(w)
    <3>1. \A v \in Writers : seq'[v] \in {0, seq[v]}
      BY <2>3 DEF vars, record
    <3>2. QED
      BY <1>1, <1>2, <2>3, <3>1
  <2>4. CASE Next /\ (\A w \in Writers : ~Write(w) /\ ~Store(w))
    <3>1. \A v \in Writers : seq'[v] \in {0, seq[v]}
      BY <1>6, <1>7, <2>4 DEF Next, Step, Failure, Elsewhere
    <3>2. QED
      BY <1>1, <1>2, <2>4, <3>1
  <2>5. QED
    BY <2>1, <2>2, <2>3, <2>4

LEMMA NumbersInit == Init => Exclusive /\ Covered /\ NumbersAreUnique
<1> SUFFICES ASSUME Init PROVE Exclusive /\ Covered /\ NumbersAreUnique
  OBVIOUS
<1>1. AllLines = {}
  BY DEF Init, AllLines
<1>2. Exclusive
  BY DEF Init, Exclusive, InSeq
<1>3. Covered
  BY <1>1, WritersAssumption DEF Init, Covered
<1>4. NumbersAreUnique
  BY <1>1 DEF Init, NumbersAreUnique
<1>5. QED
  BY <1>2, <1>3, <1>4

Numbered == Typed /\ Exclusive /\ Covered /\ NumbersAreUnique

\* What a number rests on: one thread at a time between the load and the store
\* (_seq_flock), and a sidecar that is never behind (_persist_seq_counters).
THEOREM NumberedAlways == Spec => []Numbered
<1>1. Init => Numbered
  BY TypedInit, NumbersInit DEF Numbered
<1>2. Numbered /\ [Next]_vars => Numbered'
  BY TypeStep, BoundedStep, ExclusiveStep, CoveredStep, UniqueStep DEF Numbered, Typed
<1>3. QED
  BY <1>1, <1>2, PTL DEF Spec

\* While the lock and the sidecar work, no number of a peer is used twice.
THEOREM UniqueNumbers == Spec => []NumbersAreUnique
<1>1. Numbered => NumbersAreUnique
  BY DEF Numbered
<1>2. QED
  BY NumberedAlways, <1>1, PTL

\* While they work, no number of a peer is skipped either.
THEOREM ConsecutiveNumbers == Spec => NumbersAreConsecutive
<1> DEFINE Given == ~degraded' /\ sidecar' # sidecar =>
              \E w \in Writers :
                /\ sidecar' = [sidecar EXCEPT ![Peer[w]] = @ + 1]
                /\ seq'[w] = sidecar'[Peer[w]]
<1>1. Numbered /\ [Next]_vars => [Given]_vars
  <2> SUFFICES ASSUME Numbered, Next, ~degraded', sidecar' # sidecar
               PROVE  \E w \in Writers :
                        /\ sidecar' = [sidecar EXCEPT ![Peer[w]] = @ + 1]
                        /\ seq'[w] = sidecar'[Peer[w]]
    OBVIOUS
  <2>1. PICK w \in Writers : Store(w)
    BY DEF Next, Step, Failure, Begin, LockSeq, Load, LockLog, Measure, Shift, GoDown, Open,
           Write, LockSeqUnguarded, LockSeqFails, StoreFails, Spoil, ShiftFails, Drop, Crash,
           numbering
  <2>2. ~degraded
    BY <2>1 DEF Store
  <2>3. /\ sidecar' = [sidecar EXCEPT ![Peer[w]] = @ + 1]
        /\ seq' = [seq EXCEPT ![w] = sidecar[Peer[w]] + 1]
    BY <2>1, <2>2, Stored DEF Numbered
  <2>4. Peer[w] \in Peers /\ sidecar \in [Peers -> Nat] /\ seq \in [Writers -> Nat]
    BY WritersAssumption DEF Numbered, Typed, TypeOK
  <2>5. QED
    BY <2>3, <2>4
<1>2. QED
  BY NumberedAlways, <1>1, PTL DEF Spec, NumbersAreConsecutive
-------------------------------------------------------------------------------
(***************************************************************************)
(* The order of the records.                                               *)
(***************************************************************************)

Pcs == {"idle", "called", "loading", "storing", "numbered",
        "measuring", "rotating", "opening", "appending"}
Late == {"numbered", "measuring", "rotating", "opening", "appending"}

LEMMA SoundStep == Typed /\ Sound /\ [Next]_vars => Sound'
<1> SUFFICES ASSUME Typed, Sound, [Next]_vars PROVE Sound'
  OBVIOUS
<1> USE WritersAssumption DEF numbering, record, files
<1>ok. TypeOK
  BY DEF Typed
<1>pc. /\ pc \in [Writers -> Pcs] /\ seq \in [Writers -> Nat] /\ sound \in [Writers -> BOOLEAN]
       /\ counter \in [Processes -> [Peers -> Nat]]
  BY <1>ok DEF TypeOK, Pcs
<1>now. \A v \in Writers : pc[v] \in Late /\ sound[v] => seq[v] # 0
  BY DEF Sound, Late
<1> DEFINE Good == \A v \in Writers : pc'[v] \in Late /\ sound'[v] => seq'[v] # 0
<1>1. \A x \in AllLines' : Record(x)'.sound => Record(x)'.seq # 0
  <2>1. ASSUME NEW w \in Writers, Write(w), NEW x \in AllLines', Record(x)'.sound
        PROVE  Record(x)'.seq # 0
    <3>1. CASE x \in AllLines
      BY <2>1, <3>1, LineWritten DEF Sound
    <3>2. CASE x = EndOf(w)
      <4>r. Record(x)' = [by |-> w, seq |-> seq[w], sound |-> sound[w]]
        BY <2>1, <3>2, LineWritten
      <4>1. (Record(x)'.sound => sound[w]) /\ Record(x)'.seq = seq[w]
        BY <4>r
      <4>2. pc[w] = "appending"
        BY <2>1 DEF Write
      <4>3. QED
        BY <1>now, <2>1, <4>1, <4>2 DEF Late
    <3>3. QED
      BY <2>1, <3>1, <3>2, LineWritten
  <2>2. CASE \A w \in Writers : ~Write(w)
    BY <2>2, LinesKept DEF Sound
  <2>3. QED
    BY <2>1, <2>2
<1>2. ASSUME NEW w \in Writers,
             \/ Begin(w) \/ LockSeq(w) \/ LockSeqUnguarded(w) \/ Load(w)
             \/ LockLog(w) \/ Measure(w) \/ Shift(w) \/ ShiftFails(w) \/ Open(w)
      PROVE  Good
  <2>1. seq' = seq /\ sound' = sound
    BY <1>2 DEF Begin, LockSeq, LockSeqUnguarded, Load, LockLog, Measure, Shift, ShiftFails, GoDown,
           Open
  <2>2. \/ pc' = pc
        \/ \E l \in {"called", "loading", "storing"} : pc' = [pc EXCEPT ![w] = l]
        \/ pc[w] \in Late /\ \E l \in Late : pc' = [pc EXCEPT ![w] = l]
    BY <1>2 DEF Begin, LockSeq, LockSeqUnguarded, Load, LockLog, Measure, Shift, ShiftFails, GoDown,
           Open, Goto, Late
  <2>3. \A v \in Writers : pc'[v] \in Late => pc[v] \in Late
    BY <1>pc, <2>2 DEF Late
  <2>4. QED
    BY <1>now, <2>1, <2>3
<1>3. ASSUME NEW w \in Writers, LockSeqFails(w) \/ Spoil(w) PROVE Good
  <2>1. /\ sound' = [sound EXCEPT ![w] = FALSE] /\ seq' = seq
        /\ pc' = pc \/ pc' = [pc EXCEPT ![w] = "numbered"]
    BY <1>3 DEF LockSeqFails, Spoil, Goto
  <2>2. ~sound'[w]
    BY <1>pc, <2>1
  <2>3. \A v \in Writers \ {w} : pc'[v] = pc[v] /\ sound'[v] = sound[v]
    BY <1>pc, <2>1
  <2>4. QED
    BY <1>now, <2>1, <2>2, <2>3
<1>4. ASSUME NEW w \in Writers, Store(w) \/ StoreFails(w) PROVE Good
  <2>1. /\ sound' = sound /\ pc' = [pc EXCEPT ![w] = "numbered"]
        /\ seq' = [seq EXCEPT ![w] = counter[Home[w]][Peer[w]] + 1]
    BY <1>4 DEF Store, StoreFails, Take, Goto
  <2>2. counter[Home[w]][Peer[w]] \in Nat
    BY <1>pc
  <2>3. seq'[w] # 0 /\ \A v \in Writers \ {w} : pc'[v] = pc[v] /\ seq'[v] = seq[v]
    BY <1>pc, <2>1, <2>2
  <2>4. QED
    BY <1>now, <2>1, <2>3
<1>5. ASSUME NEW W \in SUBSET Writers, Reset(W) PROVE Good
  <2>1. /\ \A v \in W : pc'[v] = "idle"
        /\ \A v \in Writers \ W : pc'[v] = pc[v] /\ seq'[v] = seq[v] /\ sound'[v] = sound[v]
    BY <1>5, <1>ok, ResetTyped
  <2>2. QED
    BY <1>now, <2>1 DEF Late
<1>6. ASSUME NEW w \in Writers, Write(w) \/ Drop(w) PROVE Good
  <2>1. Reset({w}) /\ {w} \in SUBSET Writers
    BY <1>6 DEF Write, Drop
  <2>2. QED
    BY <1>5, <2>1
<1>7. ASSUME NEW q \in Processes, Crash(q) PROVE Good
  <2> DEFINE W == {w \in Writers : Home[w] = q}
  <2>1. Reset(W) /\ W \in SUBSET Writers
    BY <1>7 DEF Crash
  <2>2. QED
    BY <1>5, <2>1
<1>8. ASSUME UNCHANGED vars PROVE Good
  <2>1. pc' = pc /\ seq' = seq /\ sound' = sound
    BY <1>8 DEF vars
  <2>2. QED
    BY <1>now, <2>1
<1> HIDE DEF Good
<1>9. Good
  BY <1>2, <1>3, <1>4, <1>6, <1>7, <1>8 DEF Next, Step, Failure
<1>10. QED
  BY <1>1, <1>9, Zenon DEF Sound, Late, Good

\* A shift moves one file up by one place, or removes the one that is highest.
LEMMA Shifted ==
  ASSUME TypeOK, NEW w \in Writers, Shift(w)
  PROVE  /\ place[w] \in Places
         /\ \A n \in Places :
              dir'[n] = IF n = place[w] THEN 0
                        ELSE IF n = place[w] + 1 /\ dir[place[w]] # 0 THEN dir[place[w]]
                        ELSE dir[n]
<1> DEFINE k == place[w]
<1>1. k \in 0 .. MaxFiles /\ dir \in [Places -> 0 .. Len(content)] /\ Places = 0 .. MaxFiles
  BY DEF TypeOK, Places
<1>2. CASE dir[k] = 0
  <2>1. dir' = dir
    BY <1>2 DEF Shift
  <2>2. QED
    BY <1>1, <1>2, <2>1
<1>3. CASE dir[k] # 0 /\ k = MaxFiles
  <2>1. dir' = [dir EXCEPT ![k] = 0]
    BY <1>3 DEF Shift
  <2>2. QED
    BY <1>1, <1>3, <2>1, NumbersAssumption
<1>4. CASE dir[k] # 0 /\ k # MaxFiles
  <2>1. dir' = [dir EXCEPT ![k + 1] = dir[k], ![k] = 0]
    BY <1>4 DEF Shift
  <2>2. k + 1 \in Places /\ k + 1 # k
    BY <1>1, <1>4, NumbersAssumption
  <2>3. QED
    BY <1>1, <1>4, <2>1, <2>2
<1>5. QED
  BY <1>2, <1>3, <1>4

LEMMA OrderedStep == Typed /\ Ordered /\ [Next]_vars => Ordered'
<1> SUFFICES ASSUME Typed, Ordered, [Next]_vars PROVE Ordered'
  OBVIOUS
<1>ok. TypeOK
  BY DEF Typed
<1>dir. /\ Len(content) \in Nat /\ 0 \in Places /\ Places = 0 .. MaxFiles /\ MaxFiles \in Nat
        /\ \A n \in Places : dir[n] \in 0 .. Len(content)
        /\ dir \in [Places -> 0 .. Len(content)]
  BY <1>ok, NamedAreFiles, NumbersAssumption DEF TypeOK, Places
<1>now. /\ dir[0] \in {0, Len(content)}
        /\ \A m, n \in Places : m < n /\ dir[m] # 0 /\ dir[n] # 0 => dir[m] > dir[n]
  BY DEF Ordered
<1>1. ASSUME Create PROVE Ordered'
  <2>1. CASE dir[0] = 0
    <3>1. dir' = [dir EXCEPT ![0] = Len(content) + 1] /\ Len(content') = Len(content) + 1
      BY <1>1, <1>ok, <2>1, Created DEF Create, TypeOK
    <3>2. dir'[0] = Len(content') /\ \A n \in Places \ {0} : dir'[n] = dir[n]
      BY <1>dir, <3>1
    <3>3. ASSUME NEW m \in Places, NEW n \in Places, m < n, dir'[m] # 0, dir'[n] # 0
          PROVE  dir'[m] > dir'[n]
      <4>1. n # 0
        BY <1>dir, <3>3
      <4>2. QED
        BY <1>dir, <1>now, <3>1, <3>2, <3>3, <4>1
    <3>4. QED
      BY <3>2, <3>3 DEF Ordered
  <2>2. CASE dir[0] # 0
    BY <1>1, <2>2 DEF Create, Ordered
  <2>3. QED
    BY <2>1, <2>2
<1>2. ASSUME NEW w \in Writers, Shift(w) PROVE Ordered'
  <2> DEFINE k == place[w]
  <2>1. /\ k \in Places
        /\ \A n \in Places : dir'[n] = IF n = k THEN 0
                                       ELSE IF n = k + 1 /\ dir[k] # 0 THEN dir[k]
                                       ELSE dir[n]
    BY <1>2, <1>ok, Shifted
  <2> HIDE DEF k
  <2>2. content' = content
    BY <1>2 DEF Shift, GoDown
  <2>3. dir'[0] \in {0, Len(content)}
    BY <1>dir, <1>now, <2>1
  <2>4. ASSUME NEW m \in Places, NEW n \in Places, m < n, dir'[m] # 0, dir'[n] # 0
        PROVE  dir'[m] > dir'[n]
    <3>1. m # k /\ n # k /\ k \in 0 .. MaxFiles /\ m \in 0 .. MaxFiles /\ n \in 0 .. MaxFiles
      BY <1>dir, <2>1, <2>4
    <3>2. CASE m = k + 1 /\ dir[k] # 0
      <4>1. n > k /\ n # k + 1 /\ k < n
        BY <2>4, <3>1, <3>2
      <4>2. dir'[n] = dir[n] /\ dir'[m] = dir[k]
        BY <2>1, <3>1, <3>2, <4>1
      <4>3. QED
        BY <1>now, <2>1, <2>4, <3>2, <4>1, <4>2
    <3>3. CASE n = k + 1 /\ dir[k] # 0
      <4>1. m < k
        BY <2>4, <3>1, <3>3
      <4>2. dir'[n] = dir[k] /\ dir'[m] = dir[m]
        BY <2>1, <3>1, <3>3, <4>1
      <4>3. QED
        BY <1>now, <2>1, <2>4, <3>3, <4>1, <4>2
    <3>4. CASE ~(m = k + 1 /\ dir[k] # 0) /\ ~(n = k + 1 /\ dir[k] # 0)
      BY <1>now, <2>1, <2>4, <3>1, <3>4
    <3>5. QED
      BY <3>2, <3>3, <3>4
  <2>5. QED
    BY <2>2, <2>3, <2>4 DEF Ordered
<1>3. ASSUME NEW w \in Writers, Write(w) PROVE Ordered'
  <2>1. Len(content') = Len(content) /\ dir' = dir
    <3>1. fd[w] \in 1 .. Len(content) /\ seq[w] \in Nat /\ sound[w] \in BOOLEAN
          /\ content \in Seq(Seq(Records))
      BY <1>3, <1>ok, NamedAreFiles DEF TypeOK, Write
    <3>2. QED
      BY <1>3, <3>1, Written DEF Write
  <2>2. QED
    BY <2>1 DEF Ordered
<1>4. ASSUME dir' = dir, content' = content PROVE Ordered'
  BY <1>4 DEF Ordered
<1>5. ASSUME NEW w \in Writers,
             \/ Begin(w) \/ LockSeq(w) \/ LockSeqUnguarded(w) \/ LockSeqFails(w) \/ Load(w)
             \/ Store(w) \/ StoreFails(w) \/ Spoil(w) \/ Measure(w) \/ ShiftFails(w) \/ Drop(w)
      PROVE  dir' = dir /\ content' = content
  BY <1>5 DEF Begin, LockSeq, LockSeqUnguarded, LockSeqFails, Load, Store, StoreFails, Take, Spoil,
         Measure, ShiftFails, GoDown, Drop, files
<1>6. ASSUME NEW w \in Writers, LockLog(w) \/ Open(w) PROVE Create
  BY <1>6 DEF LockLog, Open
<1>7. ASSUME NEW q \in Processes, Crash(q) PROVE dir' = dir /\ content' = content
  BY <1>7 DEF Crash
<1>8. CASE UNCHANGED vars
  BY <1>4, <1>8 DEF vars, files
<1>9. QED
  BY <1>1, <1>2, <1>3, <1>4, <1>5, <1>6, <1>7, <1>8 DEF Next, Step, Failure

\* No step but an opening gives a writer a file, and no step but a store gives
\* it a number, while the lock and the sidecar work.
LEMMA OnlyOpening ==
  ASSUME Typed, [Next]_vars, \A w \in Writers : ~Open(w)
  PROVE  \A v \in Writers : fd'[v] \in {0, fd[v]}
<1>ok. TypeOK
  BY DEF Typed
<1>1. ASSUME NEW w \in Writers, Begin(w) \/ Step(w) \/ Failure(w), ~Write(w), ~Drop(w)
      PROVE  fd' = fd
  BY <1>1 DEF Step, Failure, Begin, LockSeq, LockSeqUnguarded, LockSeqFails, Load, Store, StoreFails,
         Take, Spoil, LockLog, Measure, Shift, ShiftFails, GoDown
<1>2. ASSUME NEW W \in SUBSET Writers, Reset(W) PROVE \A v \in Writers : fd'[v] \in {0, fd[v]}
  BY <1>2, <1>ok, ResetTyped
<1>3. ASSUME NEW w \in Writers, Write(w) \/ Drop(w) PROVE {w} \in SUBSET Writers /\ Reset({w})
  BY <1>3 DEF Write, Drop
<1>4. ASSUME NEW q \in Processes, Crash(q)
      PROVE  \A v \in Writers : fd'[v] \in {0, fd[v]}
  <2> DEFINE W == {w \in Writers : Home[w] = q}
  <2>1. Reset(W) /\ W \in SUBSET Writers
    BY <1>4 DEF Crash
  <2>2. QED
    BY <1>2, <2>1
<1>5. ASSUME NEW w \in Writers, Write(w) \/ Drop(w) PROVE \A v \in Writers : fd'[v] \in {0, fd[v]}
  BY <1>2, <1>3, <1>5
<1>6. ASSUME UNCHANGED vars PROVE fd' = fd
  BY <1>6 DEF vars
<1>7. QED
  BY <1>1, <1>4, <1>5, <1>6 DEF Next

LEMMA OnlyStoring ==
  ASSUME Typed, [Next]_vars, ~degraded', \A w \in Writers : ~Store(w)
  PROVE  \A v \in Writers : seq'[v] \in {0, seq[v]}
<1>ok. TypeOK
  BY DEF Typed
<1>1. ASSUME NEW w \in Writers, Begin(w) \/ Step(w) \/ Failure(w), ~Write(w), ~Drop(w)
      PROVE  seq' = seq
  BY <1>1 DEF Step, Failure, Begin, LockSeq, LockSeqUnguarded, LockSeqFails, Load, StoreFails,
         Spoil, LockLog, Measure, Shift, ShiftFails, GoDown, Open, record
<1>2. ASSUME NEW W \in SUBSET Writers, Reset(W) PROVE \A v \in Writers : seq'[v] \in {0, seq[v]}
  BY <1>2, <1>ok, ResetTyped
<1>3. ASSUME NEW w \in Writers, Write(w) \/ Drop(w) PROVE {w} \in SUBSET Writers /\ Reset({w})
  BY <1>3 DEF Write, Drop
<1>4. ASSUME NEW q \in Processes, Crash(q)
      PROVE  \A v \in Writers : seq'[v] \in {0, seq[v]}
  <2> DEFINE W == {w \in Writers : Home[w] = q}
  <2>1. Reset(W) /\ W \in SUBSET Writers
    BY <1>4 DEF Crash
  <2>2. QED
    BY <1>2, <2>1
<1>5. ASSUME NEW w \in Writers, Write(w) \/ Drop(w) PROVE \A v \in Writers : seq'[v] \in {0, seq[v]}
  BY <1>2, <1>3, <1>5
<1>6. ASSUME UNCHANGED vars PROVE seq' = seq
  BY <1>6 DEF vars, record
<1>7. QED
  BY <1>1, <1>4, <1>5, <1>6 DEF Next

LEMMA OnceDegraded == [Next]_vars /\ ~degraded' => ~degraded
BY DEF Next, Step, Failure, Begin, LockSeq, Load, Store, Take, LockLog, Measure, Shift, GoDown,
       Open, Write, LockSeqUnguarded, LockSeqFails, StoreFails, Spoil, ShiftFails, Drop, Crash,
       vars, numbering

LEMMA ChronicleStep ==
  Numbered /\ Ordered /\ Chronicle /\ [Next]_vars => Chronicle'
<1> SUFFICES ASSUME Numbered, Ordered, Chronicle, [Next]_vars PROVE Chronicle'
  OBVIOUS
<1>typed. Typed /\ TypeOK
  BY DEF Numbered, Typed
<1>nat. /\ seq \in [Writers -> Nat] /\ sidecar \in [Peers -> Nat] /\ Len(content) \in Nat
        /\ \A x \in AllLines : /\ Record(x).seq \in Nat /\ Record(x).by \in Writers
                               /\ x[1] \in 1 .. Len(content)
                               /\ x[2] \in 1 .. Len(content[x[1]]) /\ Len(content[x[1]]) \in Nat
        /\ \A w \in Writers : fd[w] \in 0 .. Len(content)
  <2>1. \A x \in AllLines : Record(x) \in Records
    BY <1>typed, RecordTyped
  <2>2. \A x \in AllLines : /\ x[1] \in 1 .. Len(content)
                            /\ x[2] \in 1 .. Len(content[x[1]]) /\ Len(content[x[1]]) \in Nat
    BY <1>typed, LineOf, LenProperties DEF TypeOK, AllLines, LinesOf
  <2>3. QED
    BY <1>typed, <2>1, <2>2, NamedAreFiles DEF Records, TypeOK
<1> DEFINE Below == \A v \in Writers : fd'[v] # 0 =>
                      \A x \in AllLines' : Record(x)'.by = v => x[1] <= fd'[v]
           Newest == \A v \in Writers : seq'[v] # 0 =>
                       \A x \in AllLines' : Record(x)'.by = v => Record(x)'.seq < seq'[v]
           Rising == \A x, y \in AllLines' :
                       /\ Earlier(x, y)
                       /\ Record(x)'.by = Record(y)'.by
                       /\ Record(x)'.seq # 0 /\ Record(y)'.seq # 0
                       => Record(x)'.seq < Record(y)'.seq
<1>below. \A v \in Writers : fd[v] # 0 =>
            \A x \in AllLines : Record(x).by = v => x[1] <= fd[v]
  BY DEF Chronicle
<1>now. ASSUME ~degraded
        PROVE  /\ \A v \in Writers : seq[v] # 0 =>
                    \A x \in AllLines : Record(x).by = v => Record(x).seq < seq[v]
               /\ \A x, y \in AllLines :
                    /\ Earlier(x, y)
                    /\ Record(x).by = Record(y).by
                    /\ Record(x).seq # 0 /\ Record(y).seq # 0
                    => Record(x).seq < Record(y).seq
  BY <1>now, Zenon DEF Chronicle
<1>1. ASSUME \A w \in Writers : ~Write(w) PROVE Below /\ (~degraded' => Newest /\ Rising)
  <2>1. AllLines' = AllLines /\ \A x \in AllLines : Record(x)' = Record(x)
    BY <1>1, <1>typed, LinesKept
  <2>2. Below
    <3>1. ASSUME NEW w \in Writers, Open(w) PROVE Below
      <4>1. fd' = [fd EXCEPT ![w] = dir'[0]] /\ Create
        BY <3>1 DEF Open
      <4>2. Len(content) \in Nat /\ dir'[0] >= Len(content) /\ dir'[0] \in Nat
        <5>1. CASE dir[0] = 0
          <6>1. dir' = [dir EXCEPT ![0] = Len(content) + 1]
            BY <4>1, <5>1 DEF Create
          <6>2. dir'[0] = Len(content) + 1
            BY <1>typed, <6>1, NumbersAssumption DEF TypeOK, Places
          <6>3. QED
            BY <1>nat, <6>2
        <5>2. CASE dir[0] # 0
          <6>1. dir' = dir /\ dir[0] = Len(content)
            BY <4>1, <5>2 DEF Create, Ordered
          <6>2. QED
            BY <1>nat, <6>1
        <5>3. QED
          BY <5>1, <5>2
      <4>3. fd'[w] = dir'[0] /\ \A v \in Writers \ {w} : fd'[v] = fd[v]
        BY <1>typed, <4>1 DEF TypeOK
      <4>4. ASSUME NEW v \in Writers, fd'[v] # 0, NEW x \in AllLines', Record(x)'.by = v
            PROVE  x[1] <= fd'[v]
        <5>1. x \in AllLines /\ Record(x).by = v
          BY <2>1, <4>4
        <5>2. CASE v = w
          BY <1>nat, <4>2, <4>3, <5>1, <5>2
        <5>3. CASE v # w
          BY <1>below, <4>3, <4>4, <5>1, <5>3
        <5>4. QED
          BY <5>2, <5>3
      <4>5. QED
        BY <4>4
    <3>2. CASE \A w \in Writers : ~Open(w)
      <4>1. \A v \in Writers : fd'[v] \in {0, fd[v]}
        BY <1>typed, <3>2, OnlyOpening
      <4>2. QED
        BY <1>below, <2>1, <4>1
    <3>3. QED
      BY <3>1, <3>2
  <2>3. ASSUME ~degraded' PROVE Newest
    <3>0. ~degraded
      BY <2>3, OnceDegraded
    <3>1. ASSUME NEW w \in Writers, Store(w) PROVE Newest
      <4>1. seq' = [seq EXCEPT ![w] = sidecar[Peer[w]] + 1]
        BY <3>0, <3>1, Stored DEF Numbered
      <4>2. Peer[w] \in Peers /\ sidecar[Peer[w]] \in Nat
        BY <1>nat, WritersAssumption
      <4>3. \A x \in AllLines : Record(x).by = w => Record(x).seq <= sidecar[Peer[w]]
        BY <3>0 DEF Numbered, Covered, PeerOf
      <4>4. seq'[w] = sidecar[Peer[w]] + 1 /\ \A v \in Writers \ {w} : seq'[v] = seq[v]
        BY <1>nat, <4>1
      <4>5. ASSUME NEW v \in Writers, seq'[v] # 0, NEW x \in AllLines', Record(x)'.by = v
            PROVE  Record(x)'.seq < seq'[v]
        <5>1. x \in AllLines /\ Record(x)' = Record(x) /\ Record(x).by = v
          BY <2>1, <4>5
        <5>2. CASE v = w
          BY <1>nat, <4>2, <4>3, <4>4, <5>1, <5>2
        <5>3. CASE v # w
          BY <1>now, <3>0, <4>4, <4>5, <5>1, <5>3
        <5>4. QED
          BY <5>2, <5>3
      <4>6. QED
        BY <4>5
    <3>2. CASE \A w \in Writers : ~Store(w)
      <4>1. \A v \in Writers : seq'[v] \in {0, seq[v]}
        BY <1>typed, <2>3, <3>2, OnlyStoring
      <4>2. QED
        BY <1>now, <2>1, <3>0, <4>1
    <3>3. QED
      BY <3>1, <3>2
  <2>4. ASSUME ~degraded' PROVE Rising
    BY <1>now, <2>1, <2>4, OnceDegraded
  <2>5. QED
    BY <2>2, <2>3, <2>4
<1>2. ASSUME NEW w \in Writers, Write(w) PROVE Below /\ (~degraded' => Newest /\ Rising)
  <2>1. Reset({w}) /\ {w} \in SUBSET Writers /\ degraded' = degraded /\ fd[w] # 0
    BY <1>2, <1>typed DEF Write, numbering, TypeOK
  <2>2. /\ fd'[w] = 0 /\ seq'[w] = 0
        /\ \A v \in Writers \ {w} : fd'[v] = fd[v] /\ seq'[v] = seq[v]
    BY <1>typed, <2>1, ResetTyped
  <2>3. /\ AllLines' = AllLines \cup {EndOf(w)} /\ EndOf(w) \notin AllLines
        /\ \A x \in AllLines : Record(x)' = Record(x)
        /\ \A x : x = EndOf(w) => Record(x)'.by = w /\ Record(x)'.seq = seq[w]
    BY <1>2, <1>typed, LineWritten
  <2>4. ASSUME NEW v \in Writers \ {w}, NEW x \in AllLines', Record(x)'.by = v
        PROVE  x \in AllLines /\ Record(x)' = Record(x) /\ Record(x).by = v
    BY <2>3, <2>4
  <2>5. Below
    <3>1. ASSUME NEW v \in Writers, fd'[v] # 0, NEW x \in AllLines', Record(x)'.by = v
          PROVE  x[1] <= fd'[v]
      <4>1. v \in Writers \ {w}
        BY <2>2, <3>1
      <4>2. QED
        BY <1>below, <2>2, <2>4, <3>1, <4>1
    <3>2. QED
      BY <3>1
  <2>6. ASSUME ~degraded PROVE Newest
    <3>1. ASSUME NEW v \in Writers, seq'[v] # 0, NEW x \in AllLines', Record(x)'.by = v
          PROVE  Record(x)'.seq < seq'[v]
      <4>1. v \in Writers \ {w}
        BY <2>2, <3>1
      <4>2. QED
        BY <1>now, <2>2, <2>4, <2>6, <3>1, <4>1
    <3>2. QED
      BY <3>1
  <2>7. ASSUME NEW y \in AllLines, Record(y).by = w, NEW x, x = EndOf(w) PROVE ~Earlier(x, y)
    <3>1. y[1] <= fd[w] /\ y[1] \in 1 .. Len(content) /\ y[2] \in 1 .. Len(content[y[1]])
          /\ Len(content[y[1]]) \in Nat /\ fd[w] \in 0 .. Len(content)
      BY <1>nat, <1>below, <2>1, <2>7
    <3>2. x[1] = fd[w] /\ x[2] = Len(content[fd[w]]) + 1
      BY <2>7 DEF EndOf
    <3>3. QED
      BY <1>nat, <3>1, <3>2 DEF Earlier
  <2>8. ASSUME NEW x, x = EndOf(w) PROVE ~Earlier(x, x)
    <3>1. x[1] = fd[w] /\ x[2] = Len(content[fd[w]]) + 1
      BY <2>8 DEF EndOf
    <3>2. fd[w] \in 1 .. Len(content) /\ content \in Seq(Seq(Records))
      BY <1>nat, <1>typed, <2>1 DEF TypeOK
    <3>3. Len(content[fd[w]]) \in Nat
      BY <3>2, ElementOfSeq, LenProperties
    <3>4. QED
      BY <3>1, <3>2, <3>3 DEF Earlier
  <2>9. ASSUME ~degraded PROVE Rising
    <3>1. ASSUME NEW x \in AllLines', NEW y \in AllLines', Earlier(x, y),
                 Record(x)'.by = Record(y)'.by, Record(x)'.seq # 0, Record(y)'.seq # 0
          PROVE  Record(x)'.seq < Record(y)'.seq
      <4>1. CASE x \in AllLines /\ y \in AllLines
        BY <1>now, <2>3, <2>9, <3>1, <4>1
      <4>2. CASE x \in AllLines /\ y = EndOf(w)
        BY <1>now, <2>3, <2>9, <3>1, <4>2
      <4>3. CASE x = EndOf(w) /\ y \in AllLines
        BY <2>3, <2>7, <3>1, <4>3
      <4>4. CASE x = EndOf(w) /\ y = EndOf(w)
        BY <2>8, <3>1, <4>4
      <4>5. QED
        BY <2>3, <4>1, <4>2, <4>3, <4>4
    <3>2. QED
      BY <3>1
  <2>10. QED
    BY <2>1, <2>5, <2>6, <2>9
<1> HIDE DEF Below, Newest, Rising
<1>3. Below /\ (~degraded' => Newest /\ Rising)
  BY <1>1, <1>2
<1>4. QED
  BY <1>3, Zenon DEF Chronicle, Below, Newest, Rising

\* A line that is read is a line that was written, and what is read before it
\* was written before it.
Source(x) == <<dir[x[1]], x[2]>>
LEMMA LinesAreWritten ==
  ASSUME TypeOK, Ordered
  PROVE  /\ \A x \in Lines : Source(x) \in AllLines /\ At(x) = Record(Source(x))
         /\ \A x, y \in Lines : Precedes(x, y) => Earlier(Source(x), Source(y))
         /\ \A x, y \in Lines : Precedes(x, y) \/ Precedes(y, x) \/ x = y
<1>1. \A x \in Lines : /\ x = <<x[1], x[2]>> /\ x[1] \in Places /\ dir[x[1]] # 0
                       /\ x[2] \in DOMAIN content[dir[x[1]]]
  <2>1. ASSUME NEW x \in Lines
        PROVE  \E n \in {m \in Places : dir[m] # 0} : x \in {n} \X DOMAIN content[dir[n]]
    BY DEF Lines
  <2>2. QED
    BY <2>1
<1>2. content \in Seq(Seq(Records)) /\ DOMAIN content = 1 .. Len(content) /\ Len(content) \in Nat
      /\ \A n \in Places : dir[n] \in 0 .. Len(content) /\ n \in Nat
  <2>1. content \in Seq(Seq(Records)) /\ \A n \in Places : dir[n] \in 0 .. Len(content)
    BY DEF TypeOK
  <2>2. \A n \in Places : n \in Nat
    BY NumbersAssumption DEF Places
  <2>3. QED
    BY <2>1, <2>2, LenProperties
<1>3. ASSUME NEW x \in Lines
      PROVE  /\ Source(x) \in AllLines /\ At(x) = Record(Source(x)) /\ x[2] \in Nat
  <2>1. dir[x[1]] \in DOMAIN content /\ x[2] \in DOMAIN content[dir[x[1]]]
    BY <1>1, <1>2
  <2>2. <<dir[x[1]], x[2]>> \in LinesOf(content)
    BY <1>2, <2>1, LineOf
  <2>3. content[dir[x[1]]] \in Seq(Records)
    BY <1>2, <2>1, ElementOfSeq
  <2>4. x[2] \in Nat
    BY <2>1, <2>3, LenProperties
  <2>5. QED
    BY <2>2, <2>4 DEF AllLines, LinesOf, Source, At, Record
<1>4. ASSUME NEW x \in Lines, NEW y \in Lines, Precedes(x, y)
      PROVE  Earlier(Source(x), Source(y))
  <2>1. CASE x[1] > y[1]
    <3>1. dir[y[1]] > dir[x[1]]
      BY <1>1, <1>2, <2>1 DEF Ordered
    <3>2. QED
      BY <1>1, <1>2, <3>1 DEF Earlier, Source
  <2>2. CASE x[1] = y[1] /\ x[2] < y[2]
    BY <2>2 DEF Earlier, Source
  <2>3. QED
    BY <1>4, <2>1, <2>2 DEF Precedes
<1>5. ASSUME NEW x \in Lines, NEW y \in Lines
      PROVE  Precedes(x, y) \/ Precedes(y, x) \/ x = y
  <2>1. /\ x[1] \in Nat /\ y[1] \in Nat /\ x[2] \in Nat /\ y[2] \in Nat
        /\ x = <<x[1], x[2]>> /\ y = <<y[1], y[2]>>
    BY <1>1, <1>2, <1>3
  <2>2. (x[1] = y[1] /\ x[2] = y[2]) => x = y
    BY <2>1
  <2>3. QED
    BY <2>1, <2>2 DEF Precedes
<1>6. QED
  BY <1>3, <1>4, <1>5

LEMMA ReadInOrder ==
  ASSUME TypeOK, Ordered, Chronicle
  PROVE  ReadsInOrder
<1> SUFFICES ASSUME ~degraded, NEW x \in Lines, NEW y \in Lines, Precedes(x, y),
                    At(x).by = At(y).by, At(x).seq # 0, At(y).seq # 0
             PROVE  At(x).seq < At(y).seq
  BY DEF ReadsInOrder
<1>1. /\ Source(x) \in AllLines /\ At(x) = Record(Source(x))
      /\ Source(y) \in AllLines /\ At(y) = Record(Source(y))
      /\ Earlier(Source(x), Source(y))
  BY LinesAreWritten
<1>2. \A s, t \in AllLines :
        /\ Earlier(s, t)
        /\ Record(s).by = Record(t).by
        /\ Record(s).seq # 0 /\ Record(t).seq # 0
        => Record(s).seq < Record(t).seq
  BY Zenon DEF Chronicle
<1>3. QED
  BY <1>1, <1>2

LEMMA GapIsReal ==
  ASSUME TypeOK, Bounded, Sound, Ordered, Chronicle
  PROVE  GapsAreReal
<1> SUFFICES ASSUME ~degraded, NEW p \in Peers, NEW w \in Writers,
                    {v \in Writers : Peer[v] = p} = {w}, NEW gap \in Gaps(p)
             PROVE  /\ gap[1] + 1 < gap[2]
                    /\ \A x \in Trusted(p) : At(x).seq <= gap[1] \/ At(x).seq >= gap[2]
  BY DEF GapsAreReal
<1> DEFINE Before(x) == {At(y).seq : y \in {z \in Trusted(p) : Precedes(z, x)}}
<1>1. ASSUME NEW x \in Trusted(p)
      PROVE  /\ x \in Lines /\ At(x).by = w /\ At(x).seq \in Nat /\ At(x).seq # 0
  <2>1. x \in Lines /\ Peer[At(x).by] = p /\ At(x).sound
    BY DEF Trusted
  <2>2. Source(x) \in AllLines /\ At(x) = Record(Source(x))
    BY <2>1, LinesAreWritten
  <2>3. At(x) \in Records
    BY <2>2, RecordTyped
  <2>4. At(x).by \in {v \in Writers : Peer[v] = p} /\ At(x).seq \in Nat
    BY <2>1, <2>3 DEF Records
  <2>5. At(x).seq # 0
    BY <2>1, <2>2 DEF Sound
  <2>6. QED
    BY <2>1, <2>4, <2>5
<1>2. \A x, y \in Trusted(p) : Precedes(x, y) => At(x).seq < At(y).seq
  BY <1>1, ReadInOrder DEF ReadsInOrder
<1>3. PICK x \in Trusted(p) : /\ Before(x) # {} /\ At(x).seq # Max(Before(x)) + 1
                              /\ gap = <<Max(Before(x)), At(x).seq>>
  BY DEF Gaps
<1> HIDE DEF Before
<1>4. Before(x) \subseteq Nat /\ \A n \in Before(x) : n <= At(x).seq /\ n # At(x).seq
  BY <1>1, <1>2 DEF Before
<1>5. Max(Before(x)) \in Before(x) /\ \A n \in Before(x) : n <= Max(Before(x))
  BY <1>1, <1>3, <1>4, MaxOf
<1>6. gap[1] = Max(Before(x)) /\ gap[2] = At(x).seq /\ gap[1] \in Nat /\ gap[2] \in Nat
  BY <1>1, <1>3, <1>4, <1>5
<1>7. gap[1] + 1 < gap[2]
  BY <1>3, <1>4, <1>5, <1>6
<1>8. ASSUME NEW z \in Trusted(p) PROVE At(z).seq <= gap[1] \/ At(z).seq >= gap[2]
  <2>1. CASE Precedes(z, x)
    <3>1. At(z).seq \in Before(x)
      BY <2>1 DEF Before
    <3>2. QED
      BY <1>5, <1>6, <3>1
  <2>2. CASE Precedes(x, z)
    BY <1>1, <1>2, <1>6, <2>2
  <2>3. CASE x = z
    BY <1>1, <1>6, <2>3
  <2>4. QED
    BY <1>1, <2>1, <2>2, <2>3, LinesAreWritten
<1>9. QED
  BY <1>7, <1>8

Told == Numbered /\ Sound /\ Ordered /\ Chronicle

LEMMA OrderInit == Init => Sound /\ Ordered /\ Chronicle
<1> SUFFICES ASSUME Init PROVE Sound /\ Ordered /\ Chronicle
  OBVIOUS
<1>1. AllLines = {} /\ Len(content) = 0
  BY EmptySeq DEF Init, AllLines
<1>2. 0 \in Places
  BY NumbersAssumption DEF Places
<1>3. Sound
  BY <1>1 DEF Init, Sound
<1>4. Ordered
  BY <1>2 DEF Init, Ordered
<1>5. Chronicle
  BY <1>1 DEF Init, Chronicle
<1>6. QED
  BY <1>3, <1>4, <1>5

\* What the order of reading rests on: the places hold the files from the newest
\* to the oldest (_rotate_log_if_needed), and a thread's records go forward.
THEOREM ToldAlways == Spec => []Told
<1>1. Init => Sound /\ Ordered /\ Chronicle
  BY OrderInit
<1>2. Numbered /\ Told /\ [Next]_vars => (Sound /\ Ordered /\ Chronicle)'
  BY SoundStep, OrderedStep, ChronicleStep DEF Told, Numbered
<1>3. Told <=> Numbered /\ Sound /\ Ordered /\ Chronicle
  BY DEF Told
<1>4. QED
  BY NumberedAlways, <1>1, <1>2, <1>3, PTL DEF Spec

\* The events of a thread are read in the order in which it logged them,
\* however its process and the others rotate the files.
THEOREM ReadInLoggedOrder == Spec => []ReadsInOrder
<1>1. Told => ReadsInOrder
  BY ReadInOrder DEF Told, Numbered, Typed
<1>2. QED
  BY ToldAlways, <1>1, PTL

\* The numbers of a gap that the verifier reports for a peer with one writer are
\* in no record that it trusts (verify_audit_integrity).
THEOREM ReportedGapsAreReal == Spec => []GapsAreReal
<1>1. Told => GapsAreReal
  BY GapIsReal DEF Told, Numbered, Typed
<1>2. QED
  BY ToldAlways, <1>1, PTL
-------------------------------------------------------------------------------
(***************************************************************************)
(* The retained files.                                                     *)
(***************************************************************************)

LEMMA PlacesAre == 0 \in Places /\ MaxFiles \in Nat \ {0} /\ Places = 0 .. MaxFiles
BY NumbersAssumption DEF Places

\* While a rotation is alone, its steps give the directory the next shape.
LEMMA ShapeShifted ==
  ASSUME TypeOK, NEW w \in Writers, NEW k \in Places, place[w] = k, Shift(w), Shape(k)
  PROVE  Shape(k - 1)'
<1> DEFINE L == Len(content)
<1>1. k \in 0 .. MaxFiles /\ L \in Nat /\ content' = content
  BY NamedAreFiles, PlacesAre DEF Shift, GoDown
<1>2. \A n \in Places : dir'[n] = IF n = k THEN 0
                                  ELSE IF n = k + 1 /\ dir[k] # 0 THEN dir[k]
                                  ELSE dir[n]
  BY Shifted
<1>3. \A n \in Places : dir[n] = IF n <= k THEN File(L - n)
                                 ELSE IF n = k + 1 THEN 0 ELSE File(L + 1 - n)
  BY DEF Shape
<1> HIDE DEF L
<1>4. dir[k] = File(L - k)
  BY <1>1, <1>3, PlacesAre
<1>5. ASSUME NEW n \in Places
      PROVE  dir'[n] = IF n <= k - 1 THEN File(L - n)
                       ELSE IF n = k THEN 0 ELSE File(L + 1 - n)
  <2>1. n \in 0 .. MaxFiles
    BY PlacesAre
  <2>2. CASE n = k
    BY <1>1, <1>2, <2>1, <2>2
  <2>3. CASE n < k
    BY <1>1, <1>2, <1>3, <2>1, <2>3
  <2>4. CASE n = k + 1
    <3>1. L + 1 - n = L - k
      BY <1>1, <2>4
    <3>2. dir[n] = 0
      BY <1>1, <1>3, <2>1, <2>4
    <3>3. dir'[n] = dir[k]
      BY <1>1, <1>2, <2>1, <2>4, <3>2
    <3>4. QED
      BY <1>1, <1>4, <2>1, <2>4, <3>1, <3>3
  <2>5. CASE n > k + 1
    BY <1>1, <1>2, <1>3, <2>1, <2>5
  <2>6. QED
    BY <1>1, <2>1, <2>2, <2>3, <2>4, <2>5
<1>6. Len(content') = L /\ k - 1 + 1 = k
  BY <1>1 DEF L
<1>7. QED
  BY <1>5, <1>6 DEF Shape

\* A new active file completes the shape a rotation has left.
LEMMA ShapeCreated ==
  ASSUME TypeOK, Create, Shape(-1) \/ Shape(MaxFiles)
  PROVE  Shape(MaxFiles)'
<1>1. /\ content \in Seq(Seq(Records)) /\ dir \in [Places -> 0 .. Len(content)]
  BY DEF TypeOK
<1>2. PICK m \in Nat : m = Len(content)
  BY NamedAreFiles
<1>3. CASE dir[0] # 0
  <2>1. dir' = dir /\ content' = content
    BY <1>3 DEF Create
  <2>2. ~Shape(-1)
    BY <1>3, PlacesAre DEF Shape
  <2>3. QED
    BY <2>1, <2>2 DEF Shape
<1>4. CASE dir[0] = 0
  <2>1. dir' = [dir EXCEPT ![0] = m + 1] /\ Len(content') = m + 1
    BY <1>1, <1>2, <1>4, Created DEF Create
  <2>2. ASSUME NEW n \in Places, n # 0 PROVE dir[n] = File(m + 1 - n)
    <3>1. n \in 1 .. MaxFiles /\ MaxFiles \in Nat
      BY <2>2, PlacesAre
    <3>2. CASE Shape(-1)
      BY <1>2, <3>1, <3>2 DEF Shape
    <3>3. CASE Shape(MaxFiles)
      <4>1. File(m - 0) = 0 /\ dir[n] = File(m - n)
        BY <1>2, <1>4, <3>1, <3>3, PlacesAre DEF Shape
      <4>2. m = 0
        BY <1>2, <4>1 DEF File
      <4>3. QED
        BY <3>1, <4>1, <4>2 DEF File
    <3>4. QED
      BY <3>2, <3>3
  <2>3. ASSUME NEW n \in Places PROVE dir'[n] = File(m + 1 - n) /\ n <= MaxFiles /\ n \in Nat
    <3>1. n <= MaxFiles /\ n \in Nat
      BY PlacesAre
    <3>2. CASE n = 0
      BY <1>1, <2>1, <3>1, <3>2 DEF File
    <3>3. CASE n # 0
      BY <1>1, <2>1, <2>2, <3>1, <3>3
    <3>4. QED
      BY <3>1, <3>2, <3>3
  <2>4. QED
    BY <2>1, <2>3 DEF Shape
<1>5. QED
  BY <1>3, <1>4

\* The last files are in the directory whatever its shape.
LEMMA ShapeRetains ==
  ASSUME TypeOK, NEW k \in Places \cup {-1}, Shape(k),
         NEW f \in DOMAIN content, f + MaxFiles > Len(content)
  PROVE  f \in Named
<1> DEFINE L == Len(content)
           n == L - f
<1>1. L \in Nat /\ f \in 1 .. L
  BY LenProperties DEF TypeOK
<1>2. n \in 0 .. MaxFiles - 1 /\ MaxFiles \in Nat \ {0} /\ Places = 0 .. MaxFiles /\ k \in -1 .. MaxFiles
  BY <1>1, PlacesAre
<1>3. CASE n <= k
  <2>1. n \in Places /\ dir[n] = File(L - n) /\ L - n = f
    BY <1>1, <1>2, <1>3 DEF Shape
  <2>2. dir[n] = f /\ f # 0
    BY <1>1, <2>1 DEF File
  <2>3. QED
    BY <2>1, <2>2 DEF Named
<1>4. CASE n > k
  <2>1. n + 1 \in Places /\ dir[n + 1] = File(L + 1 - (n + 1)) /\ L + 1 - (n + 1) = f
    BY <1>1, <1>2, <1>4 DEF Shape
  <2>2. dir[n + 1] = f /\ f # 0
    BY <1>1, <2>1 DEF File
  <2>3. QED
    BY <2>1, <2>2 DEF Named
<1>5. QED
  BY <1>1, <1>2, <1>3, <1>4

\* A step that leaves the directory and the rotations alone.
LEMMA RotationKept ==
  ASSUME Rotation, ~torn, dir' = dir, Len(content') = Len(content),
         Rotating' = Rotating, \A v \in Rotating : place'[v] = place[v]
  PROVE  Rotation'
<1>1. \A k : Shape(k)' <=> Shape(k)
  BY DEF Shape
<1>2. ASSUME NEW v \in Writers, Rotating = {v}, NEW k, k = place'[v]
      PROVE  Shape(k)'
  <2>1. k = place[v]
    BY <1>2
  <2>2. QED
    BY <1>1, <1>2, <2>1 DEF Rotation
<1>3. \A v \in Writers : Rotating' = {v} => Shape(place[v])'
  BY <1>2 DEF Shape
<1>4. Rotating = {} => Shape(-1)' \/ Shape(MaxFiles)'
  BY <1>1 DEF Rotation
<1>5. Rotating # {} => dir'[0] # 0 /\ \E k \in Places : Shape(k)'
  BY <1>1 DEF Rotation
<1>6. QED
  BY <1>3, <1>4, <1>5, Zenon DEF Rotation

\* Who moves where leaves the set of the rotating ones, or joins it.
LEMMA RotatingMoves ==
  ASSUME TypeOK, NEW w \in Writers, NEW l, pc' = [pc EXCEPT ![w] = l]
  PROVE  Rotating' = IF l = "rotating" THEN Rotating \cup {w} ELSE Rotating \ {w}
BY DEF TypeOK, Rotating

LEMMA RotationStep == Typed /\ Rotation /\ [Next]_vars => Rotation'
<1> SUFFICES ASSUME Typed, Rotation, [Next]_vars, ~torn' PROVE Rotation'
  BY DEF Rotation
<1> USE DEF files
<1>ok. TypeOK
  BY DEF Typed
<1>sure. ~torn
  BY DEF Next, Step, Failure, Begin, LockSeq, Load, Store, Take, LockLog, Measure, Shift, GoDown,
         Open, Write, LockSeqUnguarded, LockSeqFails, StoreFails, Spoil, ShiftFails, Drop, Crash,
         vars
<1>now. /\ Rotating = {} => Shape(-1) \/ Shape(MaxFiles)
        /\ \A w \in Writers : Rotating = {w} => Shape(place[w])
        /\ Rotating # {} => dir[0] # 0 /\ \E k \in Places : Shape(k)
  BY <1>sure, Zenon DEF Rotation
<1>1. ASSUME NEW w \in Writers,
             \/ Begin(w) \/ LockSeq(w) \/ LockSeqUnguarded(w) \/ LockSeqFails(w) \/ Load(w)
             \/ Store(w) \/ StoreFails(w) \/ Spoil(w)
      PROVE  Rotation'
  <2>1. /\ dir' = dir /\ content' = content /\ place' = place
        /\ pc[w] # "rotating"
        /\ pc' = pc \/ \E l \in {"called", "loading", "storing", "numbered"} :
                         pc' = [pc EXCEPT ![w] = l]
    BY <1>1 DEF Begin, LockSeq, LockSeqUnguarded, LockSeqFails, Load, Store, StoreFails, Take,
           Spoil, Goto
  <2>2. Rotating' = Rotating
    BY <1>ok, <2>1, RotatingMoves DEF Rotating
  <2>3. QED
    BY <1>sure, <2>1, <2>2, RotationKept
<1>2. ASSUME NEW w \in Writers, LockLog(w) \/ Open(w) PROVE Rotation'
  <2>1. /\ Create /\ place' = place /\ pc[w] # "rotating"
        /\ \E l \in {"measuring", "appending"} : pc' = [pc EXCEPT ![w] = l]
    BY <1>2 DEF LockLog, Open, Goto
  <2>2. Rotating' = Rotating
    BY <1>ok, <2>1, RotatingMoves DEF Rotating
  <2>3. CASE dir[0] # 0
    BY <1>sure, <2>1, <2>2, <2>3, RotationKept DEF Create
  <2>4. CASE dir[0] = 0
    <3>1. Rotating = {} /\ Shape(MaxFiles)'
      BY <1>ok, <1>now, <2>1, <2>4, ShapeCreated
    <3>2. QED
      BY <2>2, <3>1 DEF Rotation
  <2>5. QED
    BY <2>3, <2>4
<1>3. ASSUME NEW w \in Writers, Measure(w) PROVE Rotation'
  <2>1. dir' = dir /\ content' = content /\ pc[w] = "measuring" /\ w \notin Rotating
    BY <1>3 DEF Measure, Rotating
  <2>2. CASE pc' = [pc EXCEPT ![w] = "opening"] /\ place' = place
    <3>1. Rotating' = Rotating
      BY <1>ok, <2>1, <2>2 DEF Rotating, TypeOK
    <3>2. QED
      BY <1>sure, <2>1, <2>2, <3>1, RotationKept
  <2>3. CASE /\ pc' = [pc EXCEPT ![w] = "rotating"] /\ dir[0] # 0
             /\ place' = [place EXCEPT ![w] = MaxFiles]
    <3>1. Rotating' = Rotating \cup {w} /\ place'[w] = MaxFiles
      BY <1>ok, <2>3, RotatingMoves DEF TypeOK
    <3>2. \A k : Shape(k)' <=> Shape(k)
      BY <2>1 DEF Shape
    <3>3. \E k \in Places : Shape(k) /\ (Rotating = {} => k = MaxFiles)
      <4>1. CASE Rotating = {}
        <5>1. ~Shape(-1)
          BY <2>3, PlacesAre DEF Shape
        <5>2. QED
          BY <1>now, <4>1, <5>1, PlacesAre
      <4>2. QED
        BY <1>now, <4>1
    <3>4. ASSUME NEW v \in Writers, Rotating' = {v}, NEW k, k = place'[v] PROVE Shape(k)'
      <4>1. v = w /\ Rotating = {}
        BY <2>1, <3>1, <3>4
      <4>2. QED
        BY <3>1, <3>2, <3>3, <3>4, <4>1
    <3>5. \A v \in Writers : Rotating' = {v} => Shape(place[v])'
      BY <3>4 DEF Shape
    <3>6. dir'[0] # 0 /\ \E k \in Places : Shape(k)'
      BY <2>1, <2>3, <3>2, <3>3
    <3>7. Rotating' # {}
      BY <3>1
    <3>8. QED
      BY <3>5, <3>6, <3>7, Zenon DEF Rotation
  <2>4. QED
    BY <1>3, <2>2, <2>3 DEF Measure, Goto
<1>4. ASSUME NEW w \in Writers, Shift(w) PROVE Rotation'
  <2>1. /\ pc[w] = "rotating" /\ content' = content
        /\ \A v \in Writers \ {w} : pc[v] # "rotating"
    BY <1>4 DEF Shift, GoDown
  <2>2. Rotating = {w}
    BY <2>1 DEF Rotating
  <2>3. PICK k \in Places : k = place[w] /\ Shape(k)
    BY <1>ok, <1>now, <2>2 DEF TypeOK
  <2>4. Shape(k - 1)'
    BY <1>4, <1>ok, <2>3, ShapeShifted
  <2>5. CASE k = 0
    <3>1. pc' = [pc EXCEPT ![w] = "opening"]
      BY <1>4, <2>3, <2>5 DEF Shift, GoDown, Goto
    <3>2. Rotating' = {}
      BY <1>ok, <2>2, <3>1 DEF Rotating, TypeOK
    <3>3. k - 1 = -1
      BY <2>5
    <3>4. Shape(-1)'
      BY <2>4, <3>3
    <3>5. QED
      BY <3>2, <3>4, Zenon DEF Rotation
  <2>6. CASE k # 0
    <3>1. pc' = pc /\ place' = [place EXCEPT ![w] = k - 1]
      BY <1>4, <2>3, <2>6 DEF Shift, GoDown
    <3>2. Rotating' = {w} /\ place'[w] = k - 1
      BY <1>ok, <2>2, <3>1 DEF Rotating, TypeOK
    <3>3. k - 1 \in Places
      BY <2>6, PlacesAre
    <3>4. dir'[0] # 0
      <4>1. dir'[0] = dir[0]
        BY <1>4, <1>ok, <2>3, <2>6, Shifted, PlacesAre
      <4>2. QED
        BY <1>now, <2>2, <4>1
    <3>5. ASSUME NEW v \in Writers, Rotating' = {v}, NEW j, j = place'[v] PROVE Shape(j)'
      BY <2>4, <3>2, <3>5
    <3>6. \A v \in Writers : Rotating' = {v} => Shape(place[v])'
      BY <3>5 DEF Shape
    <3>7. Rotating' # {} /\ \E j \in Places : Shape(j)'
      BY <2>4, <3>2, <3>3
    <3>8. QED
      BY <3>4, <3>6, <3>7, Zenon DEF Rotation
  <2>7. QED
    BY <2>5, <2>6
<1>5. ASSUME NEW w \in Writers, ShiftFails(w) PROVE FALSE
  BY <1>5 DEF ShiftFails
<1>6. ASSUME NEW W \in SUBSET Writers, Reset(W), \A v \in W : pc[v] # "rotating",
             dir' = dir, Len(content') = Len(content)
      PROVE  Rotation'
  <2>1. /\ \A v \in W : pc'[v] = "idle"
        /\ \A v \in Writers \ W : pc'[v] = pc[v] /\ place'[v] = place[v]
    BY <1>6, <1>ok, ResetTyped
  <2>2. Rotating' = Rotating /\ \A v \in Rotating : place'[v] = place[v]
    BY <1>6, <2>1 DEF Rotating
  <2>3. QED
    BY <1>6, <1>sure, <2>2, RotationKept
<1>7. ASSUME NEW w \in Writers, Write(w) PROVE Rotation'
  <2>1. fd[w] \in 1 .. Len(content) /\ seq[w] \in Nat /\ sound[w] \in BOOLEAN
        /\ content \in Seq(Seq(Records))
    BY <1>7, <1>ok, NamedAreFiles DEF TypeOK, Write
  <2>2. Len(content') = Len(content)
    BY <1>7, <2>1, Written
  <2>3. Reset({w}) /\ {w} \in SUBSET Writers /\ dir' = dir /\ pc[w] # "rotating"
    BY <1>7 DEF Write
  <2>4. QED
    BY <1>6, <2>2, <2>3
<1>8. ASSUME NEW w \in Writers, Drop(w) PROVE Rotation'
  <2>1. Reset({w}) /\ {w} \in SUBSET Writers /\ dir' = dir /\ content' = content
        /\ pc[w] # "rotating"
    BY <1>8 DEF Drop
  <2>2. QED
    BY <1>6, <2>1
<1>9. ASSUME NEW q \in Processes, Crash(q) PROVE Rotation'
  <2> DEFINE W == {w \in Writers : Home[w] = q}
  <2>1. Reset(W) /\ W \in SUBSET Writers /\ dir' = dir /\ content' = content
        /\ \A v \in W : pc[v] # "rotating"
    BY <1>9 DEF Crash
  <2>2. QED
    BY <1>6, <2>1
<1>10. CASE UNCHANGED vars
  <2>1. dir' = dir /\ content' = content /\ place' = place /\ pc' = pc
    BY <1>10 DEF vars
  <2>2. Rotating' = Rotating
    BY <2>1 DEF Rotating
  <2>3. QED
    BY <1>sure, <2>1, <2>2, RotationKept
<1>11. QED
  BY <1>1, <1>2, <1>3, <1>4, <1>5, <1>7, <1>8, <1>9, <1>10 DEF Next, Step, Failure

LEMMA RotationInit == Init => Rotation
<1> SUFFICES ASSUME Init PROVE Rotation
  OBVIOUS
<1>1. Rotating = {} /\ Len(content) = 0
  BY EmptySeq DEF Init, Rotating
<1>2. Shape(-1)
  BY <1>1, PlacesAre DEF Init, Shape, File
<1>3. QED
  BY <1>1, <1>2 DEF Rotation

\* The last files are kept at every step of a rotation that nothing disturbs.
THEOREM LastFilesAreKept == Spec => []RetainedWindow
<1>1. Typed /\ Rotation => RetainedWindow
  <2> SUFFICES ASSUME Typed, Rotation, ~torn,
                      NEW f \in DOMAIN content, f + MaxFiles > Len(content)
               PROVE  f \in Named
    BY DEF RetainedWindow
  <2>1. \E k \in Places \cup {-1} : Shape(k)
    BY PlacesAre DEF Rotation
  <2>2. QED
    BY <2>1, ShapeRetains DEF Typed
<1>2. Init => Rotation
  BY RotationInit
<1>3. Typed /\ Rotation /\ [Next]_vars => Rotation'
  BY RotationStep
<1>4. QED
  BY TypesHold, <1>1, <1>2, <1>3, PTL DEF Spec
===============================================================================
