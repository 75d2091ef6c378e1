-------------------------- MODULE CloudGates_proofs --------------------------
(***************************************************************************)
(* Proofs about CloudGates for every roster and every number of operators. *)
(* GateInv is inductive.  It says what a gate under way may still assume   *)
(* of the rows it has looked at, planned and written, in terms of the      *)
(* statements its pc has passed; so the proof first establishes which      *)
(* statements the program of each gate contains, for a roster of any       *)
(* length.                                                                 *)
(***************************************************************************)
EXTENDS CloudGates, FiniteSetTheorems, SequenceTheorems, WellFoundedInduction, TLAPS

-----------------------------------------------------------------------------
(* Sequences that are joined.  A set of natural numbers that is not empty    *)
(* has a least element; what holds of the joined sequences holds because     *)
(* there is no first place where it fails.                                   *)

LEMMA FirstNatural ==
    ASSUME NEW T, T \subseteq Nat, T # {}
    PROVE  \E n \in T : \A m \in T : n <= m
  <1> DEFINE R == OpToRel(<, Nat)
  <1>1. IsWellFoundedOn(R, Nat)
    BY NatLessThanWellFounded
  <1> HIDE DEF R
  <1>2. \E n \in T : \A m \in T : ~(<<m, n>> \in R)
    BY <1>1, WFMin
  <1>3. \A m, n \in Nat : m < n => <<m, n>> \in R
    BY DEF R, OpToRel
  <1>4. PICK n \in T : \A m \in T : ~(<<m, n>> \in R)
    BY <1>2
  <1>5. ASSUME NEW m \in T PROVE n <= m
    <2>1. ~(<<m, n>> \in R) /\ m \in Nat /\ n \in Nat
      BY <1>4
    <2>2. ~(m < n)
      BY <2>1, <1>3, Zenon
    <2> QED  BY <2>1, <2>2
  <1> QED  BY <1>5

\* f joins the first of the sequences s, one after the other.
Joins(f, s, m) == f = [i \in 1..m |-> IF i = 1 THEN s[i] ELSE f[i - 1] \o s[i]]

\* s is made of the blocks: every place lies in one, and each is there.
MadeOf(s, blocks, m) ==
    /\ \A k \in 1..Len(s) : \E i \in 1..m, off \in Nat : \E r \in DOMAIN blocks[i] :
          k = off + r /\ \A q \in DOMAIN blocks[i] : off + q \in 1..Len(s) /\ s[off + q] = blocks[i][q]
    /\ \A i \in 1..m : \A r \in DOMAIN blocks[i] : \E k \in 1..Len(s) : s[k] = blocks[i][r]

LEMMA JoinExists ==
    ASSUME NEW blocks, NEW n \in Nat
    PROVE  \E f : Joins(f, blocks, n)
  <1> DEFINE Bad == {m \in Nat : ~\E f : Joins(f, blocks, m)}
  <1> SUFFICES ASSUME Bad # {} PROVE FALSE
    OBVIOUS
  <1>1. PICK m \in Bad : \A k \in Bad : m <= k
    BY FirstNatural
  <1>2. CASE m = 0
    <2>1. Joins([i \in 1..0 |-> {}], blocks, 0)
      BY DEF Joins
    <2> QED  BY <1>2, <2>1
  <1>3. CASE m # 0
    <2>1. m - 1 \in Nat /\ m - 1 \notin Bad
      BY <1>1, <1>3
    <2>2. PICK g : Joins(g, blocks, m - 1)
      BY <2>1
    <2> DEFINE f == [i \in 1..m |-> IF i = m THEN IF i = 1 THEN blocks[i] ELSE g[i - 1] \o blocks[i] ELSE g[i]]
    <2>3. \A i \in 1..(m - 1) : g[i] = IF i = 1 THEN blocks[i] ELSE g[i - 1] \o blocks[i]
      BY <2>2 DEF Joins
    <2>4. \A i \in 1..m : f[i] = IF i = 1 THEN blocks[i] ELSE f[i - 1] \o blocks[i]
      BY <2>3, <1>3
    <2>5. Joins(f, blocks, m)
      BY <2>4, Zenon DEF Joins
    <2> QED  BY <2>5
  <1> QED  BY <1>2, <1>3

\* One more block is behind the others.
LEMMA BlocksAppend ==
    ASSUME NEW S, NEW n \in Nat, n > 0, NEW blocks \in [1..n -> Seq(S)],
           NEW s \in Seq(S), MadeOf(s, blocks, n - 1)
    PROVE  s \o blocks[n] \in Seq(S) /\ MadeOf(s \o blocks[n], blocks, n)
  <1> DEFINE t == blocks[n]
             w == s \o t
             a == Len(s)
             b == Len(t)
  <1>1. n \in 1..n /\ t \in Seq(S) /\ a \in Nat /\ b \in Nat /\ DOMAIN t = 1..b
    OBVIOUS
  <1>2. /\ w \in Seq(S) /\ Len(w) = a + b
        /\ \A i \in 1..(a + b) : w[i] = IF i <= a THEN s[i] ELSE t[i - a]
    BY <1>1, ConcatProperties
  <1>3. blocks[n] = t
    OBVIOUS
  <1>4. /\ \A k \in 1..a : \E i \in 1..(n - 1), off \in Nat : \E r \in DOMAIN blocks[i] :
              k = off + r /\ \A q \in DOMAIN blocks[i] : off + q \in 1..a /\ s[off + q] = blocks[i][q]
        /\ \A i \in 1..(n - 1) : \A r \in DOMAIN blocks[i] : \E k \in 1..a : s[k] = blocks[i][r]
    BY DEF MadeOf
  <1> HIDE DEF t, w, a, b
  <1>5. /\ \A i \in 1..a : w[i] = s[i]
        /\ \A i \in 1..b : a + i \in 1..Len(w) /\ w[a + i] = t[i]
        /\ 1..a \subseteq 1..Len(w)
    <2>1. \A i \in 1..b : a + i \in 1..(a + b) /\ ~(a + i <= a) /\ (a + i) - a = i
      BY <1>1
    <2>2. \A i \in 1..a : i \in 1..(a + b) /\ i <= a
      BY <1>1
    <2> QED  BY <1>2, <2>1, <2>2
  <1>6. ASSUME NEW k \in 1..Len(w)
        PROVE  \E i \in 1..n, off \in Nat : \E r \in DOMAIN blocks[i] :
                  k = off + r /\ \A q \in DOMAIN blocks[i] : off + q \in 1..Len(w) /\ w[off + q] = blocks[i][q]
    <2>1. CASE k \in 1..a
      <3>1. PICK i \in 1..(n - 1), off \in Nat : \E r \in DOMAIN blocks[i] :
               k = off + r /\ \A q \in DOMAIN blocks[i] : off + q \in 1..a /\ s[off + q] = blocks[i][q]
        BY <2>1, <1>4
      <3>2. i \in 1..n
        OBVIOUS
      <3> QED  BY <3>1, <3>2, <1>5, ZenonT(30)
    <2>2. CASE k \notin 1..a
      <3>1. k - a \in 1..b /\ k = a + (k - a)
        BY <2>2, <1>1, <1>2
      <3> QED  BY <3>1, <1>1, <1>3, <1>5
    <2> QED  BY <2>1, <2>2
  <1>7. ASSUME NEW i \in 1..n, NEW r \in DOMAIN blocks[i]
        PROVE  \E k \in 1..Len(w) : w[k] = blocks[i][r]
    <2>1. CASE i = n
      BY <2>1, <1>1, <1>3, <1>5
    <2>2. CASE i # n
      <3>1. i \in 1..(n - 1)
        BY <2>2
      <3>2. PICK k \in 1..a : s[k] = blocks[i][r]
        BY <3>1, <1>4
      <3> QED  BY <3>2, <1>5
    <2> QED  BY <2>1, <2>2
  <1> QED  BY <1>2, <1>6, <1>7 DEF MadeOf, w, t

\* Whether s is made of blocks is decided by the blocks.
LEMMA BlocksSame ==
    ASSUME NEW s, NEW m, NEW b, NEW c, \A i \in 1..m : c[i] = b[i], MadeOf(s, b, m)
    PROVE  MadeOf(s, c, m)
  <1>1. ASSUME NEW k \in 1..Len(s)
        PROVE  \E i \in 1..m, off \in Nat : \E r \in DOMAIN c[i] :
                  k = off + r /\ \A q \in DOMAIN c[i] : off + q \in 1..Len(s) /\ s[off + q] = c[i][q]
    <2>1. PICK i \in 1..m, off \in Nat : \E r \in DOMAIN b[i] :
             k = off + r /\ \A q \in DOMAIN b[i] : off + q \in 1..Len(s) /\ s[off + q] = b[i][q]
      BY DEF MadeOf
    <2>2. c[i] = b[i]
      OBVIOUS
    <2> QED  BY <2>1, <2>2, ZenonT(30)
  <1>2. ASSUME NEW i \in 1..m, NEW r \in DOMAIN c[i]
        PROVE  \E k \in 1..Len(s) : s[k] = c[i][r]
    <2>1. c[i] = b[i] /\ r \in DOMAIN b[i]
      OBVIOUS
    <2>2. \E k \in 1..Len(s) : s[k] = b[i][r]
      BY <2>1 DEF MadeOf
    <2> QED  BY <2>1, <2>2
  <1> QED  BY <1>1, <1>2 DEF MadeOf

\* FlattenSeq makes its result of the blocks, however many there are.
LEMMA FlattenBlocks ==
    ASSUME NEW S, NEW n \in Nat, NEW blocks \in [1..n -> Seq(S)]
    PROVE  /\ FlattenSeq(blocks) \in Seq(S)
           /\ MadeOf(FlattenSeq(blocks), blocks, n)
  <1>1. Len(blocks) = n
    OBVIOUS
  <1>2. CASE n = 0
    <2>1. FlattenSeq(blocks) = blocks
      BY <1>1, <1>2 DEF FlattenSeq
    <2>2. blocks \in Seq(S) /\ 1..0 = {} /\ Len(blocks) = 0
      BY <1>1, <1>2
    <2> QED  BY <1>2, <2>1, <2>2 DEF MadeOf
  <1>3. CASE n # 0
    <2> DEFINE flat == CHOOSE f : Joins(f, blocks, n)
    <2>1. FlattenSeq(blocks) = flat[n]
      BY <1>1, <1>3 DEF FlattenSeq, Joins
    <2>2. Joins(flat, blocks, n)
      BY JoinExists
    <2> HIDE DEF flat
    <2>3. \A m \in 1..n : flat[m] = IF m = 1 THEN blocks[m] ELSE flat[m - 1] \o blocks[m]
      BY <2>2 DEF Joins
    <2> DEFINE Good(m) == flat[m] \in Seq(S) /\ MadeOf(flat[m], blocks, m)
               Bad == {m \in 1..n : ~Good(m)}
    <2>4. Bad = {}
      <3> SUFFICES ASSUME Bad # {} PROVE FALSE
        OBVIOUS
      <3> HIDE DEF Good
      <3>1. PICK m \in Bad : \A k \in Bad : m <= k
        <4>1. Bad \subseteq Nat
          OBVIOUS
        <4> HIDE DEF Bad
        <4> QED  BY <4>1, FirstNatural
      <3>2. m \in Nat /\ m > 0 /\ m \in 1..n /\ blocks \in [1..n -> Seq(S)]
        OBVIOUS
      <3> DEFINE bs == [i \in 1..m |-> blocks[i]]
      <3>3. bs \in [1..m -> Seq(S)] /\ bs[m] = blocks[m] /\ \A i \in 1..m : bs[i] = blocks[i]
        BY <3>2
      <3>4. PICK s \in Seq(S) : flat[m] = s \o blocks[m] /\ MadeOf(s, blocks, m - 1)
        <4>1. CASE m = 1
          <5>1. <<>> \in Seq(S) /\ flat[m] = <<>> \o blocks[m]
            BY <2>3, <3>2, <4>1
          <5>2. MadeOf(<<>>, blocks, m - 1)
            BY <4>1 DEF MadeOf
          <5> QED  BY <5>1, <5>2
        <4>2. CASE m # 1
          <5>1. m - 1 \in 1..n /\ m - 1 \notin Bad
            BY <3>1, <3>2, <4>2
          <5> QED  BY <5>1, <4>2, <2>3, <3>2 DEF Good
        <4> QED  BY <4>1, <4>2
      <3> HIDE DEF bs
      <3>5. MadeOf(s, bs, m - 1)
        <4>1. \A i \in 1..(m - 1) : bs[i] = blocks[i]
          BY <3>2, <3>3
        <4> QED  BY <3>4, <4>1, BlocksSame
      <3>6. flat[m] \in Seq(S) /\ MadeOf(flat[m], bs, m)
        BY <3>2, <3>3, <3>4, <3>5, BlocksAppend, ZenonT(30)
      <3>7. MadeOf(flat[m], blocks, m)
        BY <3>3, <3>6, BlocksSame
      <3> QED  BY <3>1, <3>6, <3>7 DEF Good
    <2>5. n \in 1..n
      BY <1>3
    <2> QED  BY <2>1, <2>4, <2>5
  <1> QED  BY <1>2, <1>3

-----------------------------------------------------------------------------
(* What the invariant says.  A gate that runs has passed the statements that *)
(* are before its pc.  The rows it has found or planned are as it believes   *)
(* unless somebody edited them by hand, what it wrote it had planned, and no *)
(* two gates that take the lock are under way.                               *)

Statements == {"need", "look", "put", "check"} \X CafeRows

StepsOf(g) ==
    IF g = "D1" THEN StepsD1 ELSE IF g = "D2" THEN StepsD2 ELSE IF g = "D3" THEN StepsD3
    ELSE IF g = "D4" THEN StepsD4 ELSE IF g = "D5" THEN StepsD5 ELSE IF g = "D6" THEN StepsD6
    ELSE StepsD7

Untouched(e) == \A x \in edited : x[1] # e
IsAccount(e) == e[1] = "account"
Passed(o, x) == \E k \in 1..Len(StepsOf(gate[o].name)) : k < gate[o].pc /\ StepsOf(gate[o].name)[k] = x
Planned(o, e) == \E x \in gate[o].plan : x[1] = e

\* What gate o has made sure of when it is at its pc.
PlanJustified(o) ==
    /\ \A x \in gate[o].plan :
          /\ Passed(o, Look(x[1])) /\ x[2] \in {"absent", "open"}
          /\ Untouched(x[1]) => x[2] = "absent"
          /\ Untouched(x[1]) /\ gate[o].name \in Locks => cafe[x[1]] = "absent"
    /\ \A e \in gate[o].wrote : Planned(o, e) /\ (Keyed(e) => cafe[e] \in {"absent", "open"})

\* Rows that nobody else edited are as the statements that o has passed left them.
StepsDone(o) ==
    /\ gate[o].pc \in 1..(Len(StepsOf(gate[o].name)) + 1)
    /\ \A e \in CafeRows : Untouched(e) =>
          /\ Passed(o, Need(e)) \/ Passed(o, Check(e)) \/ Passed(o, Look(e)) =>
                cafe[e] = "exact" \/ Planned(o, e)
          /\ Passed(o, Put(e)) => IF gate[o].name = "D3" THEN cafe[e] = "exact"
                                 ELSE Planned(o, e) => e \in gate[o].wrote
    /\ gate[o].name \in {"D4", "D6", "D7"} => \A a \in RosterAccounts : cafe[Account(a)] = "exact"

GateRecords == [name : GateNames \cup {NoGate}, pc : Nat, plan : SUBSET (CafeRows \X Values),
                wrote : SUBSET CafeRows, passed : GateNames \cup {NoGate}]

OneAtATime == \A o, p \in Operators :
    gate[o].name \in Locks /\ gate[p].name \in Locks => o = p

GateInv ==
    /\ GateTypes /\ gate \in [Operators -> GateRecords]
    /\ OneAtATime
    /\ \A x \in edited : ~IsAccount(x[1])
    /\ \A o \in Operators : gate[o].wrote # {} => gate[o].name \in Locks
    /\ \A o \in Operators : gate[o].name # NoGate => PlanJustified(o) /\ StepsDone(o)
    /\ GatesStand

-----------------------------------------------------------------------------
(* The programs of the gates: which statements each of them contains.  Has   *)
(* is what FlattenSeq and \o are needed for.                                 *)

Has(s, x) == \E k \in 1..Len(s) : s[k] = x

InBlocks(blocks, n, x) == \E i \in 1..n : \E r \in DOMAIN blocks[i] : blocks[i][r] = x

LEMMA FlattenHas ==
    ASSUME NEW S, NEW n \in Nat, NEW blocks \in [1..n -> Seq(S)]
    PROVE  /\ FlattenSeq(blocks) \in Seq(S)
           /\ \A x : Has(FlattenSeq(blocks), x) <=> InBlocks(blocks, n, x)
  <1> DEFINE s == FlattenSeq(blocks)
  <1>1. s \in Seq(S) /\ MadeOf(s, blocks, n)
    BY FlattenBlocks
  <1> HIDE DEF s
  <1>2. ASSUME NEW x, Has(s, x) PROVE InBlocks(blocks, n, x)
    <2>1. PICK k \in 1..Len(s) : s[k] = x
      BY <1>2 DEF Has
    <2>2. PICK i \in 1..n, off \in Nat : \E r \in DOMAIN blocks[i] :
             k = off + r /\ \A q \in DOMAIN blocks[i] : off + q \in 1..Len(s) /\ s[off + q] = blocks[i][q]
      BY <1>1 DEF MadeOf
    <2> QED  BY <2>1, <2>2 DEF InBlocks
  <1>3. ASSUME NEW i \in 1..n, NEW r \in DOMAIN blocks[i] PROVE Has(s, blocks[i][r])
    BY <1>1 DEF MadeOf, Has
  <1> QED  BY <1>1, <1>2, <1>3 DEF s, InBlocks

LEMMA ConcatHas ==
    ASSUME NEW S, NEW s \in Seq(S), NEW t \in Seq(S)
    PROVE  s \o t \in Seq(S) /\ \A x : Has(s \o t, x) <=> Has(s, x) \/ Has(t, x)
  <1> DEFINE w == s \o t
             a == Len(s)
             b == Len(t)
  <1>1. /\ w \in Seq(S) /\ Len(w) = a + b /\ a \in Nat /\ b \in Nat
        /\ \A i \in 1..(a + b) : w[i] = IF i <= a THEN s[i] ELSE t[i - a]
    BY ConcatProperties
  <1> HIDE DEF w, a, b
  <1>2. ASSUME NEW i \in 1..Len(w) PROVE Has(s, w[i]) \/ Has(t, w[i])
    <2>1. CASE i <= a
      <3>1. i \in 1..Len(s) /\ w[i] = s[i]
        BY <1>1, <2>1 DEF a
      <3> QED  BY <3>1 DEF Has
    <2>2. CASE ~(i <= a)
      <3>1. i - a \in 1..b /\ w[i] = t[i - a]
        BY <1>1, <2>2
      <3> QED  BY <3>1 DEF Has, b
    <2> QED  BY <2>1, <2>2
  <1>3. ASSUME NEW i \in 1..a PROVE Has(w, s[i])
    <2>1. i \in 1..Len(w) /\ w[i] = s[i]
      BY <1>1
    <2> QED  BY <2>1 DEF Has
  <1>4. ASSUME NEW i \in 1..b PROVE Has(w, t[i])
    <2>1. a + i \in 1..(a + b) /\ ~(a + i <= a) /\ (a + i) - a = i
      BY <1>1
    <2>2. a + i \in 1..Len(w) /\ w[a + i] = t[i]
      BY <1>1, <2>1
    <2> QED  BY <2>2 DEF Has
  <1>5. ASSUME NEW x PROVE Has(w, x) <=> Has(s, x) \/ Has(t, x)
    <2>1. Has(w, x) => Has(s, x) \/ Has(t, x)
      BY <1>2 DEF Has
    <2>2. Has(s, x) => Has(w, x)
      BY <1>3 DEF Has, a
    <2>3. Has(t, x) => Has(w, x)
      BY <1>4 DEF Has, b
    <2> QED  BY <2>1, <2>2, <2>3
  <1> QED  BY <1>1, <1>5 DEF w

LooksFirst(s) == \A k, l \in 1..Len(s) : \A e : s[k] = Put(e) /\ s[l] = Look(e) => l < k

\* What is put after something that puts nothing.
LEMMA ConcatLooksFirst ==
    ASSUME NEW S, NEW s \in Seq(S), NEW t \in Seq(S), \A e : ~Has(s, Put(e)), LooksFirst(t)
    PROVE  LooksFirst(s \o t)
  <1>1. /\ Len(s \o t) = Len(s) + Len(t)
        /\ \A i \in 1..(Len(s) + Len(t)) : (s \o t)[i] = IF i <= Len(s) THEN s[i] ELSE t[i - Len(s)]
    BY ConcatProperties
  <1>2. PICK a \in Nat : a = Len(s)
    OBVIOUS
  <1>3. PICK b \in Nat : b = Len(t)
    OBVIOUS
  <1>4. PICK w : w = s \o t
    OBVIOUS
  <1>5. Len(w) = a + b /\ \A i \in 1..(a + b) : w[i] = IF i <= a THEN s[i] ELSE t[i - a]
    BY <1>1, <1>2, <1>3, <1>4
  <1>6. ASSUME NEW k \in 1..Len(w), NEW l \in 1..Len(w), NEW e, w[k] = Put(e), w[l] = Look(e)
        PROVE  l < k
    <2>1. ~(k <= a)
      <3>1. k <= a => k \in 1..Len(s) /\ s[k] = Put(e)
        BY <1>2, <1>5, <1>6
      <3> QED  BY <3>1 DEF Has
    <2>2. CASE l <= a
      BY <2>1, <2>2
    <2>3. CASE ~(l <= a)
      <3>1. l - a \in 1..Len(t) /\ t[l - a] = Look(e)
        BY <1>3, <1>5, <1>6, <2>3
      <3>2. k - a \in 1..Len(t) /\ t[k - a] = Put(e)
        BY <1>3, <1>5, <1>6, <2>1
      <3>3. l - a < k - a
        BY <3>1, <3>2 DEF LooksFirst
      <3> QED  BY <3>3, <1>2, <1>3
    <2> QED  BY <2>2, <2>3
  <1> QED  BY <1>4, <1>6 DEF LooksFirst

LEMMA NothingLookedAt ==
    ASSUME NEW s, \A e : ~Has(s, Look(e))
    PROVE  LooksFirst(s)
  BY DEF LooksFirst, Has

LEMMA OneHas ==
    ASSUME NEW S, NEW p \in S
    PROVE  <<p>> \in Seq(S) /\ \A x : Has(<<p>>, x) <=> x = p
  BY DEF Has

LEMMA TwoHas ==
    ASSUME NEW S, NEW p \in S, NEW q \in S
    PROVE  <<p, q>> \in Seq(S) /\ \A x : Has(<<p, q>>, x) <=> x = p \/ x = q
  BY DEF Has

LEMMA ThreeHas ==
    ASSUME NEW S, NEW p \in S, NEW q \in S, NEW v \in S
    PROVE  <<p, q, v>> \in Seq(S) /\ \A x : Has(<<p, q, v>>, x) <=> x = p \/ x = q \/ x = v
  BY DEF Has

LEMMA Operations ==
    \A e : /\ Need(e)[1] = "need" /\ Look(e)[1] = "look" /\ Put(e)[1] = "put" /\ Check(e)[1] = "check"
           /\ Need(e)[2] = e /\ Look(e)[2] = e /\ Put(e)[2] = e /\ Check(e)[2] = e
  BY DEF Need, Look, Put, Check

\* What the proof uses of the statements of gate g: a gate that takes the lock
\* looks at every row before it puts any, D3 looks at each account before it
\* puts it and puts all, D7 only reads, and what a gate promises it has needed,
\* looked at or checked.
Program(g, s) ==
    /\ s \in Seq(Statements)
    /\ g \in Locks => LooksFirst(s) /\ \A e : Has(s, Look(e)) => Has(s, Put(e)) /\ ~IsAccount(e)
    /\ g = "D3" => /\ \A e : Has(s, Look(e)) => IsAccount(e)
                   /\ \A e : \A k \in 1..Len(s) : s[k] = Put(e) => \E l \in 1..Len(s) : l < k /\ s[l] = Look(e)
                   /\ \A a \in RosterAccounts : Has(s, Put(Account(a)))
    /\ g = "D7" => \A e : ~Has(s, Look(e)) /\ ~Has(s, Put(e))
    /\ \A e \in Promised(g) : \/ IsAccount(e) /\ g \in {"D4", "D6", "D7"}
                              \/ Has(s, Need(e)) \/ Has(s, Check(e)) \/ Has(s, Look(e))

LEMMA RowsOfAccounts ==
    /\ {Tenant, Location, Module, Binding, Content} \subseteq CafeRows
    /\ \A a \in RosterAccounts : {Account(a), Mirror(a), Member(a), Role(a)} \subseteq CafeRows
    /\ \A e \in CafeRows : \/ e \in {Tenant, Location, Module, Binding, Content}
                           \/ \E a \in RosterAccounts : e \in {Account(a), Mirror(a), Member(a), Role(a)}
  BY DEF CafeRows, Tenant, Location, Module, Binding, Content, Account, Mirror, Member, Role

LEMMA RosterIs ==
    /\ Len(Roster) \in Nat
    /\ \A i \in 1..Len(Roster) : Roster[i] \in RosterAccounts
    /\ \A a \in RosterAccounts : \E i \in 1..Len(Roster) : Roster[i] = a
  <1>1. Roster \in Seq(RosterAccounts) /\ DOMAIN Roster = 1..Len(Roster)
    BY GateAssumption
  <1> QED  BY <1>1 DEF RosterAccounts, Range

\* The three rows of every account, in the same way.
AccessOf(op) == ForEach(LAMBDA a : <<<<op, Mirror(a)>>, <<op, Member(a)>>, <<op, Role(a)>>>>)

LEMMA AccessHas ==
    ASSUME NEW op \in {"need", "look", "put", "check"}
    PROVE  /\ AccessOf(op) \in Seq(Statements)
           /\ \A x : Has(AccessOf(op), x) <=> \E a \in RosterAccounts :
                        x \in {<<op, Mirror(a)>>, <<op, Member(a)>>, <<op, Role(a)>>}
  <1> DEFINE n == Len(Roster)
             blocks == [i \in 1..n |-> <<<<op, Mirror(Roster[i])>>, <<op, Member(Roster[i])>>, <<op, Role(Roster[i])>>>>]
  <1>1. n \in Nat
    BY RosterIs
  <1>2. blocks \in [1..n -> Seq(Statements)]
    <2>1. ASSUME NEW i \in 1..n PROVE blocks[i] \in Seq(Statements)
      <3>1. {<<op, Mirror(Roster[i])>>, <<op, Member(Roster[i])>>, <<op, Role(Roster[i])>>} \subseteq Statements
        BY RosterIs, RowsOfAccounts DEF Statements
      <3> QED  BY <3>1
    <2> QED  BY <2>1
  <1>3. AccessOf(op) = FlattenSeq(blocks)
    BY DEF AccessOf, ForEach
  <1>4. ASSUME NEW x
        PROVE  InBlocks(blocks, n, x) <=>
               \E a \in RosterAccounts : x \in {<<op, Mirror(a)>>, <<op, Member(a)>>, <<op, Role(a)>>}
    <2>1. ASSUME NEW i \in 1..n
          PROVE  (\E r \in DOMAIN blocks[i] : blocks[i][r] = x) <=>
                 x \in {<<op, Mirror(Roster[i])>>, <<op, Member(Roster[i])>>, <<op, Role(Roster[i])>>}
      <3> DEFINE p == <<op, Mirror(Roster[i])>>  q == <<op, Member(Roster[i])>>  v == <<op, Role(Roster[i])>>
      <3>1. blocks[i] = <<p, q, v>>
        OBVIOUS
      <3> HIDE DEF p, q, v, blocks
      <3>2. (\E r \in DOMAIN blocks[i] : blocks[i][r] = x) <=> x \in {p, q, v}
        BY <3>1
      <3> QED  BY <3>2 DEF p, q, v
    <2> HIDE DEF blocks
    <2> QED  BY <2>1, RosterIs DEF InBlocks
  <1> HIDE DEF blocks, n
  <1>5. FlattenSeq(blocks) \in Seq(Statements) /\ \A x : Has(FlattenSeq(blocks), x) <=> InBlocks(blocks, n, x)
    BY <1>1, <1>2, FlattenHas
  <1> QED  BY <1>3, <1>4, <1>5

MirrorsNeeded == ForEach(LAMBDA a : <<Need(Mirror(a))>>)
MembersNeeded == ForEach(LAMBDA a : <<Need(Member(a)), Need(Role(a))>>)

LEMMA MirrorsNeededHas ==
    /\ MirrorsNeeded \in Seq(Statements)
    /\ \A x : Has(MirrorsNeeded, x) <=> \E a \in RosterAccounts : x = Need(Mirror(a))
  <1> DEFINE n == Len(Roster)
             blocks == [i \in 1..n |-> <<Need(Mirror(Roster[i]))>>]
  <1>1. n \in Nat
    BY RosterIs
  <1>2. blocks \in [1..n -> Seq(Statements)]
    <2>1. ASSUME NEW i \in 1..n PROVE Need(Mirror(Roster[i])) \in Statements
      BY RosterIs, RowsOfAccounts DEF Statements, Need
    <2> QED  BY <2>1
  <1>3. MirrorsNeeded = FlattenSeq(blocks)
    BY DEF MirrorsNeeded, ForEach
  <1>4. ASSUME NEW x
        PROVE  InBlocks(blocks, n, x) <=> \E a \in RosterAccounts : x = Need(Mirror(a))
    <2>1. ASSUME NEW i \in 1..n
          PROVE  (\E r \in DOMAIN blocks[i] : blocks[i][r] = x) <=> x = Need(Mirror(Roster[i]))
      <3> DEFINE p == Need(Mirror(Roster[i]))
      <3>1. blocks[i] = <<p>>
        OBVIOUS
      <3> HIDE DEF p, blocks
      <3>2. (\E r \in DOMAIN blocks[i] : blocks[i][r] = x) <=> x = p
        BY <3>1
      <3> QED  BY <3>2 DEF p
    <2> HIDE DEF blocks
    <2> QED  BY <2>1, RosterIs DEF InBlocks
  <1> HIDE DEF blocks, n
  <1>5. FlattenSeq(blocks) \in Seq(Statements) /\ \A x : Has(FlattenSeq(blocks), x) <=> InBlocks(blocks, n, x)
    BY <1>1, <1>2, FlattenHas
  <1> QED  BY <1>3, <1>4, <1>5

LEMMA MembersNeededHas ==
    /\ MembersNeeded \in Seq(Statements)
    /\ \A x : Has(MembersNeeded, x) <=> \E a \in RosterAccounts : x \in {Need(Member(a)), Need(Role(a))}
  <1> DEFINE n == Len(Roster)
             blocks == [i \in 1..n |-> <<Need(Member(Roster[i])), Need(Role(Roster[i]))>>]
  <1>1. n \in Nat
    BY RosterIs
  <1>2. blocks \in [1..n -> Seq(Statements)]
    <2>1. ASSUME NEW i \in 1..n PROVE {Need(Member(Roster[i])), Need(Role(Roster[i]))} \subseteq Statements
      BY RosterIs, RowsOfAccounts DEF Statements, Need
    <2> QED  BY <2>1
  <1>3. MembersNeeded = FlattenSeq(blocks)
    BY DEF MembersNeeded, ForEach
  <1>4. ASSUME NEW x
        PROVE  InBlocks(blocks, n, x) <=> \E a \in RosterAccounts : x \in {Need(Member(a)), Need(Role(a))}
    <2>1. ASSUME NEW i \in 1..n
          PROVE  (\E r \in DOMAIN blocks[i] : blocks[i][r] = x) <=>
                 x \in {Need(Member(Roster[i])), Need(Role(Roster[i]))}
      <3> DEFINE p == Need(Member(Roster[i]))  q == Need(Role(Roster[i]))
      <3>1. blocks[i] = <<p, q>>
        OBVIOUS
      <3> HIDE DEF p, q, blocks
      <3>2. (\E r \in DOMAIN blocks[i] : blocks[i][r] = x) <=> x \in {p, q}
        BY <3>1
      <3> QED  BY <3>2 DEF p, q
    <2> HIDE DEF blocks
    <2> QED  BY <2>1, RosterIs DEF InBlocks
  <1> HIDE DEF blocks, n
  <1>5. FlattenSeq(blocks) \in Seq(Statements) /\ \A x : Has(FlattenSeq(blocks), x) <=> InBlocks(blocks, n, x)
    BY <1>1, <1>2, FlattenHas
  <1> QED  BY <1>3, <1>4, <1>5

\* The accounts of D3: each is looked at, and then put.
LEMMA ProgramD3 == Program("D3", StepsD3)
  <1> DEFINE n == Len(Roster)
             blocks == [i \in 1..n |-> <<Look(Account(Roster[i])), Put(Account(Roster[i]))>>]
  <1>1. n \in Nat
    BY RosterIs
  <1>2. blocks \in [1..n -> Seq(Statements)]
    <2>1. ASSUME NEW i \in 1..n PROVE {Look(Account(Roster[i])), Put(Account(Roster[i]))} \subseteq Statements
      BY RosterIs, RowsOfAccounts DEF Statements, Look, Put
    <2> QED  BY <2>1
  <1>3. StepsD3 = FlattenSeq(blocks)
    BY DEF StepsD3, ForEach
  <1>4. \A i \in 1..n : /\ DOMAIN blocks[i] = {1, 2}
                        /\ blocks[i][1] = Look(Account(Roster[i])) /\ blocks[i][2] = Put(Account(Roster[i]))
    OBVIOUS
  <1> HIDE DEF blocks, n
  <1>5. StepsD3 \in Seq(Statements) /\ MadeOf(StepsD3, blocks, n)
    BY <1>1, <1>2, <1>3, FlattenBlocks
  <1>6. ASSUME NEW k \in 1..Len(StepsD3)
        PROVE  \/ \E a \in RosterAccounts : StepsD3[k] = Look(Account(a))
               \/ \E a \in RosterAccounts : StepsD3[k] = Put(Account(a))
                     /\ \E l \in 1..Len(StepsD3) : l < k /\ StepsD3[l] = Look(Account(a))
    <2>1. PICK i \in 1..n, off \in Nat : \E r \in DOMAIN blocks[i] :
             k = off + r /\ \A q \in DOMAIN blocks[i] : off + q \in 1..Len(StepsD3) /\ StepsD3[off + q] = blocks[i][q]
      BY <1>5 DEF MadeOf
    <2>2. /\ off + 1 \in 1..Len(StepsD3) /\ StepsD3[off + 1] = Look(Account(Roster[i]))
          /\ off + 2 \in 1..Len(StepsD3) /\ StepsD3[off + 2] = Put(Account(Roster[i]))
          /\ k = off + 1 \/ k = off + 2
      BY <1>4, <2>1
    <2>3. Roster[i] \in RosterAccounts /\ off + 1 < off + 2
      BY RosterIs DEF n
    <2> QED  BY <2>2, <2>3
  <1>7. ASSUME NEW a \in RosterAccounts PROVE Has(StepsD3, Put(Account(a))) /\ Has(StepsD3, Look(Account(a)))
    <2>1. PICK i \in 1..n : Roster[i] = a
      BY RosterIs DEF n
    <2>2. 1 \in DOMAIN blocks[i] /\ 2 \in DOMAIN blocks[i]
      BY <1>4
    <2>3. /\ \E k \in 1..Len(StepsD3) : StepsD3[k] = blocks[i][1]
          /\ \E k \in 1..Len(StepsD3) : StepsD3[k] = blocks[i][2]
      BY <1>5, <2>2 DEF MadeOf
    <2> QED  BY <1>4, <2>1, <2>3 DEF Has
  <1>8. \A a, e : (Look(Account(a)) = Look(e) => e = Account(a)) /\ (Put(Account(a)) = Put(e) => e = Account(a))
                  /\ Look(Account(a)) # Put(e) /\ Put(Account(a)) # Look(e) /\ IsAccount(Account(a))
    BY DEF Look, Put, Account, IsAccount
  <1>9. ASSUME NEW e, Has(StepsD3, Look(e)) PROVE IsAccount(e)
    BY <1>6, <1>8, <1>9 DEF Has
  <1>10. ASSUME NEW e, NEW k \in 1..Len(StepsD3), StepsD3[k] = Put(e)
         PROVE  \E l \in 1..Len(StepsD3) : l < k /\ StepsD3[l] = Look(e)
    BY <1>6, <1>8, <1>10
  <1>11. \A e \in Promised("D3") : Has(StepsD3, Look(e))
    BY <1>7, GateAssumption DEF Promised, GateNames
  <1> QED  BY <1>5, <1>7, <1>9, <1>10, <1>11 DEF Program, Locks

LEMMA ProgramD1 == Program("D1", StepsD1)
  <1>1. StepsD1 \in Seq(Statements) /\ Len(StepsD1) = 4
    BY RowsOfAccounts DEF StepsD1, Statements, Look, Put
  <1>2. StepsD1[1] = Look(Tenant) /\ StepsD1[2] = Put(Tenant) /\ StepsD1[3] = Look(Location) /\ StepsD1[4] = Put(Location)
    BY DEF StepsD1
  <1>3. \A k \in 1..4 : k = 1 \/ k = 2 \/ k = 3 \/ k = 4
    OBVIOUS
  <1>4. LooksFirst(StepsD1)
    BY <1>1, <1>2, <1>3 DEF LooksFirst, Look, Put, Tenant, Location
  <1>5. \A e : Has(StepsD1, Look(e)) => e = Tenant \/ e = Location
    BY <1>1, <1>2, <1>3 DEF Has, Look, Put
  <1>6. Has(StepsD1, Look(Tenant)) /\ Has(StepsD1, Look(Location)) /\ Has(StepsD1, Put(Tenant)) /\ Has(StepsD1, Put(Location))
    BY <1>1, <1>2 DEF Has
  <1>7. ~IsAccount(Tenant) /\ ~IsAccount(Location)
    BY DEF IsAccount, Tenant, Location
  <1>8. \A e \in Promised("D1") : e = Tenant \/ e = Location
    BY GateAssumption DEF Promised, GateNames
  <1> QED  BY <1>1, <1>4, <1>5, <1>6, <1>7, <1>8 DEF Program

LEMMA ProgramD2 == Program("D2", StepsD2)
  <1>1. StepsD2 \in Seq(Statements) /\ Len(StepsD2) = 3
    BY RowsOfAccounts DEF StepsD2, Statements, Look, Put, Need
  <1>2. StepsD2[1] = Need(Tenant) /\ StepsD2[2] = Look(Module) /\ StepsD2[3] = Put(Module)
    BY DEF StepsD2
  <1>3. \A k \in 1..3 : k = 1 \/ k = 2 \/ k = 3
    OBVIOUS
  <1>4. LooksFirst(StepsD2)
    BY <1>1, <1>2, <1>3 DEF LooksFirst, Look, Put, Need
  <1>5. \A e : Has(StepsD2, Look(e)) => e = Module
    BY <1>1, <1>2, <1>3 DEF Has, Look, Put, Need
  <1>6. Has(StepsD2, Need(Tenant)) /\ Has(StepsD2, Look(Module)) /\ Has(StepsD2, Put(Module))
    BY <1>1, <1>2 DEF Has
  <1>7. ~IsAccount(Module)
    BY DEF IsAccount, Module
  <1>8. \A e \in Promised("D2") : e = Tenant \/ e = Module
    BY GateAssumption DEF Promised, GateNames
  <1> QED  BY <1>1, <1>4, <1>5, <1>6, <1>7, <1>8 DEF Program

LEMMA RowsAreStatements ==
    \A e \in CafeRows : {Need(e), Look(e), Put(e), Check(e)} \subseteq Statements
  BY DEF Need, Look, Put, Check, Statements

LEMMA AccessIsOf ==
    /\ AccessOf("look") = ForEach(LAMBDA a : Access(a, Look))
    /\ AccessOf("put") = ForEach(LAMBDA a : Access(a, Put))
    /\ AccessOf("check") = ForEach(LAMBDA a : Access(a, Check))
  BY DEF AccessOf, ForEach, Access, Look, Put, Check

LEMMA OtherRows ==
    /\ \A e \in {Tenant, Location, Module, Binding, Content} : ~IsAccount(e)
    /\ \A a : ~IsAccount(Mirror(a)) /\ ~IsAccount(Member(a)) /\ ~IsAccount(Role(a)) /\ IsAccount(Account(a))
  BY DEF IsAccount, Tenant, Location, Module, Binding, Content, Mirror, Member, Role, Account

LEMMA ProgramD4 == Program("D4", StepsD4)
  <1> DEFINE p == <<Need(Tenant), Need(Module)>>
             q == p \o AccessOf("look")
             v == AccessOf("put")
  <1>1. StepsD4 = q \o v
    BY AccessIsOf DEF StepsD4
  <1>2. p \in Seq(Statements) /\ \A x : Has(p, x) <=> x = Need(Tenant) \/ x = Need(Module)
    <2>1. {Need(Tenant), Need(Module)} \subseteq Statements
      BY RowsOfAccounts, RowsAreStatements
    <2> QED  BY <2>1, TwoHas
  <1> HIDE DEF p
  <1>3. /\ q \in Seq(Statements)
        /\ \A x : Has(q, x) <=> Has(p, x) \/ Has(AccessOf("look"), x)
    BY <1>2, AccessHas, ConcatHas
  <1>4. \A x : Has(AccessOf("look"), x) <=>
                 \E a \in RosterAccounts : x \in {Look(Mirror(a)), Look(Member(a)), Look(Role(a))}
    BY AccessHas DEF Look
  <1>5. v \in Seq(Statements) /\ \A x : Has(v, x) <=>
                 \E a \in RosterAccounts : x \in {Put(Mirror(a)), Put(Member(a)), Put(Role(a))}
    BY AccessHas DEF Put
  <1> HIDE DEF q, v
  <1>6. StepsD4 \in Seq(Statements) /\ \A x : Has(StepsD4, x) <=> Has(q, x) \/ Has(v, x)
    BY <1>1, <1>3, <1>5, ConcatHas
  <1>7. \A e : ~Has(q, Put(e)) /\ ~Has(v, Look(e))
    BY <1>2, <1>3, <1>4, <1>5, Operations
  <1>8. LooksFirst(StepsD4)
    BY <1>1, <1>3, <1>5, <1>7, ConcatLooksFirst, NothingLookedAt
  <1>9. ASSUME NEW e, Has(StepsD4, Look(e)) PROVE Has(StepsD4, Put(e)) /\ ~IsAccount(e)
    <2>1. PICK a \in RosterAccounts : e \in {Mirror(a), Member(a), Role(a)}
      BY <1>2, <1>3, <1>4, <1>6, <1>7, <1>9, Operations
    <2> QED  BY <2>1, <1>5, <1>6, OtherRows
  <1>10. ASSUME NEW e \in Promised("D4"), ~IsAccount(e) PROVE Has(StepsD4, Need(e)) \/ Has(StepsD4, Look(e))
    <2>1. e \in CafeRows \ {Location, Binding, Content}
      BY <1>10, GateAssumption DEF Promised, GateNames
    <2>2. \/ e \in {Tenant, Module}
          \/ \E a \in RosterAccounts : e \in {Mirror(a), Member(a), Role(a)}
      BY <1>10, <2>1, RowsOfAccounts, OtherRows
    <2> QED  BY <2>2, <1>2, <1>3, <1>4, <1>6
  <1> QED  BY <1>6, <1>8, <1>9, <1>10 DEF Program

LEMMA ProgramD5 == Program("D5", StepsD5)
  <1> DEFINE p == <<Need(Tenant), Need(Location), Need(Module)>>
             q == <<Need(Mirror("staff")), Need(Member("staff")), Need(Role("staff"))>>
             v == <<Look(Binding), Put(Binding)>>
             u == p \o q
  <1>1. StepsD5 = u \o v
    BY DEF StepsD5, Access
  <1>2. {Need(Tenant), Need(Location), Need(Module), Need(Mirror("staff")), Need(Member("staff")),
         Need(Role("staff")), Look(Binding), Put(Binding)} \subseteq Statements
    BY RowsOfAccounts, RowsAreStatements, GateAssumption
  <1>3. /\ p \in Seq(Statements) /\ q \in Seq(Statements) /\ v \in Seq(Statements)
        /\ \A x : Has(p, x) <=> x = Need(Tenant) \/ x = Need(Location) \/ x = Need(Module)
        /\ \A x : Has(q, x) <=> x = Need(Mirror("staff")) \/ x = Need(Member("staff")) \/ x = Need(Role("staff"))
        /\ \A x : Has(v, x) <=> x = Look(Binding) \/ x = Put(Binding)
    BY <1>2, OneHas, TwoHas, ThreeHas
  <1>4. LooksFirst(v)
    <2>1. Len(v) = 2 /\ v[1] = Look(Binding) /\ v[2] = Put(Binding)
      OBVIOUS
    <2>2. \A k \in 1..2 : k = 1 \/ k = 2
      OBVIOUS
    <2> QED  BY <2>1, <2>2, Operations DEF LooksFirst
  <1> HIDE DEF p, q, v
  <1>5. u \in Seq(Statements) /\ \A x : Has(u, x) <=> Has(p, x) \/ Has(q, x)
    BY <1>3, ConcatHas
  <1> HIDE DEF u
  <1>6. StepsD5 \in Seq(Statements) /\ \A x : Has(StepsD5, x) <=> Has(u, x) \/ Has(v, x)
    BY <1>1, <1>3, <1>5, ConcatHas
  <1>7. \A e : ~Has(u, Put(e))
    BY <1>3, <1>5, Operations
  <1>8. LooksFirst(StepsD5)
    BY <1>1, <1>3, <1>4, <1>5, <1>7, ConcatLooksFirst
  <1>9. ASSUME NEW e, Has(StepsD5, Look(e)) PROVE Has(StepsD5, Put(e)) /\ ~IsAccount(e)
    <2>1. e = Binding
      <3>1. \A x : Has(StepsD5, x) => x[1] = "need" \/ x[1] = "put" \/ x = Look(Binding)
        <4>1. \A x : Has(u, x) => x[1] = "need"
          <5>1. \A x : Has(p, x) => x[1] = "need"
            BY <1>3, Operations
          <5>2. \A x : Has(q, x) => x[1] = "need"
            BY <1>3, Operations
          <5> QED  BY <5>1, <5>2, <1>5
        <4>2. \A x : Has(v, x) => x[1] = "put" \/ x = Look(Binding)
          BY <1>3, Operations
        <4> QED  BY <4>1, <4>2, <1>6
      <3>2. Look(e) = Look(Binding)
        BY <3>1, <1>9, Operations
      <3> QED  BY <3>2, Operations
    <2> QED  BY <2>1, <1>3, <1>6, OtherRows
  <1>10. ASSUME NEW e \in Promised("D5") PROVE Has(StepsD5, Need(e)) \/ Has(StepsD5, Look(e))
    <2>1. e \in {Tenant, Location, Module, Binding, Mirror("staff"), Member("staff"), Role("staff")}
      BY <1>10, GateAssumption DEF Promised, GateNames
    <2> QED  BY <2>1, <1>3, <1>5, <1>6
  <1> QED  BY <1>6, <1>8, <1>9, <1>10 DEF Program

LEMMA LoadStateHas ==
    /\ LoadState \in Seq(Statements)
    /\ \A x : Has(LoadState, x) <=>
          x = Need(Module) \/ \E a \in RosterAccounts : x \in {Need(Mirror(a)), Need(Member(a)), Need(Role(a))}
  <1> DEFINE p == <<Need(Module)>>
             q == MirrorsNeeded \o p
  <1>1. LoadState = q \o MembersNeeded
    BY DEF LoadState, MirrorsNeeded, MembersNeeded
  <1>2. p \in Seq(Statements) /\ \A x : Has(p, x) <=> x = Need(Module)
    <2>1. Need(Module) \in Statements
      BY RowsOfAccounts, RowsAreStatements
    <2> QED  BY <2>1, OneHas
  <1> HIDE DEF p
  <1>3. q \in Seq(Statements) /\ \A x : Has(q, x) <=> Has(MirrorsNeeded, x) \/ Has(p, x)
    BY <1>2, MirrorsNeededHas, ConcatHas
  <1> HIDE DEF q
  <1>4. LoadState \in Seq(Statements) /\ \A x : Has(LoadState, x) <=> Has(q, x) \/ Has(MembersNeeded, x)
    BY <1>1, <1>3, MembersNeededHas, ConcatHas
  <1> QED  BY <1>2, <1>3, <1>4, MirrorsNeededHas, MembersNeededHas

LEMMA ProgramD6 == Program("D6", StepsD6)
  <1> DEFINE p == <<Need(Tenant), Need(Location), Need(Binding)>>
             v == <<Look(Content), Put(Content)>>
             u == p \o LoadState
  <1>1. StepsD6 = u \o v
    BY DEF StepsD6
  <1>2. {Need(Tenant), Need(Location), Need(Binding), Look(Content), Put(Content)} \subseteq Statements
    BY RowsOfAccounts, RowsAreStatements
  <1>3. /\ p \in Seq(Statements) /\ v \in Seq(Statements)
        /\ \A x : Has(p, x) <=> x = Need(Tenant) \/ x = Need(Location) \/ x = Need(Binding)
        /\ \A x : Has(v, x) <=> x = Look(Content) \/ x = Put(Content)
    BY <1>2, OneHas, TwoHas, ThreeHas
  <1>4. LooksFirst(v)
    <2>1. Len(v) = 2 /\ v[1] = Look(Content) /\ v[2] = Put(Content)
      OBVIOUS
    <2>2. \A k \in 1..2 : k = 1 \/ k = 2
      OBVIOUS
    <2> QED  BY <2>1, <2>2, Operations DEF LooksFirst
  <1> HIDE DEF p, v
  <1>5. u \in Seq(Statements) /\ \A x : Has(u, x) <=> Has(p, x) \/ Has(LoadState, x)
    BY <1>3, LoadStateHas, ConcatHas
  <1> HIDE DEF u
  <1>6. StepsD6 \in Seq(Statements) /\ \A x : Has(StepsD6, x) <=> Has(u, x) \/ Has(v, x)
    BY <1>1, <1>3, <1>5, ConcatHas
  <1>7. \A e : ~Has(u, Put(e))
    BY <1>3, <1>5, LoadStateHas, Operations
  <1>8. LooksFirst(StepsD6)
    BY <1>1, <1>3, <1>4, <1>5, <1>7, ConcatLooksFirst
  <1>9. ASSUME NEW e, Has(StepsD6, Look(e)) PROVE Has(StepsD6, Put(e)) /\ ~IsAccount(e)
    <2>1. e = Content
      <3>1. \A x : Has(StepsD6, x) => x[1] = "need" \/ x[1] = "put" \/ x = Look(Content)
        <4>1. \A x : Has(u, x) => x[1] = "need"
          <5>1. \A x : Has(p, x) => x[1] = "need"
            BY <1>3, Operations
          <5>2. \A x : Has(LoadState, x) => x[1] = "need"
            BY LoadStateHas, Operations
          <5> QED  BY <5>1, <5>2, <1>5
        <4>2. \A x : Has(v, x) => x[1] = "put" \/ x = Look(Content)
          BY <1>3, Operations
        <4> QED  BY <4>1, <4>2, <1>6
      <3>2. Look(e) = Look(Content)
        BY <3>1, <1>9, Operations
      <3> QED  BY <3>2, Operations
    <2> QED  BY <2>1, <1>3, <1>6, OtherRows
  <1>10. ASSUME NEW e \in Promised("D6"), ~IsAccount(e) PROVE Has(StepsD6, Need(e)) \/ Has(StepsD6, Look(e))
    <2>1. e \in CafeRows
      BY <1>10, GateAssumption DEF Promised, GateNames
    <2>2. \/ e \in {Tenant, Location, Module, Binding, Content}
          \/ \E a \in RosterAccounts : e \in {Mirror(a), Member(a), Role(a)}
      BY <1>10, <2>1, RowsOfAccounts, OtherRows
    <2> QED  BY <2>2, <1>3, <1>5, <1>6, LoadStateHas
  <1> QED  BY <1>6, <1>8, <1>9, <1>10 DEF Program

LEMMA ProgramD7 == Program("D7", StepsD7)
  <1> DEFINE p == <<Check(Tenant), Check(Location), Check(Module)>>
             q == <<Check(Binding)>>
             u == p \o AccessOf("check")
             v == u \o q
  <1>1. StepsD7 = v \o ContentChecks
    BY AccessIsOf DEF StepsD7
  <1>2. {Check(Tenant), Check(Location), Check(Module), Check(Binding), Check(Content)} \subseteq Statements
    BY RowsOfAccounts, RowsAreStatements
  <1>3. /\ p \in Seq(Statements) /\ q \in Seq(Statements) /\ ContentChecks \in Seq(Statements)
        /\ \A x : Has(p, x) <=> x = Check(Tenant) \/ x = Check(Location) \/ x = Check(Module)
        /\ \A x : Has(q, x) <=> x = Check(Binding)
        /\ \A x : Has(ContentChecks, x) <=> x = Check(Content)
    BY <1>2, OneHas, TwoHas, ThreeHas DEF ContentChecks
  <1>4. \A x : Has(AccessOf("check"), x) <=>
                 \E a \in RosterAccounts : x \in {Check(Mirror(a)), Check(Member(a)), Check(Role(a))}
    BY AccessHas DEF Check
  <1> HIDE DEF p, q
  <1>5. u \in Seq(Statements) /\ \A x : Has(u, x) <=> Has(p, x) \/ Has(AccessOf("check"), x)
    BY <1>3, AccessHas, ConcatHas
  <1> HIDE DEF u
  <1>6. v \in Seq(Statements) /\ \A x : Has(v, x) <=> Has(u, x) \/ Has(q, x)
    BY <1>3, <1>5, ConcatHas
  <1> HIDE DEF v
  <1>7. StepsD7 \in Seq(Statements) /\ \A x : Has(StepsD7, x) <=> Has(v, x) \/ Has(ContentChecks, x)
    BY <1>1, <1>3, <1>6, ConcatHas
  <1>8. \A e : ~Has(StepsD7, Look(e)) /\ ~Has(StepsD7, Put(e))
    <2>1. \A x : Has(StepsD7, x) => x[1] = "check"
      <3>1. \A x : Has(p, x) => x[1] = "check"
        BY <1>3, Operations
      <3>2. \A x : Has(q, x) \/ Has(ContentChecks, x) => x[1] = "check"
        BY <1>3, Operations
      <3>3. \A x : Has(AccessOf("check"), x) => x[1] = "check"
        BY <1>4, Operations
      <3>4. \A x : Has(u, x) => x[1] = "check"
        BY <3>1, <3>3, <1>5
      <3>5. \A x : Has(v, x) => x[1] = "check"
        BY <3>2, <3>4, <1>6
      <3> QED  BY <3>2, <3>5, <1>7
    <2> QED  BY <2>1, Operations
  <1>9. ASSUME NEW e \in Promised("D7"), ~IsAccount(e) PROVE Has(StepsD7, Check(e))
    <2>1. e \in CafeRows
      BY <1>9, GateAssumption DEF Promised, GateNames
    <2>2. \/ e \in {Tenant, Location, Module, Binding, Content}
          \/ \E a \in RosterAccounts : e \in {Mirror(a), Member(a), Role(a)}
      BY <1>9, <2>1, RowsOfAccounts, OtherRows
    <2> QED  BY <2>2, <1>3, <1>4, <1>5, <1>6, <1>7
  <1> QED  BY <1>7, <1>8, <1>9 DEF Program, Locks

LEMMA Programs == \A g \in GateNames : Program(g, StepsOf(g))
  BY ProgramD1, ProgramD2, ProgramD3, ProgramD4, ProgramD5, ProgramD6, ProgramD7 DEF StepsOf, GateNames

-----------------------------------------------------------------------------
(* The steps.  Of each, the gate that takes it knows what it did, and what   *)
(* the other gates know is not disturbed by it.                              *)

LEMMA GateInvInit == GateInit => GateInv
  <1> SUFFICES ASSUME GateInit PROVE GateInv
    OBVIOUS
  <1>1. GateIdle \in GateRecords
    BY DEF GateIdle, GateRecords
  <1>2. \A o \in Operators : gate[o] = GateIdle
    BY DEF GateInit
  <1>3. GateTypes /\ gate \in [Operators -> GateRecords]
    BY <1>1, <1>2 DEF GateInit, GateTypes, GateIdle, Values
  <1>4. NoGate \notin Locks
    BY GateAssumption DEF Locks, GateNames
  <1>5. \A o \in Operators : Promised(gate[o].passed) = {}
    BY <1>2 DEF GateIdle, Promised
  <1>6. GatesStand
    BY <1>5 DEF GatesStand, GateInit
  <1> QED  BY <1>2, <1>3, <1>4, <1>6 DEF GateInv, GateInit, GateIdle, OneAtATime

\* What a step of another leaves of gate p's knowledge.
LEMMA OthersWork ==
    ASSUME GateInv, NEW p \in Operators, gate[p].name # NoGate, gate'[p] = gate[p],
           edited \subseteq edited',
           \A e \in CafeRows : Untouched(e)' /\ cafe[e] = "exact" => cafe'[e] = "exact",
           \A e \in CafeRows : IsAccount(e) /\ cafe[e] = "exact" => cafe'[e] = "exact",
           gate[p].name \in Locks =>
              \A x \in gate[p].plan : Untouched(x[1])' => cafe'[x[1]] = cafe[x[1]],
           \A e \in gate[p].wrote : Keyed(e) => cafe'[e] = cafe[e]
    PROVE  PlanJustified(p)' /\ StepsDone(p)'
  <1>1. PlanJustified(p) /\ StepsDone(p) /\ gate[p].plan \subseteq CafeRows \X Values
    BY DEF GateInv, GateTypes
  <1>2. \A e : Untouched(e)' => Untouched(e)
    BY DEF Untouched
  <1>3. /\ \A x : Passed(p, x)' <=> Passed(p, x)
        /\ \A e : Planned(p, e)' <=> Planned(p, e)
    BY DEF Passed, Planned
  <1>4. PlanJustified(p)'
    <2>1. ASSUME NEW x \in gate[p].plan
          PROVE  /\ Passed(p, Look(x[1]))' /\ x[2] \in {"absent", "open"}
                 /\ Untouched(x[1])' => x[2] = "absent"
                 /\ Untouched(x[1])' /\ gate[p].name \in Locks => cafe'[x[1]] = "absent"
      BY <1>1, <1>2, <1>3 DEF PlanJustified
    <2>2. ASSUME NEW e \in gate[p].wrote
          PROVE  Planned(p, e)' /\ (Keyed(e) => cafe'[e] \in {"absent", "open"})
      BY <1>1, <1>3 DEF PlanJustified
    <2> QED  BY <2>1, <2>2 DEF PlanJustified, Keyed
  <1>5. StepsDone(p)'
    <2>1. gate[p].pc \in 1..(Len(StepsOf(gate[p].name)) + 1)
      BY <1>1 DEF StepsDone
    <2>2. ASSUME NEW e \in CafeRows, Untouched(e)'
          PROVE  /\ Passed(p, Need(e))' \/ Passed(p, Check(e))' \/ Passed(p, Look(e))' =>
                      cafe'[e] = "exact" \/ Planned(p, e)'
                 /\ Passed(p, Put(e))' => IF gate[p].name = "D3" THEN cafe'[e] = "exact"
                                         ELSE Planned(p, e)' => e \in gate[p].wrote
      BY <1>1, <1>2, <1>3, <2>2 DEF StepsDone
    <2>3. gate[p].name \in {"D4", "D6", "D7"} => \A a \in RosterAccounts : cafe'[Account(a)] = "exact"
      BY <1>1, RowsOfAccounts, OtherRows DEF StepsDone
    <2> QED  BY <2>1, <2>2, <2>3 DEF StepsDone
  <1> QED  BY <1>4, <1>5

\* Steps that leave the rows alone: what is left is what operator o knows now.
LEMMA OnlyKnows ==
    ASSUME GateInv, NEW o \in Operators, NEW r \in GateRecords, gate' = [gate EXCEPT ![o] = r],
           UNCHANGED <<cafe, edited, phantom>>,
           r.name \in Locks => \A p \in Operators : gate[p].name \in Locks => p = o,
           r.wrote # {} => r.name \in Locks,
           r.name # NoGate => PlanJustified(o)' /\ StepsDone(o)',
           \A e \in Promised(r.passed) : Untouched(e) => cafe[e] = "exact"
    PROVE  GateInv'
  <1>1. gate \in [Operators -> GateRecords]
    BY DEF GateInv
  <1>2. gate'[o] = r /\ \A p \in Operators : p # o => gate'[p] = gate[p]
    BY <1>1
  <1>3. gate' \in [Operators -> GateRecords]
    BY <1>1
  <1>4. GateTypes'
    BY <1>3 DEF GateInv, GateTypes, GateRecords
  <1>5. OneAtATime'
    BY <1>2 DEF GateInv, OneAtATime
  <1>6. \A p \in Operators : gate'[p].name # NoGate => PlanJustified(p)' /\ StepsDone(p)'
    <2> SUFFICES ASSUME NEW p \in Operators, gate'[p].name # NoGate, p # o
                 PROVE  PlanJustified(p)' /\ StepsDone(p)'
      BY <1>2
    <2>1. \A e : Untouched(e)' <=> Untouched(e)
      BY DEF Untouched
    <2> QED  BY <1>2, <2>1, OthersWork
  <1>7. GatesStand'
    <2>1. \A e \in CafeRows \ {x[1] : x \in edited} : cafe[e] \in {"absent", "exact"} /\ e \notin phantom
      BY DEF GateInv, GatesStand
    <2>2. ASSUME NEW p \in Operators, NEW e \in Promised(gate'[p].passed) \ {x[1] : x \in edited}
          PROVE  cafe[e] = "exact"
      <3>1. CASE p = o
        BY <3>1, <1>2 DEF Untouched
      <3>2. CASE p # o
        BY <3>2, <1>2 DEF GateInv, GatesStand
      <3> QED  BY <3>1, <3>2
    <2>3. /\ \A x \in edited : x[2] = "bad" => cafe[x[1]] \in {"bad", "double"}
          /\ \A x \in edited : x[2] = "bad" /\ Keyed(x[1]) => cafe[x[1]] = "bad"
      BY DEF GateInv, GatesStand
    <2> QED  BY <2>1, <2>2, <2>3 DEF GatesStand, Keyed
  <1> QED  BY <1>2, <1>3, <1>4, <1>5, <1>6, <1>7 DEF GateInv

LEMMA StartStep ==
    ASSUME GateInv, NEW o \in Operators, NEW g \in GateNames, Start(o, g)
    PROVE  GateInv'
  <1> DEFINE r == [GateIdle EXCEPT !.name = g, !.pc = 1]
  <1>1. /\ gate[o].name = NoGate /\ KnowsAll(g) /\ LockFree(g)
        /\ gate' = [gate EXCEPT ![o] = r] /\ UNCHANGED <<cafe, edited, phantom>>
    BY DEF Start
  <1>2. r = [name |-> g, pc |-> 1, plan |-> {}, wrote |-> {}, passed |-> NoGate]
    <2>1. PICK h : h = [GateIdle EXCEPT !.name = g]
      OBVIOUS
    <2>2. h = [name |-> g, pc |-> 0, plan |-> {}, wrote |-> {}, passed |-> NoGate]
      BY <2>1 DEF GateIdle
    <2>3. [h EXCEPT !.pc = 1] = [name |-> g, pc |-> 1, plan |-> {}, wrote |-> {}, passed |-> NoGate]
      BY <2>2
    <2> QED  BY <2>1, <2>3
  <1>3. r \in GateRecords
    BY <1>2 DEF GateRecords
  <1> HIDE DEF r
  <1>4. gate'[o] = r
    BY <1>1 DEF GateInv
  <1>5. PlanJustified(o)'
    BY <1>2, <1>4 DEF PlanJustified
  <1>6. StepsDone(o)'
    <2>1. Len(StepsOf(g)) \in Nat
      BY Programs DEF Program
    <2>2. \A x : ~Passed(o, x)'
      BY <1>2, <1>4, <2>1 DEF Passed
    <2> QED  BY <1>1, <1>2, <1>4, <2>1, <2>2 DEF StepsDone, KnowsAll
  <1>7. g \in Locks => \A p \in Operators : gate[p].name \notin Locks
    BY <1>1 DEF LockFree
  <1>8. Promised(r.passed) = {}
    BY <1>2 DEF Promised
  <1> QED  BY <1>1, <1>2, <1>3, <1>5, <1>6, <1>7, <1>8, OnlyKnows

LEMMA EndsStep ==
    ASSUME GateInv, NEW o \in Operators, NEW answer \in GateNames \cup {NoGate}, Ends(o, answer),
           UNCHANGED <<cafe, edited, phantom>>,
           \A e \in Promised(answer) : Untouched(e) => cafe[e] = "exact"
    PROVE  GateInv'
  <1> DEFINE r == [GateIdle EXCEPT !.passed = answer]
  <1>1. gate' = [gate EXCEPT ![o] = r]
    BY DEF Ends
  <1>2. r = [name |-> NoGate, pc |-> 0, plan |-> {}, wrote |-> {}, passed |-> answer]
    BY DEF GateIdle
  <1>3. r \in GateRecords
    BY <1>2 DEF GateRecords
  <1>4. NoGate \notin Locks
    BY GateAssumption DEF Locks, GateNames
  <1> HIDE DEF r
  <1> QED  BY <1>1, <1>2, <1>3, <1>4, OnlyKnows

LEMMA BreaksStep ==
    ASSUME GateInv, NEW o \in Operators, Ends(o, NoGate), UNCHANGED <<cafe, edited, phantom>>
    PROVE  GateInv'
  <1>1. Promised(NoGate) = {}
    BY DEF Promised
  <1> QED  BY <1>1, EndsStep

LEMMA StatementAt ==
    ASSUME GateInv, NEW o \in Operators, NEW g \in GateNames, gate[o].name = g,
           NEW op, At(o, StepsOf(g), op)
    PROVE  /\ gate[o].pc \in 1..Len(StepsOf(g)) /\ gate[o].pc \in Nat /\ Len(StepsOf(g)) \in Nat
           /\ Here(o, StepsOf(g)) \in CafeRows
           /\ StepsOf(g)[gate[o].pc] = <<op, Here(o, StepsOf(g))>>
  <1> DEFINE s == StepsOf(g)
             k == gate[o].pc
  <1>1. s \in Seq(Statements)
    BY Programs DEF Program
  <1>2. g # NoGate
    BY GateAssumption
  <1>3. k \in 1..(Len(s) + 1)
    BY <1>2 DEF GateInv, StepsDone
  <1> HIDE DEF s, k
  <1>4. k \in 1..Len(s) /\ s[k][1] = op
    BY <1>1, <1>3 DEF At, s, k
  <1>5. s[k] \in Statements
    BY <1>1, <1>4
  <1>6. s[k][2] \in CafeRows /\ s[k] = <<op, s[k][2]>>
    BY <1>4, <1>5 DEF Statements
  <1> QED  BY <1>1, <1>4, <1>6 DEF Here, s, k

LEMMA ProceedsTo ==
    ASSUME GateInv, NEW o \in Operators, NEW g \in GateNames, gate[o].name = g,
           gate[o].pc \in 1..Len(StepsOf(g)), Len(StepsOf(g)) \in Nat,
           NEW plan \in SUBSET (CafeRows \X Values), NEW wrote \in SUBSET CafeRows,
           Proceed(o, plan, wrote)
    PROVE  \E r \in GateRecords :
              /\ gate' = [gate EXCEPT ![o] = r] /\ gate'[o] = r
              /\ r.name = g /\ r.plan = plan /\ r.wrote = wrote /\ r.passed = gate[o].passed
              /\ r.pc = gate[o].pc + 1
  <1>1. gate[o] \in GateRecords /\ gate \in [Operators -> GateRecords]
    BY DEF GateInv
  <1> DEFINE k == gate[o].pc
             r == [name |-> g, pc |-> k + 1, plan |-> plan, wrote |-> wrote, passed |-> gate[o].passed]
  <1>2. k \in Nat /\ k + 1 \in Nat
    BY <1>1 DEF GateRecords
  <1>3. r \in GateRecords
    BY <1>1, <1>2 DEF GateRecords
  <1>4. [gate[o] EXCEPT !.pc = gate[o].pc + 1, !.plan = plan, !.wrote = wrote] = r
    <2>1. PICK h : h = [gate[o] EXCEPT !.pc = gate[o].pc + 1]
      OBVIOUS
    <2>2. h = [name |-> g, pc |-> k + 1, plan |-> gate[o].plan, wrote |-> gate[o].wrote, passed |-> gate[o].passed]
      BY <2>1, <1>1 DEF GateRecords
    <2>3. PICK i : i = [h EXCEPT !.plan = plan]
      OBVIOUS
    <2>4. i = [name |-> g, pc |-> k + 1, plan |-> plan, wrote |-> gate[o].wrote, passed |-> gate[o].passed]
      BY <2>2, <2>3
    <2>5. [i EXCEPT !.wrote = wrote] = r
      BY <2>4
    <2> QED  BY <2>1, <2>3, <2>5
  <1>5. r.name = g /\ r.plan = plan /\ r.wrote = wrote /\ r.passed = gate[o].passed /\ r.pc = k + 1
    OBVIOUS
  <1> HIDE DEF r
  <1>6. gate' = [gate EXCEPT ![o] = r] /\ gate'[o] = r
    BY <1>1, <1>4 DEF Proceed
  <1> QED  BY <1>3, <1>5, <1>6

LEMMA OneMorePassed ==
    ASSUME NEW o, gate'[o].name = gate[o].name, gate'[o].pc = gate[o].pc + 1,
           gate[o].pc \in 1..Len(StepsOf(gate[o].name)), Len(StepsOf(gate[o].name)) \in Nat
    PROVE  \A x : Passed(o, x)' <=> Passed(o, x) \/ x = StepsOf(gate[o].name)[gate[o].pc]
  BY SMTT(30) DEF Passed

LEMMA UntouchedRows ==
    ASSUME GateInv, NEW e \in CafeRows, Untouched(e)
    PROVE  cafe[e] \in {"absent", "exact"} /\ e \notin phantom
  <1>1. e \in CafeRows \ {x[1] : x \in edited}
    BY DEF Untouched
  <1> QED  BY <1>1 DEF GateInv, GatesStand

LEMMA RunningGate ==
    ASSUME GateInv, NEW o \in Operators, NEW g \in GateNames, gate[o].name = g
    PROVE  /\ PlanJustified(o) /\ StepsDone(o)
           /\ gate[o].plan \subseteq CafeRows \X Values /\ gate[o].wrote \subseteq CafeRows
           /\ \A e \in Promised(gate[o].passed) : Untouched(e) => cafe[e] = "exact"
           /\ g \in Locks => \A p \in Operators : gate[p].name \in Locks => p = o
           /\ gate[o].wrote # {} => g \in Locks
           /\ \A e : Untouched(e) <=> e \notin {x[1] : x \in edited}
  <1>1. g # NoGate
    BY GateAssumption
  <1>2. \A e : Untouched(e) <=> e \notin {x[1] : x \in edited}
    BY DEF Untouched
  <1>3. \A e \in Promised(gate[o].passed) : Untouched(e) => cafe[e] = "exact"
    BY <1>2 DEF GateInv, GatesStand
  <1> QED  BY <1>1, <1>2, <1>3 DEF GateInv, GateTypes, OneAtATime

InPlan(plan, e) == \E x \in plan : x[1] = e
ByNow(o, g, x) == Passed(o, x) \/ x = StepsOf(g)[gate[o].pc]

\* What a gate has to know after a statement of its own.
LEMMA Proceeding ==
    ASSUME GateInv, NEW o \in Operators, NEW g \in GateNames, gate[o].name = g,
           gate[o].pc \in 1..Len(StepsOf(g)), Len(StepsOf(g)) \in Nat,
           NEW plan \in SUBSET (CafeRows \X Values), NEW wrote \in SUBSET CafeRows,
           Proceed(o, plan, wrote), UNCHANGED <<cafe, edited, phantom>>,
           wrote # {} => g \in Locks,
           \A x \in plan : /\ ByNow(o, g, Look(x[1])) /\ x[2] \in {"absent", "open"}
                           /\ Untouched(x[1]) => x[2] = "absent"
                           /\ Untouched(x[1]) /\ g \in Locks => cafe[x[1]] = "absent",
           \A e \in wrote : InPlan(plan, e) /\ (Keyed(e) => cafe[e] \in {"absent", "open"}),
           \A e \in CafeRows : Untouched(e) =>
              /\ ByNow(o, g, Need(e)) \/ ByNow(o, g, Check(e)) \/ ByNow(o, g, Look(e)) =>
                    cafe[e] = "exact" \/ InPlan(plan, e)
              /\ ByNow(o, g, Put(e)) => IF g = "D3" THEN cafe[e] = "exact"
                                        ELSE InPlan(plan, e) => e \in wrote
    PROVE  GateInv'
  <1>1. PICK r \in GateRecords :
          /\ gate' = [gate EXCEPT ![o] = r] /\ gate'[o] = r
          /\ r.name = g /\ r.plan = plan /\ r.wrote = wrote /\ r.passed = gate[o].passed
          /\ r.pc = gate[o].pc + 1
    BY ProceedsTo
  <1>2. /\ StepsDone(o)
        /\ \A d \in Promised(gate[o].passed) : Untouched(d) => cafe[d] = "exact"
        /\ g \in Locks => \A p \in Operators : gate[p].name \in Locks => p = o
    BY RunningGate
  <1>3. \A x : Passed(o, x)' <=> ByNow(o, g, x)
    BY <1>1, OneMorePassed DEF ByNow
  <1>4. \A d : Planned(o, d)' <=> InPlan(plan, d)
    BY <1>1 DEF Planned, InPlan
  <1>5. \A d : Untouched(d)' <=> Untouched(d)
    BY DEF Untouched
  <1>6. PlanJustified(o)'
    <2>1. \A x \in gate'[o].plan :
             /\ Passed(o, Look(x[1]))' /\ x[2] \in {"absent", "open"}
             /\ Untouched(x[1])' => x[2] = "absent"
             /\ Untouched(x[1])' /\ gate'[o].name \in Locks => cafe'[x[1]] = "absent"
      BY <1>1, <1>3, <1>5
    <2>2. \A e \in gate'[o].wrote : Planned(o, e)' /\ (Keyed(e) => cafe'[e] \in {"absent", "open"})
      BY <1>1, <1>4
    <2> QED  BY <2>1, <2>2 DEF PlanJustified, Keyed
  <1>7. StepsDone(o)'
    <2>1. gate'[o].pc \in 1..(Len(StepsOf(gate'[o].name)) + 1)
      BY <1>1
    <2>2. \A e \in CafeRows : Untouched(e)' =>
             /\ Passed(o, Need(e))' \/ Passed(o, Check(e))' \/ Passed(o, Look(e))' =>
                   cafe'[e] = "exact" \/ Planned(o, e)'
             /\ Passed(o, Put(e))' => IF gate'[o].name = "D3" THEN cafe'[e] = "exact"
                                     ELSE Planned(o, e)' => e \in gate'[o].wrote
      BY <1>1, <1>3, <1>4, <1>5
    <2>3. g \in {"D4", "D6", "D7"} => \A a \in RosterAccounts : cafe[Account(a)] = "exact"
      BY <1>2 DEF StepsDone
    <2> QED  BY <2>1, <2>2, <2>3, <1>1 DEF StepsDone
  <1> QED  BY <1>1, <1>2, <1>6, <1>7, OnlyKnows

\* What the invariant says of a gate, in the terms of the lemma above.
LEMMA KnownSoFar ==
    ASSUME GateInv, NEW o \in Operators, NEW g \in GateNames, gate[o].name = g
    PROVE  /\ \A x \in gate[o].plan :
                 /\ Passed(o, Look(x[1])) /\ x[2] \in {"absent", "open"}
                 /\ Untouched(x[1]) => x[2] = "absent"
                 /\ Untouched(x[1]) /\ g \in Locks => cafe[x[1]] = "absent"
           /\ \A e \in gate[o].wrote : InPlan(gate[o].plan, e) /\ (Keyed(e) => cafe[e] \in {"absent", "open"})
           /\ \A e \in CafeRows : Untouched(e) =>
                 /\ Passed(o, Need(e)) \/ Passed(o, Check(e)) \/ Passed(o, Look(e)) =>
                       cafe[e] = "exact" \/ InPlan(gate[o].plan, e)
                 /\ Passed(o, Put(e)) => IF g = "D3" THEN cafe[e] = "exact"
                                         ELSE InPlan(gate[o].plan, e) => e \in gate[o].wrote
  <1>1. PlanJustified(o) /\ StepsDone(o)
    BY RunningGate
  <1> QED  BY <1>1 DEF PlanJustified, StepsDone, Planned, InPlan

\* A row that is as it must be.
LEMMA NeedStep ==
    ASSUME GateInv, NEW o \in Operators, NEW g \in GateNames, gate[o].name = g,
           At(o, StepsOf(g), "need") \/ At(o, StepsOf(g), "check"),
           Seen(o, Here(o, StepsOf(g))) \in Acceptable(g, Here(o, StepsOf(g))),
           Proceed(o, gate[o].plan, gate[o].wrote), UNCHANGED <<cafe, edited, phantom>>
    PROVE  GateInv'
  <1>1. PICK op \in {"need", "check"} : At(o, StepsOf(g), op)
    OBVIOUS
  <1>2. PICK e \in CafeRows : e = Here(o, StepsOf(g))
    BY <1>1, StatementAt
  <1>3. /\ gate[o].pc \in 1..Len(StepsOf(g)) /\ Len(StepsOf(g)) \in Nat
        /\ StepsOf(g)[gate[o].pc] = <<op, e>>
    BY <1>1, <1>2, StatementAt
  <1>4. PICK plan \in SUBSET (CafeRows \X Values), wrote \in SUBSET CafeRows :
           plan = gate[o].plan /\ wrote = gate[o].wrote
    BY RunningGate
  <1>5. \A d : (<<op, e>> \in {Need(d), Check(d)} => d = e) /\ <<op, e>> # Look(d) /\ <<op, e>> # Put(d)
    BY Operations
  <1>6. Untouched(e) => cafe[e] = "exact" \/ InPlan(plan, e)
    <2> SUFFICES ASSUME Untouched(e), e \notin wrote PROVE cafe[e] = "exact"
      BY <1>4, KnownSoFar
    <2>1. cafe[e] \in Acceptable(g, e)
      BY <1>2, <1>4 DEF Seen
    <2>2. cafe[e] \in {"absent", "exact"}
      BY UntouchedRows
    <2> QED  BY <2>1, <2>2 DEF Acceptable
  <1>7. wrote # {} => g \in Locks
    BY <1>4, RunningGate
  <1>8. \A x \in plan : /\ ByNow(o, g, Look(x[1])) /\ x[2] \in {"absent", "open"}
                        /\ Untouched(x[1]) => x[2] = "absent"
                        /\ Untouched(x[1]) /\ g \in Locks => cafe[x[1]] = "absent"
    BY <1>4, KnownSoFar DEF ByNow
  <1>9. \A d \in wrote : InPlan(plan, d) /\ (Keyed(d) => cafe[d] \in {"absent", "open"})
    BY <1>4, KnownSoFar
  <1>10. ASSUME NEW d \in CafeRows, Untouched(d)
         PROVE  /\ ByNow(o, g, Need(d)) \/ ByNow(o, g, Check(d)) \/ ByNow(o, g, Look(d)) =>
                      cafe[d] = "exact" \/ InPlan(plan, d)
                /\ ByNow(o, g, Put(d)) => IF g = "D3" THEN cafe[d] = "exact"
                                          ELSE InPlan(plan, d) => d \in wrote
    BY <1>3, <1>4, <1>5, <1>6, <1>10, KnownSoFar DEF ByNow
  <1>11. Proceed(o, plan, wrote)
    BY <1>4
  <1> QED  BY <1>3, <1>7, <1>8, <1>9, <1>10, <1>11, Proceeding

\* A row that the gate owns: what it lacks is planned.
LEMMA LookStep ==
    ASSUME GateInv, NEW o \in Operators, NEW g \in GateNames, gate[o].name = g,
           At(o, StepsOf(g), "look"),
           Seen(o, Here(o, StepsOf(g))) \notin Refused(Here(o, StepsOf(g))),
           Proceed(o, IF Seen(o, Here(o, StepsOf(g))) \in {"absent", "open"}
                      THEN gate[o].plan \cup {<<Here(o, StepsOf(g)), Seen(o, Here(o, StepsOf(g)))>>}
                      ELSE gate[o].plan, gate[o].wrote),
           UNCHANGED <<cafe, edited, phantom>>
    PROVE  GateInv'
  <1>0. PICK plan, wrote :
          /\ Proceed(o, plan, wrote) /\ wrote = gate[o].wrote
          /\ plan = IF Seen(o, Here(o, StepsOf(g))) \in {"absent", "open"}
                    THEN gate[o].plan \cup {<<Here(o, StepsOf(g)), Seen(o, Here(o, StepsOf(g)))>>}
                    ELSE gate[o].plan
    OBVIOUS
  <1>1. PICK e \in CafeRows : e = Here(o, StepsOf(g))
    BY StatementAt
  <1>2. /\ gate[o].pc \in 1..Len(StepsOf(g)) /\ Len(StepsOf(g)) \in Nat
        /\ StepsOf(g)[gate[o].pc] = Look(e)
    BY <1>1, StatementAt DEF Look
  <1>3. PICK v : v = Seen(o, e)
    OBVIOUS
  <1>4. /\ v \notin {"bad", "double"} /\ v \in Values
        /\ plan = IF v \in {"absent", "open"} THEN gate[o].plan \cup {<<e, v>>} ELSE gate[o].plan
    <2>1. v \in Values
      BY <1>3 DEF Seen, GateInv, GateTypes, Values
    <2> QED  BY <2>1, <1>0, <1>1, <1>3 DEF Refused
  <1>5. gate[o].plan \subseteq CafeRows \X Values /\ gate[o].wrote \subseteq CafeRows
    BY RunningGate
  <1>6. plan \in SUBSET (CafeRows \X Values) /\ wrote \in SUBSET CafeRows
    BY <1>0, <1>4, <1>5
  <1>7. Untouched(e) => v \in {"absent", "exact"} /\ (v = "absent" => cafe[e] = "absent")
                        /\ (v = "exact" => e \in wrote \/ cafe[e] = "exact")
    BY <1>0, <1>3, UntouchedRows DEF Seen
  <1>8. wrote # {} => g \in Locks
    BY <1>0, RunningGate
  <1>9. \A x \in plan : /\ ByNow(o, g, Look(x[1])) /\ x[2] \in {"absent", "open"}
                        /\ Untouched(x[1]) => x[2] = "absent"
                        /\ Untouched(x[1]) /\ g \in Locks => cafe[x[1]] = "absent"
    <2>1. ASSUME NEW x \in gate[o].plan
          PROVE /\ ByNow(o, g, Look(x[1])) /\ x[2] \in {"absent", "open"}
                /\ Untouched(x[1]) => x[2] = "absent"
                /\ Untouched(x[1]) /\ g \in Locks => cafe[x[1]] = "absent"
      BY KnownSoFar DEF ByNow
    <2>2. ByNow(o, g, Look(e))
      BY <1>2 DEF ByNow
    <2>3. ASSUME NEW x \in plan, x \notin gate[o].plan PROVE x = <<e, v>> /\ v \in {"absent", "open"}
      BY <2>3, <1>4
    <2> QED  BY <2>1, <2>2, <2>3, <1>7
  <1>10. gate[o].plan \subseteq plan
    BY <1>4
  <1>11. \A d \in wrote : InPlan(plan, d) /\ (Keyed(d) => cafe[d] \in {"absent", "open"})
    BY <1>0, <1>10, KnownSoFar DEF InPlan
  <1>12. \A d : (Look(e) \in {Need(d), Check(d), Look(d)} => d = e) /\ Look(e) # Put(d)
    BY Operations
  <1>13. ASSUME NEW d \in CafeRows, Untouched(d),
                ByNow(o, g, Need(d)) \/ ByNow(o, g, Check(d)) \/ ByNow(o, g, Look(d))
         PROVE  cafe[d] = "exact" \/ InPlan(plan, d)
    <2>1. CASE d = e
      <3>1. CASE v \in {"absent", "open"}
        <4>1. <<e, v>> \in plan
          BY <3>1, <1>4
        <4> QED  BY <2>1, <4>1 DEF InPlan
      <3>2. CASE v \notin {"absent", "open"}
        BY <1>7, <1>11, <1>13, <2>1, <3>2
      <3> QED  BY <3>1, <3>2
    <2>2. CASE d # e
      <3>1. Passed(o, Need(d)) \/ Passed(o, Check(d)) \/ Passed(o, Look(d))
        BY <1>2, <1>12, <1>13, <2>2 DEF ByNow
      <3>2. cafe[d] = "exact" \/ InPlan(gate[o].plan, d)
        BY <1>13, <3>1, KnownSoFar
      <3> QED  BY <3>2, <1>10 DEF InPlan
    <2> QED  BY <2>1, <2>2
  <1>14. ASSUME NEW d \in CafeRows, Untouched(d), ByNow(o, g, Put(d))
         PROVE  IF g = "D3" THEN cafe[d] = "exact" ELSE InPlan(plan, d) => d \in wrote
    <2>1. Passed(o, Put(d))
      BY <1>2, <1>12, <1>14 DEF ByNow
    <2>2. CASE d # e \/ g = "D3"
      <3>1. d # e => (InPlan(plan, d) <=> InPlan(gate[o].plan, d))
        BY <1>4 DEF InPlan
      <3> QED  BY <1>0, <1>14, <2>1, <2>2, <3>1, KnownSoFar
    <2>3. CASE d = e /\ g # "D3"
      <3>1. PICK k \in 1..Len(StepsOf(g)) : k < gate[o].pc /\ StepsOf(g)[k] = Put(e)
        BY <2>1, <2>3 DEF Passed
      <3>2. g \in Locks
        <4>1. Has(StepsOf(g), Put(e))
          BY <3>1 DEF Has
        <4>2. g # "D7"
          BY <4>1, Programs DEF Program
        <4> QED  BY <2>3, <4>2 DEF GateNames, Locks
      <3>3. LooksFirst(StepsOf(g))
        BY <3>2, Programs DEF Program
      <3>4. gate[o].pc < k
        BY <1>2, <3>1, <3>3 DEF LooksFirst
      <3> QED  BY <1>2, <3>1, <3>4
    <2> QED  BY <2>2, <2>3
  <1>15. \A d \in CafeRows : Untouched(d) =>
            /\ ByNow(o, g, Need(d)) \/ ByNow(o, g, Check(d)) \/ ByNow(o, g, Look(d)) =>
                  cafe[d] = "exact" \/ InPlan(plan, d)
            /\ ByNow(o, g, Put(d)) => IF g = "D3" THEN cafe[d] = "exact"
                                      ELSE InPlan(plan, d) => d \in wrote
    BY <1>13, <1>14
  <1>16. gate[o].pc \in 1..Len(StepsOf(g)) /\ Len(StepsOf(g)) \in Nat
    BY <1>2
  <1>17. Proceed(o, plan, wrote)
    BY <1>0
  <1> QED  BY <1>6, <1>8, <1>9, <1>11, <1>15, <1>16, <1>17, Proceeding

\* A planned row is written once, as it was seen or not at all.
LEMMA WriteStep ==
    ASSUME GateInv, NEW o \in Operators, NEW g \in GateNames, g # "D3", gate[o].name = g,
           Writes(o, StepsOf(g))
    PROVE  GateInv'
  <1>1. At(o, StepsOf(g), "put") /\ UNCHANGED <<cafe, edited, phantom>>
    BY DEF Writes
  <1>2. PICK e \in CafeRows : e = Here(o, StepsOf(g))
    BY <1>1, StatementAt
  <1>3. /\ gate[o].pc \in 1..Len(StepsOf(g)) /\ Len(StepsOf(g)) \in Nat
        /\ StepsOf(g)[gate[o].pc] = Put(e)
    BY <1>1, <1>2, StatementAt DEF Put
  <1>4. g \in Locks
    <2>1. Has(StepsOf(g), Put(e))
      BY <1>3 DEF Has
    <2>2. g # "D7"
      BY <2>1, Programs DEF Program
    <2> QED  BY <2>2 DEF GateNames, Locks
  <1>5. PICK plan \in SUBSET (CafeRows \X Values) : plan = gate[o].plan
    BY RunningGate
  <1>6. CASE Ends(o, NoGate)
    BY <1>1, <1>6, BreaksStep
  <1>7. CASE ~Ends(o, NoGate)
    <2>1. PICK wrote :
             /\ Proceed(o, plan, wrote)
             /\ \/ wrote = gate[o].wrote /\ ~InPlan(plan, e)
                \/ \E x \in plan : x[1] = e /\ wrote = IF Takes(e, x[2]) THEN gate[o].wrote \cup {e}
                                                       ELSE gate[o].wrote
      <3> DEFINE due == {x \in gate[o].plan : x[1] = e}
      <3>1. CASE due = {} /\ Proceed(o, gate[o].plan, gate[o].wrote)
        BY <3>1, <1>5 DEF InPlan
      <3>2. CASE \E x \in due : Proceed(o, gate[o].plan, IF Takes(e, x[2]) THEN gate[o].wrote \cup {e}
                                                                           ELSE gate[o].wrote)
        BY <3>2, <1>5
      <3> QED  BY <1>2, <1>7, <3>1, <3>2 DEF Writes
    <2>2. gate[o].wrote \subseteq wrote /\ wrote \subseteq gate[o].wrote \cup {e}
      BY <2>1
    <2>3. wrote \in SUBSET CafeRows
      BY <2>2, RunningGate
    <2>4. \A x \in plan : /\ ByNow(o, g, Look(x[1])) /\ x[2] \in {"absent", "open"}
                          /\ Untouched(x[1]) => x[2] = "absent"
                          /\ Untouched(x[1]) /\ g \in Locks => cafe[x[1]] = "absent"
      BY <1>5, KnownSoFar DEF ByNow
    <2>5. ASSUME NEW d \in wrote PROVE InPlan(plan, d) /\ (Keyed(d) => cafe[d] \in {"absent", "open"})
      <3>1. CASE d \in gate[o].wrote
        BY <1>5, <3>1, KnownSoFar
      <3>2. CASE d \notin gate[o].wrote
        <4>1. PICK x \in plan : x[1] = e /\ Takes(e, x[2]) /\ d = e
          BY <2>1, <3>2
        <4>2. x[2] \in {"absent", "open"}
          BY <2>4
        <4>3. Keyed(e) => cafe[e] \in {"absent", "open"}
          BY <4>1, <4>2 DEF Keyed, Takes
        <4> QED  BY <4>1, <4>3 DEF InPlan
      <3> QED  BY <3>1, <3>2
    <2>6. \A d : (Put(e) = Put(d) => d = e) /\ Put(e) \notin {Need(d), Check(d), Look(d)}
      BY Operations
    <2>7. ASSUME NEW d \in CafeRows, Untouched(d)
          PROVE  /\ ByNow(o, g, Need(d)) \/ ByNow(o, g, Check(d)) \/ ByNow(o, g, Look(d)) =>
                       cafe[d] = "exact" \/ InPlan(plan, d)
                 /\ ByNow(o, g, Put(d)) => IF g = "D3" THEN cafe[d] = "exact"
                                           ELSE InPlan(plan, d) => d \in wrote
      <3>1. ByNow(o, g, Need(d)) \/ ByNow(o, g, Check(d)) \/ ByNow(o, g, Look(d)) =>
                cafe[d] = "exact" \/ InPlan(plan, d)
        BY <1>3, <1>5, <2>6, <2>7, KnownSoFar DEF ByNow
      <3>2. ByNow(o, g, Put(d)) /\ InPlan(plan, d) => d \in wrote
        <4>1. CASE d = e
          <5> SUFFICES ASSUME InPlan(plan, d) PROVE d \in wrote
            OBVIOUS
          <5>1. PICK x \in plan : x[1] = e /\ wrote = IF Takes(e, x[2]) THEN gate[o].wrote \cup {e}
                                                      ELSE gate[o].wrote
            BY <2>1, <4>1
          <5>2. x[2] = "absent" /\ cafe[e] = "absent"
            BY <2>4, <2>7, <4>1, <5>1, <1>4
          <5>3. Takes(e, x[2])
            BY <5>2 DEF Takes
          <5> QED  BY <4>1, <5>1, <5>3
        <4>2. CASE d # e
          <5>1. ByNow(o, g, Put(d)) => Passed(o, Put(d))
            BY <1>3, <2>6, <4>2 DEF ByNow
          <5> QED  BY <1>5, <2>2, <2>7, <5>1, KnownSoFar
        <4> QED  BY <4>1, <4>2
      <3> QED  BY <3>1, <3>2
    <2> QED  BY <1>1, <1>3, <1>4, <2>1, <2>3, <2>4, <2>5, <2>7, Proceeding
  <1> QED  BY <1>6, <1>7

\* A transaction at its end: what it planned of untouched rows it has written.
LEMMA AtTheEnd ==
    ASSUME GateInv, NEW o \in Operators, NEW g \in GateNames, gate[o].name = g, g # "D3",
           gate[o].pc = Len(StepsOf(g)) + 1
    PROVE  /\ \A e \in gate[o].wrote : ~IsAccount(e) /\ g \in Locks
           /\ \A x \in gate[o].plan : Untouched(x[1]) => x[1] \in gate[o].wrote
           /\ \A e \in gate[o].wrote : Untouched(e) => cafe[e] = "absent"
           /\ \A e \in Promised(g) : Untouched(e) => cafe[e] = "exact" \/ e \in gate[o].wrote
  <1> DEFINE s == StepsOf(g)
  <1>1. Program(g, s) /\ Len(s) \in Nat
    BY Programs DEF Program
  <1> HIDE DEF s
  <1>2. \A x : Has(s, x) <=> Passed(o, x)
    BY <1>1 DEF Has, Passed, s
  <1>3. g \in Locks \cup {"D7"}
    BY DEF GateNames, Locks
  <1>4. ASSUME NEW x \in gate[o].plan
        PROVE  x[1] \in CafeRows /\ g \in Locks /\ Passed(o, Look(x[1])) /\ Passed(o, Put(x[1])) /\ ~IsAccount(x[1])
    <2>1. Passed(o, Look(x[1])) /\ x[1] \in CafeRows
      BY KnownSoFar, RunningGate
    <2>2. Has(s, Look(x[1]))
      BY <1>2, <2>1
    <2>3. g \in Locks
      BY <1>1, <1>3, <2>2 DEF Program
    <2>4. Has(s, Put(x[1])) /\ ~IsAccount(x[1])
      BY <1>1, <2>2, <2>3 DEF Program
    <2> QED  BY <1>2, <2>1, <2>3, <2>4
  <1>5. ASSUME NEW x \in gate[o].plan, Untouched(x[1]) PROVE x[1] \in gate[o].wrote
    <2>1. InPlan(gate[o].plan, x[1])
      BY DEF InPlan
    <2> QED  BY <1>4, <1>5, <2>1, KnownSoFar
  <1>6. ASSUME NEW e \in gate[o].wrote PROVE \E x \in gate[o].plan : x[1] = e
    BY KnownSoFar DEF InPlan
  <1>7. \A e \in gate[o].wrote : ~IsAccount(e) /\ g \in Locks
    BY <1>4, <1>6
  <1>8. ASSUME NEW e \in gate[o].wrote, Untouched(e) PROVE cafe[e] = "absent"
    BY <1>4, <1>6, <1>8, KnownSoFar
  <1>9. ASSUME NEW e \in Promised(g), Untouched(e) PROVE cafe[e] = "exact" \/ e \in gate[o].wrote
    <2>1. CASE IsAccount(e) /\ g \in {"D4", "D6", "D7"}
      <3>1. e \in CafeRows
        BY <2>1, RowsOfAccounts, GateAssumption DEF Promised, GateNames
      <3>2. PICK a \in RosterAccounts : e = Account(a)
        BY <2>1, <3>1, RowsOfAccounts, OtherRows
      <3> QED  BY <2>1, <3>2, RunningGate DEF StepsDone
    <2>2. CASE Has(s, Need(e)) \/ Has(s, Check(e)) \/ Has(s, Look(e))
      <3>1. Passed(o, Need(e)) \/ Passed(o, Check(e)) \/ Passed(o, Look(e))
        BY <1>2, <2>2
      <3>2. e \in CafeRows
        <4>1. PICK x \in {Need(e), Check(e), Look(e)} : Has(s, x)
          BY <2>2
        <4>2. x \in Statements
          BY <1>1, <4>1 DEF Has, Program
        <4> QED  BY <4>1, <4>2 DEF Statements, Need, Check, Look
      <3>3. cafe[e] = "exact" \/ InPlan(gate[o].plan, e)
        BY <1>9, <3>1, <3>2, KnownSoFar
      <3> QED  BY <3>3, <1>5, <1>9 DEF InPlan
    <2> QED  BY <1>1, <2>1, <2>2 DEF Program
  <1> QED  BY <1>5, <1>7, <1>8, <1>9

LEMMA CompletesStep ==
    ASSUME GateInv, NEW o \in Operators, NEW g \in GateNames, gate[o].name = g, g # "D3",
           Completes(o, g, StepsOf(g))
    PROVE  GateInv'
  <1> DEFINE done == gate[o].wrote
             planned == {x[1] : x \in gate[o].plan}
  <1>1. /\ gate[o].pc = Len(StepsOf(g)) + 1
        /\ cafe' = [e \in CafeRows |->
                      IF e \notin done THEN cafe[e]
                      ELSE IF ~Keyed(e) /\ cafe[e] # "absent" THEN "double" ELSE "exact"]
        /\ phantom' = phantom \cup (planned \ done) /\ edited' = edited
    BY DEF Completes
  <1>2. PICK answer \in {g, NoGate} : Ends(o, answer)
    BY DEF Completes
  <1>3. /\ \A e \in done : ~IsAccount(e) /\ g \in Locks
        /\ \A x \in gate[o].plan : Untouched(x[1]) => x[1] \in done
        /\ \A e \in done : Untouched(e) => cafe[e] = "absent"
        /\ \A e \in Promised(g) : Untouched(e) => cafe[e] = "exact" \/ e \in done
    BY <1>1, AtTheEnd
  <1>4. /\ done \subseteq CafeRows /\ planned \subseteq CafeRows
        /\ \A e \in done : Keyed(e) => cafe[e] \in {"absent", "open"}
        /\ \A p \in Operators : p # o /\ gate[p].name \in Locks => g \notin Locks
    BY RunningGate, KnownSoFar
  <1>5. cafe \in [CafeRows -> Values]
    BY DEF GateInv, GateTypes
  <1>6. \A d : Untouched(d)' <=> Untouched(d)
    BY <1>1 DEF Untouched
  <1> DEFINE r == [GateIdle EXCEPT !.passed = answer]
  <1>7. gate' = [gate EXCEPT ![o] = r] /\ gate \in [Operators -> GateRecords]
    BY <1>2 DEF Ends, GateInv
  <1>8. r = [name |-> NoGate, pc |-> 0, plan |-> {}, wrote |-> {}, passed |-> answer]
    BY DEF GateIdle
  <1>9. r \in GateRecords
    BY <1>8 DEF GateRecords
  <1>10. NoGate \notin Locks
    BY GateAssumption DEF Locks, GateNames
  <1> HIDE DEF r
  <1>11. gate'[o] = r /\ \A p \in Operators : p # o => gate'[p] = gate[p]
    BY <1>7
  <1>12. gate' \in [Operators -> GateRecords]
    BY <1>7, <1>9
  <1> HIDE DEF done, planned
  <1>13. cafe' \in [CafeRows -> Values]
    BY <1>1, <1>5 DEF Values
  <1>14. GateTypes'
    BY <1>1, <1>4, <1>12, <1>13 DEF GateInv, GateTypes, GateRecords
  <1>15. OneAtATime'
    BY <1>8, <1>10, <1>11 DEF GateInv, OneAtATime
  <1>16. \A e \in CafeRows : e \notin done => cafe'[e] = cafe[e]
    BY <1>1
  <1>17. \A e \in CafeRows : Untouched(e) => cafe'[e] = IF e \in done THEN "exact" ELSE cafe[e]
    BY <1>1, <1>3
  <1>18. ASSUME NEW p \in Operators, gate'[p].name # NoGate PROVE PlanJustified(p)' /\ StepsDone(p)'
    <2>1. p # o /\ gate'[p] = gate[p]
      BY <1>8, <1>11, <1>18
    <2>2. \A e \in CafeRows : Untouched(e)' /\ cafe[e] = "exact" => cafe'[e] = "exact"
      BY <1>6, <1>17
    <2>3. \A e \in CafeRows : IsAccount(e) /\ cafe[e] = "exact" => cafe'[e] = "exact"
      BY <1>3, <1>16
    <2>4. gate[p].name \in Locks => \A e \in CafeRows : cafe'[e] = cafe[e]
      BY <1>3, <1>4, <1>16, <2>1
    <2>5. gate[p].plan \subseteq CafeRows \X Values /\ gate[p].wrote \subseteq CafeRows
      BY DEF GateInv, GateTypes
    <2>6. gate[p].name \in Locks => \A x \in gate[p].plan : Untouched(x[1])' => cafe'[x[1]] = cafe[x[1]]
      BY <2>4, <2>5
    <2>7. \A e \in gate[p].wrote : Keyed(e) => cafe'[e] = cafe[e]
      BY <2>4, <2>5 DEF GateInv
    <2>8. edited \subseteq edited' /\ gate[p].name # NoGate
      BY <1>1, <1>18, <2>1
    <2> QED  BY <2>1, <2>2, <2>3, <2>6, <2>7, <2>8, OthersWork
  <1>19. GatesStand'
    <2>1. ASSUME NEW e \in CafeRows, Untouched(e) PROVE cafe'[e] \in {"absent", "exact"} /\ e \notin phantom'
      <3>1. cafe[e] \in {"absent", "exact"} /\ e \notin phantom
        BY <2>1, UntouchedRows
      <3>2. e \notin planned \ done
        BY <1>3, <2>1 DEF planned
      <3> QED  BY <1>1, <1>17, <2>1, <3>1, <3>2
    <2>2. ASSUME NEW p \in Operators, NEW e \in Promised(gate'[p].passed), Untouched(e), e \in CafeRows
          PROVE  cafe'[e] = "exact"
      <3>1. CASE p = o
        <4>1. e \in Promised(answer)
          BY <1>8, <1>11, <2>2, <3>1
        <4>2. answer = g
          BY <4>1 DEF Promised
        <4> QED  BY <4>1, <4>2, <1>3, <1>17, <2>2
      <3>2. CASE p # o
        <4>1. e \notin {x[1] : x \in edited}
          BY <2>2 DEF Untouched
        <4>2. cafe[e] = "exact"
          BY <1>11, <2>2, <3>2, <4>1 DEF GateInv, GatesStand
        <4> QED  BY <4>2, <1>17, <2>2
      <3> QED  BY <3>1, <3>2
    <2>3. \A p \in Operators : Promised(gate'[p].passed) \subseteq CafeRows
      <3>1. \A a \in RosterAccounts : Account(a) \in CafeRows
        BY RowsOfAccounts
      <3> QED  BY <3>1, RowsOfAccounts, GateAssumption DEF Promised
    <2>4. ASSUME NEW x \in edited, x[2] = "bad"
          PROVE  cafe'[x[1]] \in {"bad", "double"} /\ (Keyed(x[1]) => cafe'[x[1]] = "bad")
      <3>1. x[1] \in CafeRows
        BY DEF GateInv, GateTypes
      <3>2. cafe[x[1]] \in {"bad", "double"} /\ (Keyed(x[1]) => cafe[x[1]] = "bad")
        BY <2>4 DEF GateInv, GatesStand
      <3>3. CASE x[1] \notin done
        BY <1>16, <3>1, <3>2, <3>3
      <3>4. CASE x[1] \in done
        <4>1. ~Keyed(x[1])
          BY <1>4, <3>2, <3>4
        <4> QED  BY <1>1, <3>1, <3>2, <3>4, <4>1
      <3> QED  BY <3>3, <3>4
    <2>5. \A e : Untouched(e) <=> e \notin {x[1] : x \in edited}
      BY DEF Untouched
    <2>6. \A e \in CafeRows \ {x[1] : x \in edited'} : cafe'[e] \in {"absent", "exact"} /\ e \notin phantom'
      BY <1>1, <2>1, <2>5
    <2>7. \A p \in Operators : \A e \in Promised(gate'[p].passed) \ {x[1] : x \in edited'} : cafe'[e] = "exact"
      BY <1>1, <2>2, <2>3, <2>5
    <2> QED  BY <1>1, <2>4, <2>6, <2>7 DEF GatesStand, Keyed
  <1>20. \A p \in Operators : gate'[p].wrote # {} => gate'[p].name \in Locks
    BY <1>8, <1>11 DEF GateInv
  <1>21. \A x \in edited' : ~IsAccount(x[1])
    BY <1>1 DEF GateInv
  <1> QED  BY <1>12, <1>14, <1>15, <1>18, <1>19, <1>20, <1>21 DEF GateInv

\* Nobody else touches the accounts.
LEMMA AccountsUntouched ==
    ASSUME GateInv, NEW e, IsAccount(e)
    PROVE  Untouched(e)
  BY DEF GateInv, Untouched

LEMMA AccountRows ==
    ASSUME NEW e \in CafeRows, Has(StepsD3, Put(e)) \/ Has(StepsD3, Look(e))
    PROVE  IsAccount(e)
  <1>1. Program("D3", StepsD3)
    BY ProgramD3
  <1>2. Has(StepsD3, Put(e)) => Has(StepsD3, Look(e))
    BY <1>1 DEF Has, Program
  <1> QED  BY <1>1, <1>2 DEF Program

LEMMA StepsOfD3 == StepsOf("D3") = StepsD3 /\ "D3" \in GateNames /\ "D3" \notin Locks
  BY DEF StepsOf, GateNames, Locks

LEMMA CreateAccountStep ==
    ASSUME GateInv, NEW o \in Operators, gate[o].name = "D3", CreateAccount(o)
    PROVE  GateInv'
  <1>1. PICK a \in RosterAccounts :
          /\ At(o, StepsD3, "put") /\ Here(o, StepsD3) = Account(a)
          /\ <<Account(a), "absent">> \in gate[o].plan
          /\ cafe' = [cafe EXCEPT ![Account(a)] = "exact"]
          /\ Proceed(o, gate[o].plan, gate[o].wrote)
          /\ UNCHANGED <<edited, phantom>>
    BY DEF CreateAccount
  <1>2. PICK b \in CafeRows : b = Account(a) /\ IsAccount(b)
    BY RowsOfAccounts, OtherRows
  <1>3. /\ gate[o].pc \in 1..Len(StepsOf("D3")) /\ Len(StepsOf("D3")) \in Nat
        /\ StepsOf("D3")[gate[o].pc] = Put(b)
    BY <1>1, <1>2, StepsOfD3, StatementAt DEF Put
  <1>4. PICK plan \in SUBSET (CafeRows \X Values), wrote \in SUBSET CafeRows :
           plan = gate[o].plan /\ wrote = gate[o].wrote
    BY StepsOfD3, RunningGate
  <1>5. Proceed(o, plan, wrote)
    BY <1>1, <1>4
  <1>6. PICK r \in GateRecords :
          /\ gate' = [gate EXCEPT ![o] = r] /\ gate'[o] = r
          /\ r.name = "D3" /\ r.plan = plan /\ r.wrote = wrote /\ r.passed = gate[o].passed
          /\ r.pc = gate[o].pc + 1
    BY <1>3, <1>5, StepsOfD3, ProceedsTo
  <1>7. \A x : Passed(o, x)' <=> ByNow(o, "D3", x)
    BY <1>3, <1>6, OneMorePassed DEF ByNow
  <1>8. /\ gate \in [Operators -> GateRecords] /\ cafe \in [CafeRows -> Values]
        /\ \A p \in Operators : p # o => gate'[p] = gate[p]
    BY <1>6 DEF GateInv, GateTypes
  <1>9. gate' \in [Operators -> GateRecords]
    BY <1>6, <1>8
  <1>10. /\ cafe' \in [CafeRows -> Values] /\ cafe'[b] = "exact"
         /\ \A e \in CafeRows : e # b => cafe'[e] = cafe[e]
    BY <1>1, <1>2, <1>8 DEF Values
  <1>11. \A e : Untouched(e)' <=> Untouched(e)
    BY <1>1 DEF Untouched
  <1>12. wrote = {}
    BY <1>4, StepsOfD3 DEF GateInv
  <1>13. PlanJustified(o)'
    <2>1. \A x \in gate'[o].plan : /\ Passed(o, Look(x[1]))' /\ x[2] \in {"absent", "open"}
                                   /\ Untouched(x[1])' => x[2] = "absent"
      BY <1>4, <1>6, <1>7, <1>11, StepsOfD3, KnownSoFar DEF ByNow
    <2> QED  BY <2>1, <1>6, <1>12, StepsOfD3 DEF PlanJustified
  <1>14. StepsDone(o)'
    <2>1. \A e : (Put(b) = Put(e) => e = b) /\ Put(b) \notin {Need(e), Check(e), Look(e)}
      BY Operations
    <2>2. ASSUME NEW e \in CafeRows, Untouched(e)
          PROVE  /\ Passed(o, Need(e))' \/ Passed(o, Check(e))' \/ Passed(o, Look(e))' =>
                      cafe'[e] = "exact" \/ Planned(o, e)'
                 /\ Passed(o, Put(e))' => cafe'[e] = "exact"
      <3>1. Passed(o, Need(e))' \/ Passed(o, Check(e))' \/ Passed(o, Look(e))' =>
               Passed(o, Need(e)) \/ Passed(o, Check(e)) \/ Passed(o, Look(e))
        BY <1>3, <1>7, <2>1 DEF ByNow
      <3>2. Passed(o, Put(e))' => Passed(o, Put(e)) \/ e = b
        BY <1>3, <1>7, <2>1 DEF ByNow
      <3>3. Planned(o, e)' <=> InPlan(gate[o].plan, e)
        BY <1>4, <1>6 DEF Planned, InPlan
      <3> QED  BY <2>2, <3>1, <3>2, <3>3, <1>10, StepsOfD3, KnownSoFar
    <2>3. gate'[o].pc \in 1..(Len(StepsOf(gate'[o].name)) + 1)
      BY <1>3, <1>6
    <2> QED  BY <1>6, <1>11, <2>2, <2>3 DEF StepsDone
  <1>15. ASSUME NEW p \in Operators, gate'[p].name # NoGate PROVE PlanJustified(p)' /\ StepsDone(p)'
    <2>1. CASE p = o
      BY <2>1, <1>13, <1>14
    <2>2. CASE p # o
      <3>1. gate'[p] = gate[p] /\ gate[p].name # NoGate /\ edited \subseteq edited'
        BY <1>1, <1>8, <1>15, <2>2
      <3>2. gate[p].name \in GateNames
        BY <3>1, <1>8 DEF GateRecords
      <3>3. \A e \in CafeRows : cafe[e] = "exact" => cafe'[e] = "exact"
        BY <1>10
      <3>4. gate[p].name \in Locks => \A x \in gate[p].plan : Untouched(x[1])' => cafe'[x[1]] = cafe[x[1]]
        <4> SUFFICES ASSUME gate[p].name \in Locks, NEW x \in gate[p].plan
                     PROVE  x[1] # b /\ x[1] \in CafeRows
          BY <1>10
        <4>1. Passed(p, Look(x[1])) /\ x[1] \in CafeRows
          BY <3>2, KnownSoFar, RunningGate
        <4>2. Has(StepsOf(gate[p].name), Look(x[1]))
          BY <4>1 DEF Has, Passed
        <4> QED  BY <1>2, <3>2, <4>1, <4>2, Programs DEF Program
      <3>5. \A e \in gate[p].wrote : Keyed(e) => cafe'[e] = cafe[e]
        <4> SUFFICES ASSUME NEW e \in gate[p].wrote PROVE e # b /\ e \in CafeRows
          BY <1>10
        <4>1. gate[p].name \in Locks /\ e \in CafeRows
          BY DEF GateInv, GateTypes
        <4>2. PICK x \in gate[p].plan : x[1] = e
          BY <3>2, KnownSoFar DEF InPlan
        <4>3. Passed(p, Look(e))
          BY <3>2, <4>2, KnownSoFar
        <4>4. Has(StepsOf(gate[p].name), Look(e))
          BY <4>3 DEF Has, Passed
        <4> QED  BY <1>2, <3>2, <4>1, <4>4, Programs DEF Program
      <3> QED  BY <3>1, <3>3, <3>4, <3>5, OthersWork
    <2> QED  BY <2>1, <2>2
  <1>16. GatesStand'
    <2>1. \A e \in CafeRows \ {x[1] : x \in edited} : cafe'[e] \in {"absent", "exact"} /\ e \notin phantom
      BY <1>10 DEF GateInv, GatesStand
    <2>2. \A p \in Operators : \A e \in Promised(gate'[p].passed) \ {x[1] : x \in edited} :
             e \in CafeRows => cafe'[e] = "exact"
      <3>1. \A p \in Operators : gate'[p].passed = gate[p].passed
        BY <1>6, <1>8
      <3> QED  BY <1>10, <3>1 DEF GateInv, GatesStand
    <2>3. \A p \in Operators : Promised(gate'[p].passed) \subseteq CafeRows
      <3>1. \A c \in RosterAccounts : Account(c) \in CafeRows
        BY RowsOfAccounts
      <3> QED  BY <3>1, RowsOfAccounts, GateAssumption DEF Promised
    <2>4. \A x \in edited : x[1] # b /\ x[1] \in CafeRows
      BY <1>2 DEF GateInv, GateTypes
    <2>5. \A x \in edited : x[2] = "bad" => cafe'[x[1]] \in {"bad", "double"}
      BY <1>10, <2>4 DEF GateInv, GatesStand
    <2>6. \A x \in edited : x[2] = "bad" /\ Keyed(x[1]) => cafe'[x[1]] = "bad"
      BY <1>10, <2>4 DEF GateInv, GatesStand
    <2> QED  BY <1>1, <2>1, <2>2, <2>3, <2>5, <2>6 DEF GatesStand, Keyed
  <1>17. GateTypes'
    BY <1>1, <1>9, <1>10 DEF GateInv, GateTypes, GateRecords
  <1>18. OneAtATime'
    BY <1>6, <1>8, StepsOfD3 DEF GateInv, OneAtATime
  <1>19. \A p \in Operators : gate'[p].wrote # {} => gate'[p].name \in Locks
    BY <1>6, <1>8, <1>12 DEF GateInv
  <1>20. \A x \in edited' : ~IsAccount(x[1])
    BY <1>1 DEF GateInv
  <1> QED  BY <1>9, <1>15, <1>16, <1>17, <1>18, <1>19, <1>20 DEF GateInv

LEMMA SkipAccountStep ==
    ASSUME GateInv, NEW o \in Operators, gate[o].name = "D3", SkipAccount(o)
    PROVE  GateInv'
  <1> DEFINE s == StepsOf("D3")
  <1>1. /\ At(o, s, "put") /\ <<Here(o, s), "absent">> \notin gate[o].plan
        /\ Proceed(o, gate[o].plan, gate[o].wrote) /\ UNCHANGED <<cafe, edited, phantom>>
    BY StepsOfD3 DEF SkipAccount
  <1>2. PICK e \in CafeRows : e = Here(o, s)
    BY <1>1, StepsOfD3, StatementAt
  <1>3. gate[o].pc \in 1..Len(s) /\ gate[o].pc \in Nat /\ Len(s) \in Nat /\ s[gate[o].pc] = Put(e)
    BY <1>1, <1>2, StepsOfD3, StatementAt DEF Put
  <1>4. PICK plan \in SUBSET (CafeRows \X Values), wrote \in SUBSET CafeRows :
           plan = gate[o].plan /\ wrote = gate[o].wrote
    BY StepsOfD3, RunningGate
  <1>5. Proceed(o, plan, wrote) /\ UNCHANGED <<cafe, edited, phantom>>
    BY <1>1, <1>4
  <1>6. IsAccount(e)
    <2>1. Has(StepsD3, Put(e))
      BY <1>3, StepsOfD3 DEF Has
    <2> QED  BY <2>1, AccountRows
  <1>7. cafe[e] = "exact"
    <2>1. PICK l \in 1..Len(s) : l < gate[o].pc /\ s[l] = Look(e)
      BY <1>3, StepsOfD3, ProgramD3 DEF Program
    <2>2. Passed(o, Look(e))
      BY <2>1 DEF Passed
    <2>3. Untouched(e)
      BY <1>6, AccountsUntouched
    <2>4. ~InPlan(gate[o].plan, e)
      <3> SUFFICES ASSUME NEW x \in gate[o].plan, x[1] = e PROVE FALSE
        BY DEF InPlan
      <3>1. x[2] = "absent"
        BY <2>3, StepsOfD3, KnownSoFar
      <3>2. x = <<e, "absent">>
        BY <1>4, <3>1
      <3> QED  BY <1>1, <1>2, <3>2
    <2> QED  BY <2>2, <2>3, <2>4, StepsOfD3, KnownSoFar
  <1>8. \A d : (Put(e) = Put(d) => d = e) /\ Put(e) \notin {Need(d), Check(d), Look(d)}
    BY Operations
  <1>9. \A x \in plan : /\ ByNow(o, "D3", Look(x[1])) /\ x[2] \in {"absent", "open"}
                        /\ Untouched(x[1]) => x[2] = "absent"
                        /\ Untouched(x[1]) /\ "D3" \in Locks => cafe[x[1]] = "absent"
    BY <1>4, StepsOfD3, KnownSoFar DEF ByNow
  <1>10. \A d \in wrote : InPlan(plan, d) /\ (Keyed(d) => cafe[d] \in {"absent", "open"})
    BY <1>4, StepsOfD3, KnownSoFar
  <1>11. wrote # {} => "D3" \in Locks
    BY <1>4 DEF GateInv
  <1>12. ASSUME NEW d \in CafeRows, Untouched(d)
         PROVE  /\ ByNow(o, "D3", Need(d)) \/ ByNow(o, "D3", Check(d)) \/ ByNow(o, "D3", Look(d)) =>
                      cafe[d] = "exact" \/ InPlan(plan, d)
                /\ ByNow(o, "D3", Put(d)) => IF "D3" = "D3" THEN cafe[d] = "exact"
                                             ELSE InPlan(plan, d) => d \in wrote
    BY <1>3, <1>4, <1>7, <1>8, <1>12, StepsOfD3, KnownSoFar DEF ByNow
  <1> QED  BY <1>3, <1>5, <1>9, <1>10, <1>11, <1>12, StepsOfD3, Proceeding

LEMMA AccountsCreated ==
    ASSUME GateInv, NEW o \in Operators, gate[o].name = "D3", gate[o].pc = Len(StepsD3) + 1,
           Ends(o, "D3"), UNCHANGED <<cafe, edited, phantom>>
    PROVE  GateInv'
  <1>1. Promised("D3") = {Account(a) : a \in RosterAccounts}
    BY GateAssumption DEF Promised, GateNames
  <1>2. ASSUME NEW a \in RosterAccounts PROVE cafe[Account(a)] = "exact"
    <2>1. PICK k \in 1..Len(StepsD3) : StepsD3[k] = Put(Account(a))
      BY ProgramD3 DEF Program, Has
    <2>2. Len(StepsD3) \in Nat
      BY ProgramD3 DEF Program
    <2>3. Passed(o, Put(Account(a)))
      BY <2>1, <2>2, StepsOfD3 DEF Passed
    <2>4. Account(a) \in CafeRows /\ Untouched(Account(a))
      BY RowsOfAccounts, OtherRows, AccountsUntouched
    <2> QED  BY <2>3, <2>4, StepsOfD3, KnownSoFar
  <1> QED  BY <1>1, <1>2, StepsOfD3, EndsStep

LEMMA ReadsStep ==
    ASSUME GateInv, NEW o \in Operators, NEW g \in GateNames, gate[o].name = g, Reads(o, StepsOf(g))
    PROVE  GateInv'
  <1> DEFINE e == Here(o, StepsOf(g))
  <1>1. UNCHANGED <<cafe, edited, phantom>>
    BY DEF Reads
  <1>2. CASE Ends(o, NoGate)
    BY <1>1, <1>2, BreaksStep
  <1>3. CASE /\ At(o, StepsOf(g), "need") \/ At(o, StepsOf(g), "check")
             /\ Seen(o, e) \in Acceptable(g, e)
             /\ Proceed(o, gate[o].plan, gate[o].wrote)
    BY <1>1, <1>3, NeedStep
  <1>4. CASE /\ At(o, StepsOf(g), "look") /\ Seen(o, e) \notin Refused(e)
             /\ Proceed(o, IF Seen(o, e) \in {"absent", "open"} THEN gate[o].plan \cup {<<e, Seen(o, e)>>}
                           ELSE gate[o].plan, gate[o].wrote)
    BY <1>1, <1>4, LookStep
  <1> QED  BY <1>2, <1>3, <1>4 DEF Reads

LEMMA TransactsStep ==
    ASSUME GateInv, NEW o \in Operators, NEW g \in GateNames, g # "D3", Transacts(o, g, StepsOf(g))
    PROVE  GateInv'
  <1>1. CASE Start(o, g)
    BY <1>1, StartStep
  <1>2. CASE gate[o].name = g /\ Reads(o, StepsOf(g))
    BY <1>2, ReadsStep
  <1>3. CASE gate[o].name = g /\ Writes(o, StepsOf(g))
    BY <1>3, WriteStep
  <1>4. CASE gate[o].name = g /\ Completes(o, g, StepsOf(g))
    BY <1>4, CompletesStep
  <1>5. CASE Breaks(o)
    BY <1>5, BreaksStep DEF Breaks
  <1> QED  BY <1>1, <1>2, <1>3, <1>4, <1>5 DEF Transacts

LEMMA GateD3Step ==
    ASSUME GateInv, NEW o \in Operators, GateD3(o)
    PROVE  GateInv'
  <1>1. CASE Start(o, "D3")
    BY <1>1, StepsOfD3, StartStep
  <1>2. CASE gate[o].name = "D3" /\ Reads(o, StepsD3)
    BY <1>2, StepsOfD3, ReadsStep
  <1>3. CASE Breaks(o)
    BY <1>3, BreaksStep DEF Breaks
  <1> QED  BY <1>1, <1>2, <1>3, CreateAccountStep, SkipAccountStep, AccountsCreated DEF GateD3

LEMMA OthersStep ==
    ASSUME GateInv, NEW e \in CafeRows, NEW v \in Values, Others(e, v)
    PROVE  GateInv'
  <1>1. /\ ~Held(e)
        /\ \/ cafe[e] = "absent" /\ v \in Insertable(e)
           \/ cafe[e] \in {"open", "exact"} /\ v \in Blocks(e) /\ v # cafe[e]
        /\ cafe' = [cafe EXCEPT ![e] = v] /\ edited' = edited \cup {<<e, v>>} /\ gate' = gate /\ phantom' = phantom
    BY DEF Others
  <1>2. ~IsAccount(e)
    <2>1. CASE IsAccount(e)
      <3>1. e # Tenant /\ e # Location /\ e # Module
        BY <2>1, OtherRows
      <3>2. Insertable(e) = {} /\ Blocks(e) = {}
        BY <2>1, <3>1 DEF IsAccount, Insertable, Blocks
      <3> QED  BY <1>1, <3>2
    <2> QED  BY <2>1
  <1>3. cafe \in [CafeRows -> Values] /\ edited \subseteq CafeRows \X Values
    BY DEF GateInv, GateTypes
  <1>4. /\ cafe' \in [CafeRows -> Values] /\ cafe'[e] = v
        /\ \A d \in CafeRows : d # e => cafe'[d] = cafe[d]
    BY <1>1, <1>3
  <1>5. \A d : Untouched(d)' => d # e
    <2>1. <<e, v>> \in edited' /\ <<e, v>>[1] = e
      BY <1>1
    <2> QED  BY <2>1 DEF Untouched
  <1>6. GateTypes'
    BY <1>1, <1>3, <1>4 DEF GateInv, GateTypes
  <1>7. ASSUME NEW p \in Operators, gate[p].name # NoGate PROVE PlanJustified(p)' /\ StepsDone(p)'
    <2>1. \A d \in CafeRows : IsAccount(d) /\ cafe[d] = "exact" => cafe'[d] = "exact"
      BY <1>2, <1>4
    <2>2. \A d \in CafeRows : Untouched(d)' /\ cafe[d] = "exact" => cafe'[d] = "exact"
      BY <1>4, <1>5
    <2>3. gate[p].plan \subseteq CafeRows \X Values /\ gate[p].wrote \subseteq CafeRows
      BY DEF GateInv, GateTypes
    <2>4. \A x \in gate[p].plan : Untouched(x[1])' => cafe'[x[1]] = cafe[x[1]]
      BY <1>4, <1>5, <2>3
    <2>5. \A d \in gate[p].wrote : Keyed(d) => cafe'[d] = cafe[d]
      BY <1>1, <1>4, <2>3 DEF Held
    <2> QED  BY <1>1, <1>7, <2>1, <2>2, <2>4, <2>5, OthersWork
  <1>8. \A d : d \notin {x[1] : x \in edited'} => d # e /\ d \notin {x[1] : x \in edited}
    BY <1>1
  <1>9. GatesStand'
    <2>1. \A d \in CafeRows \ {x[1] : x \in edited'} : cafe'[d] \in {"absent", "exact"} /\ d \notin phantom'
      BY <1>1, <1>4, <1>8 DEF GateInv, GatesStand
    <2>2. \A p \in Operators : Promised(gate[p].passed) \subseteq CafeRows
      <3>1. \A c \in RosterAccounts : Account(c) \in CafeRows
        BY RowsOfAccounts
      <3> QED  BY <3>1, RowsOfAccounts, GateAssumption DEF Promised
    <2>3. \A p \in Operators : \A d \in Promised(gate'[p].passed) \ {x[1] : x \in edited'} : cafe'[d] = "exact"
      BY <1>1, <1>4, <1>8, <2>2 DEF GateInv, GatesStand
    <2>4. ASSUME NEW x \in edited', x[2] = "bad"
          PROVE  cafe'[x[1]] \in {"bad", "double"} /\ (Keyed(x[1]) => cafe'[x[1]] = "bad")
      <3>1. CASE x = <<e, v>>
        BY <2>4, <3>1, <1>4
      <3>2. CASE x \in edited
        <4>1. cafe[x[1]] \in {"bad", "double"} /\ (Keyed(x[1]) => cafe[x[1]] = "bad")
          BY <2>4, <3>2 DEF GateInv, GatesStand
        <4>2. x[1] # e /\ x[1] \in CafeRows
          BY <1>1, <1>3, <3>2, <4>1
        <4> QED  BY <1>4, <4>1, <4>2
      <3> QED  BY <1>1, <3>1, <3>2
    <2> QED  BY <2>1, <2>3, <2>4 DEF GatesStand, Keyed
  <1>10. \A x \in edited' : ~IsAccount(x[1])
    BY <1>1, <1>2 DEF GateInv
  <1>11. OneAtATime' /\ gate' \in [Operators -> GateRecords]
         /\ \A p \in Operators : gate'[p].wrote # {} => gate'[p].name \in Locks
    BY <1>1 DEF GateInv, OneAtATime
  <1> QED  BY <1>1, <1>6, <1>7, <1>9, <1>10, <1>11 DEF GateInv

LEMMA GateInvNext ==
    ASSUME GateInv, [GateNext]_gateVars
    PROVE  GateInv'
  <1>1. CASE UNCHANGED gateVars
    <2>1. \A o, x : Passed(o, x)' <=> Passed(o, x)
      BY <1>1 DEF gateVars, Passed
    <2>2. \A e : Untouched(e)' <=> Untouched(e)
      BY <1>1 DEF gateVars, Untouched
    <2>3. \A o, e : Planned(o, e)' <=> Planned(o, e)
      BY <1>1 DEF gateVars, Planned
    <2>4. ASSUME NEW o \in Operators, gate[o].name # NoGate PROVE PlanJustified(o)' /\ StepsDone(o)'
      <3>1. gate[o].plan \subseteq CafeRows \X Values /\ gate[o].wrote \subseteq CafeRows
        BY DEF GateInv, GateTypes
      <3> QED  BY <1>1, <2>4, <3>1, OthersWork, <2>2 DEF gateVars
    <2>5. GatesStand' /\ GateTypes' /\ OneAtATime'
      BY <1>1 DEF gateVars, GateInv, GatesStand, GateTypes, OneAtATime, Keyed
    <2> QED  BY <1>1, <2>4, <2>5 DEF gateVars, GateInv
  <1>2. ASSUME NEW o \in Operators, GateD1(o) \/ GateD2(o) \/ GateD4(o) \/ GateD5(o) \/ GateD6(o) \/ GateD7(o)
        PROVE  GateInv'
    <2>1. PICK g \in GateNames \ {"D3"} : Transacts(o, g, StepsOf(g))
      BY <1>2 DEF GateD1, GateD2, GateD4, GateD5, GateD6, GateD7, StepsOf, GateNames
    <2> QED  BY <2>1, TransactsStep
  <1> QED  BY <1>1, <1>2, GateD3Step, OthersStep DEF GateNext

THEOREM GateInvariant == GateSpec => []GateInv
  BY GateInvInit, GateInvNext, PTL DEF GateSpec

(* The types of CloudGates, for any roster and any number of operators.      *)
THEOREM GateTypesHold == GateSpec => []GateTypes
  <1>1. GateInv => GateTypes
    BY DEF GateInv
  <1> QED  BY <1>1, GateInvariant, PTL

(* However many operators run the gates, whatever the roster, and however    *)
(* often they fail and are repeated: a gate that answered with success       *)
(* stands with all it rests on, no row is there twice, the audit log tells   *)
(* of no change that was not made, and what others suspended stays so.       *)
THEOREM GatesStandForAll == GateSpec => []GatesStand
  <1>1. GateInv => GatesStand
    BY DEF GateInv
  <1> QED  BY <1>1, GateInvariant, PTL
=============================================================================
