---------------------------- MODULE NameIndexProofs ----------------------------
(***************************************************************************)
(* The index of a name server, over crashes, torn writes and restarts:     *)
(* every entry was logged, the first registration of a name wins, and an   *)
(* index whose log is not damaged is a durable map.                        *)
(***************************************************************************)
EXTENDS NameIndex, WellFoundedInduction, TLAPS

-----------------------------------------------------------------------------
(* Replaying a log record by record.                                       *)

\* Induction over a set of numbers.
LEMMA Climb ==
    ASSUME NEW S, 0 \in S, \A k \in Nat : k \in S => k + 1 \in S
    PROVE  Nat \subseteq S
<1>1. SUFFICES ASSUME Nat \ S # {} PROVE FALSE
  OBVIOUS
<1>2. PICK m \in Nat \ S : \A k \in Nat \ S : <<k, m>> \notin OpToRel(<, Nat)
  BY <1>1, NatLessThanWellFounded, WFMin
<1>3. m \in Nat /\ m \notin S /\ m # 0
  BY <1>2
<1>4. m - 1 \in Nat /\ m - 1 < m /\ (m - 1) + 1 = m
  BY <1>3
<1>5. m - 1 \notin S
  BY <1>3, <1>4
<1>6. <<m - 1, m>> \in OpToRel(<, Nat)
  BY <1>3, <1>4 DEF OpToRel
<1>7. QED BY <1>2, <1>4, <1>5, <1>6

\* What FoldLeft makes of a sequence s: it is a function of sets of positions.
FoldRule(f, s, d) ==
    [t \in SUBSET d |-> IF t = {} THEN Empty ELSE Replayed(f[t \ {Max(t)}], s[Max(t)])]

Folds(s) == CHOOSE f : f = FoldRule(f, s, DOMAIN s)

LEMMA FoldIs ==
    ASSUME NEW s
    PROVE  FoldLeft(Replayed, Empty, s) = Folds(s)[DOMAIN s]
  BY DEF FoldLeft, MapThenFoldSet, FoldRule, Folds

LEMMA LastIsMax ==
    ASSUME NEW m \in Nat, NEW t \in SUBSET (1..m), m \in t
    PROVE  Max(t) = m
<1>1. \E x \in t : \A y \in t : x >= y
  OBVIOUS
<1>2. Max(t) \in t /\ \A y \in t : Max(t) >= y
  BY <1>1 DEF Max
<1>3. Max(t) \in 1..m /\ Max(t) >= m
  BY <1>2
<1>4. \A x \in 1..m : x >= m => x = m
  OBVIOUS
<1>5. QED BY <1>3, <1>4

LEMMA FoldExists ==
    ASSUME NEW s, NEW n \in Nat
    PROVE  \E f : f = FoldRule(f, s, 1..n)
<1> DEFINE S == {k \in Nat : \E f : f = FoldRule(f, s, 1..k)}
<1>1. 0 \in S
  <2> DEFINE f == [t \in SUBSET (1..0) |-> Empty]
  <2>1. f = FoldRule(f, s, 1..0)
    <3>1. \A t \in SUBSET (1..0) : t = {}
      OBVIOUS
    <3>2. QED BY <3>1 DEF FoldRule
  <2>2. QED BY <2>1
<1>2. ASSUME NEW k \in Nat, k \in S PROVE k + 1 \in S
  <2>1. PICK f : f = FoldRule(f, s, 1..k)
    BY <1>2
  <2> DEFINE g == [t \in SUBSET (1..(k + 1)) |->
                     IF k + 1 \in t THEN Replayed(f[t \ {k + 1}], s[k + 1]) ELSE f[t]]
             rule(t) == IF t = {} THEN Empty ELSE Replayed(g[t \ {Max(t)}], s[Max(t)])
  <2>2. ASSUME NEW t \in SUBSET (1..(k + 1)) PROVE g[t] = rule(t)
    <3>1. CASE k + 1 \in t
      <4>1. Max(t) = k + 1 /\ t # {}
        BY <3>1, LastIsMax
      <4>2. t \ {k + 1} \in SUBSET (1..(k + 1)) /\ k + 1 \notin t \ {k + 1}
        OBVIOUS
      <4>3. g[t \ {k + 1}] = f[t \ {k + 1}]
        BY <4>2
      <4>4. QED BY <3>1, <4>1, <4>3
    <3>2. CASE k + 1 \notin t
      <4>1. t \in SUBSET (1..k)
        BY <3>2
      <4>2. f[t] = IF t = {} THEN Empty ELSE Replayed(f[t \ {Max(t)}], s[Max(t)])
        BY <2>1, <4>1 DEF FoldRule
      <4>3. t \ {Max(t)} \in SUBSET (1..(k + 1)) /\ k + 1 \notin t \ {Max(t)}
        BY <3>2
      <4>4. g[t \ {Max(t)}] = f[t \ {Max(t)}] /\ g[t] = f[t]
        BY <3>2, <4>3
      <4>5. QED BY <4>2, <4>4
    <3>3. QED BY <3>1, <3>2
  <2>3. g = FoldRule(g, s, 1..(k + 1))
    <3>1. g = [t \in SUBSET (1..(k + 1)) |-> g[t]]
      OBVIOUS
    <3> HIDE DEF g
    <3>2. g = [t \in SUBSET (1..(k + 1)) |-> rule(t)]
      BY <2>2, <3>1
    <3>3. QED BY <3>2 DEF FoldRule
  <2> HIDE DEF g
  <2>4. k + 1 \in Nat
    OBVIOUS
  <2>5. QED BY <2>3, <2>4
<1> HIDE DEF S
<1>3. n \in S
  BY <1>1, <1>2, Climb
<1>4. QED BY <1>3 DEF S

\* The table after the first k records of s.
After(s, k) == Folds(s)[1..k]

LEMMA AfterStep ==
    ASSUME NEW s, NEW n \in Nat, DOMAIN s = 1..n
    PROVE  /\ FoldLeft(Replayed, Empty, s) = After(s, n)
           /\ After(s, 0) = Empty
           /\ \A k \in 1..n : After(s, k) = Replayed(After(s, k - 1), s[k])
<1>1. Folds(s) = FoldRule(Folds(s), s, 1..n)
  BY FoldExists DEF Folds
<1>2. After(s, 0) = Empty
  <2>1. 1..0 = {} /\ 1..0 \in SUBSET (1..n)
    OBVIOUS
  <2>2. QED BY <1>1, <2>1 DEF FoldRule, After
<1>3. ASSUME NEW k \in 1..n PROVE After(s, k) = Replayed(After(s, k - 1), s[k])
  <2>1. 1..k \in SUBSET (1..n) /\ 1..k # {} /\ Max(1..k) = k
    BY LastIsMax
  <2>2. (1..k) \ {k} = 1..(k - 1)
    OBVIOUS
  <2>3. QED BY <1>1, <2>1, <2>2 DEF FoldRule, After
<1>4. QED BY <1>2, <1>3, FoldIs DEF After

\* Two logs with the same first n records make the same of them.
LEMMA SamePrefix ==
    ASSUME NEW s, NEW r, NEW n \in Nat, NEW m \in Nat, NEW l \in Nat, l <= n, l <= m,
           DOMAIN s = 1..n, DOMAIN r = 1..m, \A i \in 1..l : s[i] = r[i]
    PROVE  After(s, l) = After(r, l)
<1> DEFINE S == {k \in Nat : k <= l => After(s, k) = After(r, k)}
<1>1. 0 \in S
  BY AfterStep
<1>2. ASSUME NEW k \in Nat, k \in S PROVE k + 1 \in S
  <2>1. ASSUME k + 1 <= l PROVE After(s, k + 1) = After(r, k + 1)
    <3>1. k + 1 \in 1..n /\ k + 1 \in 1..m /\ k + 1 \in 1..l /\ (k + 1) - 1 = k /\ k <= l
      BY <2>1
    <3>2. After(s, k) = After(r, k)
      BY <1>2, <3>1
    <3>3. /\ After(s, k + 1) = Replayed(After(s, k), s[k + 1])
          /\ After(r, k + 1) = Replayed(After(r, k), r[k + 1])
      BY <3>1, AfterStep
    <3>4. QED BY <3>1, <3>2, <3>3
  <2>2. QED BY <2>1
<1> HIDE DEF S
<1>3. l \in S
  BY <1>1, <1>2, Climb
<1>4. QED BY <1>3 DEF S

-----------------------------------------------------------------------------
(* The records that are read.                                              *)

\* What the log holds: registrations, deletions and fragments.
Record == [type : {"add", "head", "body"}, key : Key, val : [loc : Loc, ref : {1}] \cup {NoEntry}]

Cut(s) == {i \in DOMAIN s : ~Intact(s[i])}

LEMMA LeastCut ==
    ASSUME NEW S \in SUBSET Nat, S # {}
    PROVE  /\ (CHOOSE i \in S : \A j \in S : i <= j) \in S
           /\ \A j \in S : (CHOOSE i \in S : \A k \in S : i <= k) <= j
<1>1. PICK m \in S : \A k \in S : <<k, m>> \notin OpToRel(<, Nat)
  BY NatLessThanWellFounded, WFMin
<1>2. \A k \in S : ~(k < m)
  BY <1>1 DEF OpToRel
<1>3. m \in Nat /\ \A k \in S : k \in Nat
  OBVIOUS
<1>4. \A k \in S : m <= k
  BY <1>2, <1>3
<1>5. QED BY <1>4

\* What is read is what lies before the first fragment.
LEMMA ReadableIs ==
    ASSUME NEW s \in Seq(Record)
    PROVE  /\ Readable(s) \in Seq(Record) /\ Len(Readable(s)) \in 0..Len(s)
           /\ \A i \in 1..Len(Readable(s)) : Readable(s)[i] = s[i] /\ Intact(s[i])
           /\ Len(Readable(s)) < Len(s) => ~Intact(s[Len(Readable(s)) + 1])
           /\ Cut(s) = {} <=> Len(Readable(s)) = Len(s)
<1>1. Cut(s) \in SUBSET Nat /\ DOMAIN s = 1..Len(s) /\ Len(s) \in Nat
  BY DEF Cut
<1>2. CASE Cut(s) = {}
  <2>1. Readable(s) = s
    BY <1>2 DEF Readable, Cut
  <2>2. \A i \in 1..Len(s) : Intact(s[i])
    BY <1>1, <1>2 DEF Cut
  <2>3. QED BY <1>1, <1>2, <2>1, <2>2
<1>3. CASE Cut(s) # {}
  <2> DEFINE c == CHOOSE i \in Cut(s) : \A j \in Cut(s) : i <= j
  <2>1. c \in Cut(s) /\ \A j \in Cut(s) : c <= j
    BY <1>1, <1>3, LeastCut
  <2>2. Readable(s) = SubSeq(s, 1, c - 1)
    BY <1>3 DEF Readable, Cut
  <2> HIDE DEF c
  <2>3. c \in 1..Len(s) /\ ~Intact(s[c])
    BY <1>1, <2>1 DEF Cut
  <2>4. \A i \in 1..(c - 1) : Intact(s[i])
    BY <1>1, <2>1, <2>3 DEF Cut
  <2>5. /\ SubSeq(s, 1, c - 1) \in Seq(Record) /\ Len(SubSeq(s, 1, c - 1)) = c - 1
        /\ \A i \in 1..(c - 1) : SubSeq(s, 1, c - 1)[i] = s[i]
    BY <2>3
  <2>6. (c - 1) + 1 = c /\ c - 1 \in 0..Len(s) /\ c - 1 # Len(s)
    BY <1>1, <2>3
  <2>7. QED BY <1>3, <2>2, <2>3, <2>4, <2>5, <2>6
<1>4. QED BY <1>2, <1>3

\* A record behind the others is read unless a fragment comes before it.
LEMMA ReadableAppend ==
    ASSUME NEW s \in Seq(Record), NEW r \in Record, Intact(r)
    PROVE  /\ Append(s, r) \in Seq(Record) /\ Len(Append(s, r)) = Len(s) + 1
           /\ \A i \in 1..Len(s) : Append(s, r)[i] = s[i]
           /\ Append(s, r)[Len(s) + 1] = r
           /\ Cut(s) = {} => Cut(Append(s, r)) = {} /\ Len(Readable(Append(s, r))) = Len(s) + 1
           /\ Cut(s) # {} => Len(Readable(Append(s, r))) = Len(Readable(s))
<1> DEFINE a == Append(s, r)
<1>1. /\ a \in Seq(Record) /\ Len(a) = Len(s) + 1 /\ Len(s) \in Nat
      /\ \A i \in 1..Len(s) : a[i] = s[i]
      /\ a[Len(s) + 1] = r
  OBVIOUS
<1>2. DOMAIN a = 1..(Len(s) + 1) /\ DOMAIN s = 1..Len(s)
  BY <1>1
<1> HIDE DEF a
<1>3. Cut(a) = Cut(s)
  <2>1. \A i \in 1..(Len(s) + 1) : ~Intact(a[i]) <=> i \in 1..Len(s) /\ ~Intact(s[i])
    BY <1>1
  <2>2. QED BY <1>1, <1>2, <2>1 DEF Cut
<1>4. Cut(s) # {} => Len(Readable(a)) = Len(Readable(s))
  <2>1. SUFFICES ASSUME Cut(s) # {} PROVE Len(Readable(a)) = Len(Readable(s))
    OBVIOUS
  <2> DEFINE n == Len(Readable(s))
             m == Len(Readable(a))
  <2>2. /\ n \in 0..Len(s) /\ n < Len(s) /\ ~Intact(s[n + 1])
        /\ \A i \in 1..n : Intact(s[i])
    BY <1>1, <2>1, ReadableIs
  <2>3. /\ m \in 0..Len(a) /\ m < Len(a) /\ ~Intact(a[m + 1])
        /\ \A i \in 1..m : Intact(a[i])
    <3>1. Cut(a) # {} /\ a \in Seq(Record)
      BY <1>1, <1>3, <2>1
    <3>2. m \in 0..Len(a) /\ m # Len(a) /\ \A i \in 1..m : Intact(a[i])
      BY <3>1, ReadableIs
    <3>3. m < Len(a)
      BY <1>1, <3>2
    <3>4. ~Intact(a[m + 1])
      BY <3>1, <3>3, ReadableIs
    <3>5. QED BY <3>2, <3>3, <3>4
  <2> HIDE DEF n, m
  <2>4. ~(m < n)
    BY <1>1, <2>2, <2>3
  <2>5. ~(n < m)
    BY <1>1, <2>2, <2>3
  <2>6. n = m
    BY <1>1, <2>2, <2>3, <2>4, <2>5
  <2>7. QED BY <2>6 DEF n, m
<1>5. QED BY <1>1, <1>3, <1>4, ReadableIs DEF a

-----------------------------------------------------------------------------
(* What replaying makes of a log.                                          *)

Registers(r, k) == r.key = k /\ r.val # NoEntry

\* In the table t each name has what the first of m records about it says.
FromLog(s, m, t) ==
    /\ t \in [Key -> [loc : Loc, ref : {1}] \cup {NoEntry}]
    /\ \A k \in Key :
          \/ t[k] = NoEntry /\ \A j \in 1..m : ~Registers(s[j], k)
          \/ \E i \in 1..m : /\ Registers(s[i], k) /\ t[k] = s[i].val
                             /\ \A j \in 1..(i - 1) : ~Registers(s[j], k)

LEMMA ReplayedAdd ==
    ASSUME NEW t, NEW r, r.type = "add"
    PROVE  Replayed(t, r) = IF r.val # NoEntry /\ t[r.key] = NoEntry
                            THEN [t EXCEPT ![r.key] = r.val] ELSE t
  BY DEF Replayed

LEMMA ReplayedFromLog ==
    ASSUME NEW s, NEW m \in Nat, NEW t, FromLog(s, m, t),
           s[m + 1] \in Record, s[m + 1].type = "add"
    PROVE  FromLog(s, m + 1, Replayed(t, s[m + 1]))
<1> DEFINE r == s[m + 1]
           u == Replayed(t, r)
<1>1. /\ r.key \in Key /\ r.val \in [loc : Loc, ref : {1}] \cup {NoEntry}
      /\ t \in [Key -> [loc : Loc, ref : {1}] \cup {NoEntry}]
  BY DEF Record, FromLog
<1>2. u = IF r.val # NoEntry /\ t[r.key] = NoEntry THEN [t EXCEPT ![r.key] = r.val] ELSE t
  BY ReplayedAdd
<1>3. m + 1 \in Nat /\ 1..(m + 1) = (1..m) \cup {m + 1} /\ (m + 1) - 1 = m
  OBVIOUS
<1> HIDE DEF u
<1>4. u \in [Key -> [loc : Loc, ref : {1}] \cup {NoEntry}]
  BY <1>1, <1>2
<1>5. ASSUME NEW k \in Key
      PROVE  \/ u[k] = NoEntry /\ \A j \in 1..(m + 1) : ~Registers(s[j], k)
             \/ \E i \in 1..(m + 1) : /\ Registers(s[i], k) /\ u[k] = s[i].val
                                      /\ \A j \in 1..(i - 1) : ~Registers(s[j], k)
  <2>1. CASE t[k] = NoEntry /\ \A j \in 1..m : ~Registers(s[j], k)
    <3>1. CASE Registers(r, k)
      <4>1. u[k] = r.val
        BY <1>1, <1>2, <2>1, <3>1 DEF Registers
      <4>2. \A j \in 1..((m + 1) - 1) : ~Registers(s[j], k)
        BY <1>3, <2>1
      <4>3. m + 1 \in 1..(m + 1)
        OBVIOUS
      <4>4. QED BY <3>1, <4>1, <4>2, <4>3
    <3>2. CASE ~Registers(r, k)
      <4>1. u[k] = t[k]
        BY <1>1, <1>2, <3>2 DEF Registers
      <4>2. QED BY <1>3, <2>1, <3>2, <4>1
    <3>3. QED BY <3>1, <3>2
  <2>2. ASSUME NEW i \in 1..m, Registers(s[i], k), t[k] = s[i].val,
               \A j \in 1..(i - 1) : ~Registers(s[j], k)
        PROVE  \E l \in 1..(m + 1) : /\ Registers(s[l], k) /\ u[k] = s[l].val
                                     /\ \A j \in 1..(l - 1) : ~Registers(s[j], k)
    <3>1. t[k] # NoEntry
      BY <2>2 DEF Registers
    <3>2. u[k] = t[k]
      BY <1>1, <1>2, <3>1
    <3>3. i \in 1..(m + 1)
      OBVIOUS
    <3>4. QED BY <2>2, <3>2, <3>3
  <2>3. QED BY <2>1, <2>2 DEF FromLog
<1>6. QED BY <1>4, <1>5 DEF FromLog, u

LEMMA ReplayFromLog ==
    ASSUME NEW s \in Seq(Record)
    PROVE  FromLog(s, Len(Readable(s)), Replay(s))
<1> DEFINE d == Readable(s)
           n == Len(d)
           S == {m \in Nat : m <= n => FromLog(s, m, After(d, m))}
<1>1. /\ d \in Seq(Record) /\ DOMAIN d = 1..n /\ n \in Nat /\ n <= Len(s)
      /\ \A i \in 1..n : d[i] = s[i] /\ Intact(s[i])
  BY ReadableIs
<1> HIDE DEF d, n
<1>2. 0 \in S
  <2>1. FromLog(s, 0, Empty)
    BY DEF FromLog, Empty
  <2>2. QED BY <1>1, <2>1, AfterStep
<1>3. ASSUME NEW m \in Nat, m \in S PROVE m + 1 \in S
  <2>1. ASSUME m + 1 <= n PROVE FromLog(s, m + 1, After(d, m + 1))
    <3>1. m + 1 \in 1..n /\ m <= n /\ (m + 1) - 1 = m
      BY <1>1, <2>1
    <3>2. FromLog(s, m, After(d, m))
      BY <1>3, <3>1
    <3>3. After(d, m + 1) = Replayed(After(d, m), s[m + 1])
      BY <1>1, <3>1, AfterStep
    <3>4. s[m + 1] \in Record /\ s[m + 1].type = "add"
      <4>1. m + 1 \in 1..Len(s)
        BY <1>1, <3>1
      <4>2. s[m + 1] \in Record /\ Intact(s[m + 1])
        BY <1>1, <3>1, <4>1
      <4>3. QED BY <4>2 DEF Record, Intact
    <3>5. QED BY <3>2, <3>3, <3>4, ReplayedFromLog
  <2>2. QED BY <2>1
<1> HIDE DEF S
<1>4. n \in S
  BY <1>1, <1>2, <1>3, Climb
<1>5. Replay(s) = After(d, n)
  BY <1>1, AfterStep DEF Replay, d
<1>6. QED BY <1>1, <1>4, <1>5 DEF S, n, d

LEMMA ReplayAppend ==
    ASSUME NEW s \in Seq(Record), Cut(s) = {}, NEW r \in Record, r.type = "add"
    PROVE  Replay(Append(s, r)) = Replayed(Replay(s), r)
<1> DEFINE a == Append(s, r)
           n == Len(s)
<1>1. Intact(r)
  BY DEF Intact
<1>2. /\ a \in Seq(Record) /\ Len(a) = n + 1 /\ n \in Nat /\ Cut(a) = {}
      /\ \A i \in 1..n : a[i] = s[i]
      /\ a[n + 1] = r
  BY <1>1, ReadableAppend
<1>3. Readable(s) = s /\ Readable(a) = a
  BY <1>2 DEF Readable, Cut
<1>4. DOMAIN a = 1..(n + 1) /\ DOMAIN s = 1..n
  BY <1>2
<1> HIDE DEF a, n
<1>5. n + 1 \in Nat /\ n + 1 \in 1..(n + 1) /\ (n + 1) - 1 = n /\ n <= n + 1
  BY <1>2
<1>6. /\ Replay(s) = After(s, n) /\ Replay(a) = After(a, n + 1)
      /\ After(a, n + 1) = Replayed(After(a, n), r)
  BY <1>2, <1>3, <1>4, <1>5, AfterStep DEF Replay
<1>7. After(a, n) = After(s, n)
  BY <1>2, <1>4, <1>5, SamePrefix
<1>8. QED BY <1>6, <1>7 DEF a

-----------------------------------------------------------------------------
(* The inductive invariant.                                                *)

IndexTypeOK ==
    /\ mem \in [Key -> [loc : Loc, ref : Nat \ {0}] \cup {NoEntry}]
    /\ log \in Seq(Record)
    /\ proc \in {"up", "down", "failed"}

\* A log is damaged only where writes are cut short.
WholeUnlessTorn == "torn" \notin faults => Cut(log) = {}

IndexIInv == IndexTypeOK /\ WholeUnlessTorn /\ EntryWasLogged /\ FirstWins

LEMMA LocIsNotNone ==
    ASSUME NEW e \in [loc : Loc, ref : Nat] \cup {NoEntry}
    PROVE  /\ e = NoEntry <=> e.loc = None
           /\ e # NoEntry => e.loc \in Loc
<1>1. CASE e = NoEntry
  BY <1>1 DEF NoEntry
<1>2. CASE e \in [loc : Loc, ref : Nat]
  BY <1>2, IndexAssumption DEF NoEntry
<1>3. QED BY <1>1, <1>2

LEMMA RegistrationsAre ==
    ASSUME log \in Seq(Record), NEW k
    PROVE  Registrations(k) = {i \in 1..Len(Readable(log)) : Registers(log[i], k)}
<1>1. DOMAIN Readable(log) = 1..Len(Readable(log))
  BY ReadableIs
<1>2. QED BY <1>1 DEF Registrations, Registers

\* A name that is not in the table is not in what can be read of the log.
LEMMA AbsentUnregistered ==
    ASSUME IndexIInv, proc = "up", "delete" \notin faults, NEW k \in Key, ~Has(k)
    PROVE  Registrations(k) = {}
<1>1. SUFFICES ASSUME Registrations(k) # {} PROVE FALSE
  OBVIOUS
<1>2. log \in Seq(Record) /\ mem[k] = NoEntry /\ Len(Readable(log)) \in 0..Len(log) /\ Len(log) \in Nat
  BY ReadableIs DEF IndexIInv, IndexTypeOK, Has
<1>3. Registrations(k) \in SUBSET Nat
  BY <1>2, RegistrationsAre
<1>4. PICK i \in Registrations(k) : \A j \in Registrations(k) : i <= j
  BY <1>1, <1>3, LeastCut
<1>5. mem[k].loc = log[i].val.loc
  BY <1>4 DEF IndexIInv, FirstWins
<1>6. i \in 1..Len(log) /\ Registers(log[i], k)
  BY <1>2, <1>4, RegistrationsAre
<1>7. log[i] \in Record /\ log[i].val # NoEntry
  BY <1>2, <1>6 DEF Registers
<1>8. log[i].val \in [loc : Loc, ref : Nat] \cup {NoEntry}
  BY <1>7 DEF Record
<1>9. log[i].val.loc # None /\ mem[k].loc = None
  BY <1>2, <1>7, <1>8, LocIsNotNone DEF NoEntry
<1>10. QED BY <1>5, <1>9

-----------------------------------------------------------------------------
LEMMA StartKeeps ==
    ASSUME IndexIInv, Start
    PROVE  IndexIInv'
<1>1. UNCHANGED <<log, faults>> /\ log \in Seq(Record)
  BY DEF Start, IndexIInv, IndexTypeOK
<1>2. CASE proc' = "failed" /\ UNCHANGED mem
  BY <1>1, <1>2 DEF IndexIInv, IndexTypeOK, WholeUnlessTorn, EntryWasLogged, FirstWins, Cut
<1>3. CASE proc' = "up" /\ mem' = Replay(log)
  <2> DEFINE n == Len(Readable(log))
  <2>1. /\ n \in 0..Len(log) /\ Len(log) \in Nat /\ DOMAIN log = 1..Len(log)
        /\ \A i \in 1..n : Intact(log[i])
    BY <1>1, ReadableIs
  <2>2. FromLog(log, n, mem')
    BY <1>1, <1>3, ReplayFromLog
  <2> HIDE DEF n
  <2>3. mem' \in [Key -> [loc : Loc, ref : Nat \ {0}] \cup {NoEntry}]
    <3>1. [loc : Loc, ref : {1}] \subseteq [loc : Loc, ref : Nat \ {0}]
      OBVIOUS
    <3>2. mem' \in [Key -> [loc : Loc, ref : {1}] \cup {NoEntry}]
      BY <2>2 DEF FromLog
    <3>3. QED BY <3>1, <3>2
  <2>4. ASSUME NEW k \in Key, mem'[k] # NoEntry
        PROVE  \E i \in DOMAIN log :
                  /\ log[i].type = "add" /\ log[i].key = k /\ log[i].val.loc = mem'[k].loc
    <3>1. PICK i \in 1..n : Registers(log[i], k) /\ mem'[k] = log[i].val
      BY <2>2, <2>4 DEF FromLog
    <3>2. i \in 1..Len(log) /\ log[i] \in Record /\ Intact(log[i])
      BY <1>1, <2>1
    <3>3. log[i].type = "add" /\ log[i].key = k
      BY <3>1, <3>2 DEF Record, Intact, Registers
    <3>4. QED BY <2>1, <3>1, <3>2, <3>3
  <2>5. ASSUME NEW k \in Key, NEW i \in Registrations(k), \A j \in Registrations(k) : i <= j
        PROVE  mem'[k].loc = log[i].val.loc
    <3>1. i \in 1..n /\ Registers(log[i], k) /\ Registrations(k) = {j \in 1..n : Registers(log[j], k)}
      BY <1>1, RegistrationsAre DEF n
    <3>2. PICK l \in 1..n : /\ Registers(log[l], k) /\ mem'[k] = log[l].val
                            /\ \A j \in 1..(l - 1) : ~Registers(log[j], k)
      BY <2>2, <3>1 DEF FromLog
    <3>3. i <= l /\ ~(i < l)
      <4>1. l \in Registrations(k)
        BY <3>1, <3>2
      <4>2. i < l => i \in 1..(l - 1)
        BY <2>1, <3>1
      <4>3. QED BY <2>5, <3>1, <3>2, <4>1, <4>2
    <3>4. i = l
      BY <2>1, <3>1, <3>3
    <3>5. QED BY <3>2, <3>4
  <2>6. EntryWasLogged'
    BY <1>1, <2>4 DEF EntryWasLogged, Has, NoEntry
  <2>7. FirstWins'
    <3>1. \A k : Registrations(k)' = Registrations(k)
      BY <1>1 DEF Registrations, NoEntry
    <3>2. QED BY <1>1, <2>5, <3>1 DEF FirstWins
  <2>8. IndexTypeOK' /\ WholeUnlessTorn'
    BY <1>1, <1>3, <2>3 DEF IndexIInv, IndexTypeOK, WholeUnlessTorn, Cut
  <2>9. QED BY <2>6, <2>7, <2>8 DEF IndexIInv
<1>4. QED BY <1>2, <1>3 DEF Start

\* A step that leaves the log, and in the table every location, as it is.
LEMMA LogRests ==
    ASSUME IndexIInv, UNCHANGED <<log, faults>>, proc' \in {"up", "down", "failed"},
           proc' = "up" => proc = "up",
           mem' \in [Key -> [loc : Loc, ref : Nat \ {0}] \cup {NoEntry}],
           \A k \in Key : mem'[k].loc = mem[k].loc
    PROVE  IndexIInv'
<1>1. \A k : Registrations(k)' = Registrations(k)
  BY DEF Registrations, NoEntry
<1>2. FirstWins'
  BY <1>1 DEF IndexIInv, FirstWins
<1>3. \A k \in Key : mem'[k] # NoEntry => Has(k)
  <2>1. ASSUME NEW k \in Key, mem'[k] # NoEntry PROVE Has(k)
    <3>1. mem'[k].loc \in Loc
      BY <2>1
    <3>2. mem[k].loc # None
      BY <2>1, <3>1, IndexAssumption
    <3>3. QED BY <3>2 DEF Has, NoEntry
  <2>2. QED BY <2>1
<1>4. EntryWasLogged'
  BY <1>3 DEF IndexIInv, EntryWasLogged, Has, NoEntry
<1>5. QED BY <1>2, <1>4 DEF IndexIInv, IndexTypeOK, WholeUnlessTorn, Cut

\* A record is written, or part of one, and the table changes for its name.
LEMMA LogGrows ==
    ASSUME IndexIInv, NEW k \in Key, NEW r \in Record, log' = Append(log, r), UNCHANGED faults,
           proc' \in {"up", "down"}, r.key = k,
           mem' \in [Key -> [loc : Loc, ref : Nat \ {0}] \cup {NoEntry}],
           \A a \in Key \ {k} : mem'[a] = mem[a],
           Intact(r) \/ "torn" \in faults,
           proc' = "up" =>
              /\ proc = "up" /\ Intact(r)
              /\ mem'[k] = r.val
              /\ "delete" \in faults \/ (~Has(k) /\ r.val # NoEntry)
    PROVE  IndexIInv'
<1>1. log \in Seq(Record) /\ log' \in Seq(Record) /\ Len(log) \in Nat
  BY DEF IndexIInv, IndexTypeOK
<1>2. /\ Len(log') = Len(log) + 1 /\ log'[Len(log) + 1] = r
      /\ \A i \in 1..Len(log) : log'[i] = log[i]
      /\ DOMAIN log = 1..Len(log) /\ DOMAIN log' = 1..(Len(log) + 1)
  BY <1>1
<1>3. IndexTypeOK'
  BY <1>1 DEF IndexTypeOK
<1>4. WholeUnlessTorn'
  <2>1. ASSUME "torn" \notin faults PROVE Cut(log)' = {}
    <3>1. Cut(log) = {} /\ Intact(r)
      BY <2>1 DEF IndexIInv, WholeUnlessTorn
    <3>2. Cut(Append(log, r)) = {}
      BY <1>1, <3>1, ReadableAppend
    <3>3. Cut(log)' = Cut(log')
      BY DEF Cut, Intact
    <3>4. QED BY <3>2, <3>3
  <2>2. QED BY <2>1 DEF WholeUnlessTorn
<1>5. ASSUME proc' = "up", NEW a \in Key, mem'[a] # NoEntry
      PROVE  \E i \in DOMAIN log' :
                /\ log'[i].type = "add" /\ log'[i].key = a /\ log'[i].val.loc = mem'[a].loc
  <2>1. CASE a = k
    <3>1. r.type = "add" /\ Len(log) + 1 \in DOMAIN log'
      BY <1>1, <1>2, <1>5 DEF Record, Intact
    <3>2. QED BY <1>2, <1>5, <2>1, <3>1
  <2>2. CASE a # k
    <3>1. mem'[a] = mem[a] /\ Has(a) /\ proc = "up"
      BY <1>5, <2>2 DEF Has
    <3>2. PICK i \in DOMAIN log : log[i].type = "add" /\ log[i].key = a /\ log[i].val.loc = mem[a].loc
      BY <3>1 DEF IndexIInv, EntryWasLogged
    <3>3. i \in DOMAIN log' /\ log'[i] = log[i]
      BY <1>1, <1>2
    <3>4. QED BY <3>1, <3>2, <3>3
  <2>3. QED BY <2>1, <2>2
<1>6. EntryWasLogged'
  BY <1>5 DEF EntryWasLogged, Has, NoEntry
<1>7. FirstWins'
  <2>1. SUFFICES ASSUME proc' = "up", "delete" \notin faults, NEW a \in Key,
                        NEW i \in Registrations(a)', \A j \in Registrations(a)' : i <= j
                 PROVE  mem'[a].loc = log'[i].val.loc
    BY DEF FirstWins
  <2>2. proc = "up" /\ ~Has(k) /\ Intact(r) /\ mem'[k] = r.val
    BY <2>1
  <2>3. PICK n : n = Len(Readable(log))
    OBVIOUS
  <2>4. PICK m : m = Len(Readable(log'))
    OBVIOUS
  <2>5. /\ n \in 0..Len(log) /\ m \in {n, Len(log) + 1}
        /\ m = Len(log) + 1 => n = Len(log)
    BY <1>1, <2>2, <2>3, <2>4, ReadableAppend, ReadableIs
  <2>6. Registrations(a) = {j \in 1..n : Registers(log[j], a)}
    BY <1>1, <2>3, RegistrationsAre
  <2>7. Registrations(a)' = {j \in 1..m : Registers(log'[j], a)}
    <3>1. DOMAIN Readable(log') = 1..m
      BY <1>1, <2>4, ReadableIs
    <3>2. Registrations(a)' = {j \in DOMAIN Readable(log') : log'[j].key = a /\ log'[j].val # NoEntry}
      BY DEF Registrations, Readable, Intact, NoEntry
    <3>3. QED BY <3>1, <3>2 DEF Registers
  <2>8. \A j \in 1..n : log'[j] = log[j] /\ j \in 1..m
    <3>1. \A l \in Nat : n \in 0..l /\ m \in {n, l + 1} =>
            1..n \subseteq 1..l /\ 1..n \subseteq 1..m
      OBVIOUS
    <3>2. 1..n \subseteq 1..Len(log) /\ 1..n \subseteq 1..m
      BY <1>1, <2>5, <3>1
    <3>3. QED BY <1>2, <3>2
  <2>9. CASE a = k
    <3>1. Registrations(k) = {}
      BY <2>1, <2>2, AbsentUnregistered
    <3>2. i \in 1..m /\ Registers(log'[i], k)
      BY <2>1, <2>7, <2>9
    <3>3. i \notin 1..n
      BY <2>6, <2>8, <2>9, <3>1, <3>2
    <3>4. i = Len(log) + 1
      BY <1>1, <2>5, <3>2, <3>3
    <3>5. QED BY <1>2, <2>2, <2>9, <3>4
  <2>10. CASE a # k
    <3>1. i \in 1..m /\ Registers(log'[i], a)
      BY <2>1, <2>7
    <3>2. i # Len(log) + 1
      BY <1>2, <2>10, <3>1 DEF Registers
    <3>3. i \in 1..n /\ log'[i] = log[i]
      <4>1. \A l \in Nat : n \in 0..l /\ m \in {n, l + 1} /\ (m = l + 1 => n = l) =>
                \A j \in 1..m : j # l + 1 => j \in 1..n
        OBVIOUS
      <4>2. QED BY <1>1, <2>5, <2>8, <3>1, <3>2, <4>1
    <3>4. i \in Registrations(a) /\ \A j \in Registrations(a) : i <= j
      BY <2>1, <2>6, <2>7, <2>8, <3>1, <3>3
    <3>5. mem[a].loc = log[i].val.loc
      BY <2>1, <2>2, <3>4 DEF IndexIInv, FirstWins
    <3>6. QED BY <2>10, <3>3, <3>5
  <2>11. QED BY <2>9, <2>10
<1>8. QED BY <1>3, <1>4, <1>6, <1>7 DEF IndexIInv

LEMMA IndexStep == IndexIInv /\ [Next]_vars => IndexIInv'
<1>1. SUFFICES ASSUME IndexIInv, [Next]_vars PROVE IndexIInv'
  OBVIOUS
<1>2. /\ mem \in [Key -> [loc : Loc, ref : Nat \ {0}] \cup {NoEntry}]
      /\ proc \in {"up", "down", "failed"}
  BY <1>1 DEF IndexIInv, IndexTypeOK
<1>3. ASSUME UNCHANGED <<mem, log, faults>>, proc' \in {"up", "down", "failed"},
             proc' = "up" => proc = "up"
      PROVE  IndexIInv'
  BY <1>1, <1>2, <1>3, LogRests
<1>4. ASSUME NEW k \in Key, AppendFails(k) PROVE IndexIInv'
  <2>1. PICK r \in Fragment : r.key = k /\ log' = Append(log, r)
    BY <1>4 DEF AppendFails, CutShort
  <2>2. r \in Record /\ proc' = "down" /\ "torn" \in faults /\ UNCHANGED <<mem, faults>>
    BY <1>4 DEF AppendFails, CutShort, Fragment, Record
  <2>3. QED BY <1>1, <1>2, <2>1, <2>2, LogGrows
<1>5. ASSUME NEW k \in Key, NEW e \in [loc : Loc, ref : {1}] \cup {NoEntry},
             proc = "up", UNCHANGED <<proc, faults>>,
             mem' = [mem EXCEPT ![k] = e],
             Logged([type |-> "add", key |-> k, val |-> e]),
             "delete" \in faults \/ (~Has(k) /\ e # NoEntry)
      PROVE  IndexIInv'
  <2> DEFINE r == [type |-> "add", key |-> k, val |-> e]
  <2>1. /\ r \in Record /\ log' = Append(log, r) /\ Intact(r) /\ r.key = k /\ r.val = e
    BY <1>5 DEF Record, Intact, Logged
  <2>2. [loc : Loc, ref : {1}] \subseteq [loc : Loc, ref : Nat \ {0}]
    OBVIOUS
  <2>3. /\ mem' \in [Key -> [loc : Loc, ref : Nat \ {0}] \cup {NoEntry}]
        /\ mem'[k] = e /\ \A a \in Key \ {k} : mem'[a] = mem[a]
    BY <1>2, <1>5, <2>2
  <2> HIDE DEF r
  <2>4. QED BY <1>1, <1>5, <2>1, <2>3, LogGrows
\* References come and go, locations stay.
<1>6. ASSUME NEW k \in Key, Has(k), NEW n \in Nat \ {0}, mem' = [mem EXCEPT ![k].ref = n],
             UNCHANGED <<log, proc, faults>>
      PROVE  IndexIInv'
  <2>1. mem[k] \in [loc : Loc, ref : Nat \ {0}]
    BY <1>2, <1>6 DEF Has
  <2>2. [mem[k] EXCEPT !.ref = n] \in [loc : Loc, ref : Nat \ {0}]
        /\ [mem[k] EXCEPT !.ref = n].loc = mem[k].loc
    BY <1>6, <2>1
  <2>3. mem' = [mem EXCEPT ![k] = [mem[k] EXCEPT !.ref = n]]
    BY <1>6
  <2>4. /\ mem' \in [Key -> [loc : Loc, ref : Nat \ {0}] \cup {NoEntry}]
        /\ \A a \in Key : mem'[a].loc = mem[a].loc
    BY <1>2, <2>2, <2>3
  <2>5. QED BY <1>1, <1>2, <1>6, <2>4, LogRests
<1>7. ASSUME NEW k \in Key, Has(k) PROVE mem[k].ref \in Nat \ {0}
  BY <1>2, <1>7 DEF Has
<1>8. ASSUME NEW k \in Key, NEW l \in Loc, Add(k, l) PROVE IndexIInv'
  <2>1. CASE Has(k)
    <3>1. mem[k].ref + 1 \in Nat \ {0}
      BY <1>7, <2>1
    <3>2. mem' = [mem EXCEPT ![k].ref = mem[k].ref + 1] /\ UNCHANGED <<log, proc, faults>>
      BY <1>8, <2>1 DEF Add, RefInc
    <3>3. QED BY <1>6, <2>1, <3>1, <3>2
  <2>2. CASE ~Has(k)
    <3> DEFINE e == [loc |-> l, ref |-> 1]
    <3>1. e \in [loc : Loc, ref : {1}] /\ e # NoEntry
      BY IndexAssumption DEF NoEntry
    <3>2. /\ proc = "up" /\ UNCHANGED <<proc, faults>> /\ mem' = [mem EXCEPT ![k] = e]
          /\ Logged([type |-> "add", key |-> k, val |-> e])
      BY <1>8, <2>2 DEF Add
    <3> HIDE DEF e
    <3>3. QED BY <1>5, <2>2, <3>1, <3>2
  <2>3. QED BY <2>1, <2>2
<1>9. ASSUME NEW k \in Key, RefDec(k) PROVE IndexIInv'
  <2>1. Has(k) /\ proc = "up" /\ "delete" \in faults /\ UNCHANGED <<proc, faults>>
    BY <1>9 DEF RefDec
  <2>2. CASE mem[k].ref > 1
    <3>1. mem[k].ref - 1 \in Nat \ {0}
      BY <1>7, <2>1, <2>2
    <3>2. mem' = [mem EXCEPT ![k].ref = mem[k].ref - 1] /\ UNCHANGED log
      BY <1>9, <2>2 DEF RefDec
    <3>3. QED BY <1>6, <2>1, <3>1, <3>2
  <2>3. CASE ~(mem[k].ref > 1)
    BY <1>5, <1>9, <2>1, <2>3 DEF RefDec
  <2>4. QED BY <2>2, <2>3
<1>10. ASSUME NEW k \in Key, NEW l \in Loc, Set(k, l) PROVE IndexIInv'
  BY <1>3, <1>10 DEF Set
<1>11. CASE Crash
  BY <1>3, <1>11 DEF Crash
<1>12. CASE UNCHANGED vars
  BY <1>2, <1>3, <1>12 DEF vars
<1>13. QED BY <1>1, <1>4, <1>8, <1>9, <1>10, <1>11, <1>12, StartKeeps DEF Next

LEMMA IndexInitHolds == Init => IndexIInv
<1>1. SUFFICES ASSUME Init PROVE IndexIInv
  OBVIOUS
<1>2. IndexTypeOK
  BY <1>1 DEF Init, IndexTypeOK, Empty
<1>3. WholeUnlessTorn
  BY <1>1 DEF Init, WholeUnlessTorn, Cut
<1>4. EntryWasLogged /\ FirstWins
  BY <1>1 DEF Init, EntryWasLogged, FirstWins
<1>5. QED BY <1>2, <1>3, <1>4 DEF IndexIInv

LEMMA IndexInvariant == Spec => []IndexIInv
  BY IndexInitHolds, IndexStep, PTL DEF Spec

\* The index never invents a location: whatever is cut short, dropped or
\* replayed, an entry is in the log as a registration of that name
\* (hashdb_append_binlog, hashdb_init, fblock_mem_add).
THEOREM EntriesWereLogged == Spec => []EntryWasLogged
<1>1. IndexIInv => EntryWasLogged
  BY DEF IndexIInv
<1>2. QED BY <1>1, IndexInvariant, PTL

\* Where nothing is deleted, the registration of a name that was logged first
\* decides where it is, over all later ones, fragments and restarts.
THEOREM FirstRegistrationWins == Spec => []FirstWins
<1>1. IndexIInv => FirstWins
  BY DEF IndexIInv
<1>2. QED BY <1>1, IndexInvariant, PTL

-----------------------------------------------------------------------------
(* The undamaged index is a durable map.                                   *)

\* The table says of every location what a restart would find.
LEMMA UpIsReplay ==
    IndexIInv /\ faults = {} =>
        /\ Locations = [k \in Key |-> Replay(log)[k].loc]
        /\ proc = "up" => \A k \in Key : Has(k) <=> Replay(log)[k] # NoEntry
<1> SUFFICES ASSUME IndexIInv, faults = {}
             PROVE  /\ Locations = [k \in Key |-> Replay(log)[k].loc]
                    /\ proc = "up" => \A k \in Key : Has(k) <=> Replay(log)[k] # NoEntry
  OBVIOUS
<1>1. log \in Seq(Record) /\ Cut(log) = {} /\ mem \in [Key -> [loc : Loc, ref : Nat \ {0}] \cup {NoEntry}]
  BY DEF IndexIInv, IndexTypeOK, WholeUnlessTorn
<1>2. PICK n : n = Len(log)
  OBVIOUS
<1>3. n \in Nat /\ Len(Readable(log)) = n /\ DOMAIN log = 1..n
  BY <1>1, <1>2, ReadableIs
<1>4. FromLog(log, n, Replay(log))
  BY <1>1, <1>3, ReplayFromLog
<1>5. \A k \in Key : mem[k] \in [loc : Loc, ref : Nat] \cup {NoEntry}
                     /\ Replay(log)[k] \in [loc : Loc, ref : Nat] \cup {NoEntry}
  BY <1>1, <1>4 DEF FromLog
<1>6. ASSUME proc = "up", NEW k \in Key
      PROVE  mem[k].loc = Replay(log)[k].loc
  <2>1. CASE Has(k)
    <3>1. PICK i \in 1..n : log[i].key = k /\ log[i].val.loc = mem[k].loc
      BY <1>3, <1>6, <2>1 DEF IndexIInv, EntryWasLogged
    <3>2. log[i].val # NoEntry
      BY <1>5, <2>1, <3>1, LocIsNotNone DEF Has, NoEntry
    <3>3. Registers(log[i], k)
      BY <3>1, <3>2 DEF Registers
    <3>4. PICK l \in 1..n : /\ Registers(log[l], k) /\ Replay(log)[k] = log[l].val
                            /\ \A j \in 1..(l - 1) : ~Registers(log[j], k)
      BY <1>4, <3>3 DEF FromLog
    <3>5. Registrations(k) = {j \in 1..n : Registers(log[j], k)}
      BY <1>1, <1>3, RegistrationsAre
    <3>6. \A j \in Registrations(k) : l <= j
      <4>1. ASSUME NEW j \in 1..n, j < l PROVE j \in 1..(l - 1)
        BY <1>3, <4>1
      <4>2. QED BY <1>3, <3>4, <3>5, <4>1
    <3>7. l \in Registrations(k)
      BY <3>4, <3>5
    <3>8. mem[k].loc = log[l].val.loc
      BY <1>6, <3>6, <3>7 DEF IndexIInv, FirstWins
    <3>9. QED BY <3>4, <3>8
  <2>2. CASE ~Has(k)
    <3>1. Registrations(k) = {}
      BY <1>6, <2>2, AbsentUnregistered
    <3>2. \A j \in 1..n : ~Registers(log[j], k)
      BY <1>1, <1>3, <3>1, RegistrationsAre
    <3>3. Replay(log)[k] = NoEntry
      BY <1>4, <3>2 DEF FromLog
    <3>4. QED BY <2>2, <3>3 DEF Has
  <2>3. QED BY <2>1, <2>2
<1>7. ASSUME proc = "up", NEW k \in Key
      PROVE  Has(k) <=> Replay(log)[k] # NoEntry
  BY <1>5, <1>6, <1>7, LocIsNotNone DEF Has
<1>8. Locations = [k \in Key |-> Replay(log)[k].loc]
  BY <1>6 DEF Locations
<1>9. QED BY <1>7, <1>8

\* Only the registration of a new name writes to an undamaged log.
LEMMA OnlyAddLogs ==
    ASSUME IndexIInv, [Next]_vars, faults = {}
    PROVE  \/ log' = log
           \/ \E k \in Key, l \in Loc :
                 /\ proc = "up" /\ ~Has(k)
                 /\ log' = Append(log, [type |-> "add", key |-> k, val |-> [loc |-> l, ref |-> 1]])
<1>1. ASSUME NEW k \in Key, AppendFails(k) \/ RefDec(k) PROVE FALSE
  BY <1>1 DEF AppendFails, CutShort, RefDec
<1>2. ASSUME NEW k \in Key, NEW l \in Loc, Add(k, l)
      PROVE  \/ log' = log
             \/ /\ proc = "up" /\ ~Has(k)
                /\ log' = Append(log, [type |-> "add", key |-> k, val |-> [loc |-> l, ref |-> 1]])
  BY <1>2 DEF Add, RefInc, Logged
<1>3. CASE (\E k \in Key, l \in Loc : Set(k, l)) \/ Crash \/ Start \/ UNCHANGED vars
  BY <1>3 DEF Set, Crash, Start, vars
<1>4. QED BY <1>1, <1>2, <1>3 DEF Next

LEMMA FaultsStay == [Next]_vars => UNCHANGED faults
  BY DEF Next, AppendFails, CutShort, RefDec, Add, Set, Crash, Start, vars

LEMMA DurableStep ==
    ASSUME IndexIInv, IndexIInv', [Next]_vars, faults = {}
    PROVE  \/ Locations' = Locations
           \/ \E k \in Key, l \in Loc :
                 Locations[k] = None /\ Locations' = [Locations EXCEPT ![k] = l]
<1>1. /\ Locations = [a \in Key |-> Replay(log)[a].loc]
      /\ proc = "up" => \A a \in Key : Has(a) <=> Replay(log)[a] # NoEntry
  BY UpIsReplay
<1>2. Locations' = [a \in Key |-> Replay(log')[a].loc]
  <2>1. faults' = {}
    BY FaultsStay
  <2>2. (IndexIInv /\ faults = {} =>
            /\ Locations = [k \in Key |-> Replay(log)[k].loc]
            /\ proc = "up" => \A k \in Key : Has(k) <=> Replay(log)[k] # NoEntry)'
    BY UpIsReplay, PTL
  <2>3. QED BY <2>1, <2>2
<1>3. CASE log' = log
  BY <1>1, <1>2, <1>3
<1>4. ASSUME NEW k \in Key, NEW l \in Loc, proc = "up", ~Has(k),
             log' = Append(log, [type |-> "add", key |-> k, val |-> [loc |-> l, ref |-> 1]])
      PROVE  Locations[k] = None /\ Locations' = [Locations EXCEPT ![k] = l]
  <2> DEFINE e == [loc |-> l, ref |-> 1]
             r == [type |-> "add", key |-> k, val |-> e]
             t == Replay(log)
  <2>1. /\ r \in Record /\ r.type = "add" /\ r.key = k /\ r.val = e /\ e.loc = l /\ e # NoEntry
        /\ log' = Append(log, r)
    BY <1>4, IndexAssumption DEF Record, NoEntry
  <2>2. log \in Seq(Record) /\ Cut(log) = {}
    BY DEF IndexIInv, IndexTypeOK, WholeUnlessTorn
  <2>3. t \in [Key -> [loc : Loc, ref : {1}] \cup {NoEntry}] /\ t[k] = NoEntry
    BY <1>1, <1>4, <2>2, ReplayFromLog DEF FromLog
  <2> HIDE DEF e, r
  <2>4. Replay(log') = Replayed(t, r)
    BY <2>1, <2>2, ReplayAppend
  <2> HIDE DEF t
  <2>5. Replay(log') = [t EXCEPT ![k] = e]
    BY <2>1, <2>3, <2>4, ReplayedAdd
  <2>6. Locations = [a \in Key |-> t[a].loc]
    BY <1>1 DEF t
  <2>7. \A a \in Key : Locations'[a] = (IF a = k THEN l ELSE Locations[a])
    BY <1>2, <2>1, <2>3, <2>5, <2>6
  <2>8. QED BY <1>2, <2>3, <2>6, <2>7 DEF NoEntry
<1>5. QED BY <1>3, <1>4, OnlyAddLogs

\* Where no write is cut short and nothing is deleted the index keeps what
\* DurableMap promises: a name that has a location keeps it, through crashes,
\* restarts and every interleaving of registrations with them.
THEOREM IndexImplementsMap == Spec => IndexIsDurable
<1>1. Init => Map!MapInit
  <2>1. SUFFICES ASSUME Init, faults = {} PROVE Locations = [k \in Key |-> None]
    BY DEF Map!MapInit
  <2>2. log = <<>> /\ log \in Seq(Record) /\ IndexIInv
    BY <2>1, IndexInitHolds DEF Init
  <2>3. FromLog(log, 0, Replay(log))
    <3>1. Len(log) = 0 /\ Len(Readable(log)) \in 0..Len(log)
      BY <2>2, ReadableIs
    <3>2. Len(Readable(log)) = 0
      BY <3>1
    <3>3. FromLog(log, Len(Readable(log)), Replay(log))
      BY <2>2, ReplayFromLog
    <3>4. QED BY <3>2, <3>3
  <2>4. \A k \in Key : Replay(log)[k] = NoEntry
    BY <2>3 DEF FromLog
  <2>5. QED BY <2>1, <2>2, <2>4, UpIsReplay DEF NoEntry
<1>2. IndexIInv /\ IndexIInv' /\ [Next]_vars
        => [Map!MapNext]_(IF faults = {} THEN Locations ELSE [k \in Key |-> None])
  <2>1. SUFFICES ASSUME IndexIInv, IndexIInv', [Next]_vars
                 PROVE  [Map!MapNext]_(IF faults = {} THEN Locations ELSE [k \in Key |-> None])
    OBVIOUS
  <2>2. faults' = faults
    BY <2>1, FaultsStay
  <2>3. CASE faults = {}
    BY <2>1, <2>2, <2>3, DurableStep DEF Map!MapNext, Map!Put
  <2>4. CASE faults # {}
    BY <2>2, <2>4
  <2>5. QED BY <2>3, <2>4
<1>3. QED BY <1>1, <1>2, IndexInvariant, PTL DEF Spec, IndexIsDurable, Map!MapSpec

=============================================================================
