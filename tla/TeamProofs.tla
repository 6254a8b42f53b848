----------------------------- MODULE TeamProofs -----------------------------
(* Proofs about the seats of a team (Team), whatever order webhooks arrive in  *)
(* and however their handlers overlap: rows and memberships keep their types   *)
(* and no membership has two seats; and a handler that writes while what it    *)
(* has read is still so sets the seats that it was told of, raises a balance   *)
(* only with its seat, and leaves nobody more than the seat's limit.           *)
EXTENDS Team, FiniteSetTheorems, SequenceTheorems, WellFoundedInduction, TLAPS

Counts == {c \in Seq([type : Types, n : Nat]) :
              \A j, k \in DOMAIN c : c[j].type = c[k].type => j = k}

SeatRow == [type : Types \cup {NoType}, to : 0 .. MaxJoins]

Webhook == [kind : {"updated", "deleted", "paid", "cycle"}, items : Counts,
            pc : {"sent", "saved", "read", "done"},
            replaced : BOOLEAN, team : BOOLEAN, seen : [Seats -> SeatRow],
            balance : [Seats -> Int]]

RowTypes ==
    /\ billed \in [items : Counts, changes : Nat]
    /\ row \in [plan : {"starter", "team"}, linked : BOOLEAN]
    /\ seat \in [Seats -> SeatRow]
    /\ member \in [Users -> [id : 0 .. MaxJoins, balance : Int]]
    /\ joins \in 1 .. MaxJoins
    /\ invite \in [Users -> [status : {"none", "pending", "accepted", "cancelled"}, open : BOOLEAN]]
    /\ hooks \in Seq(Webhook)
    /\ txns \subseteq (DOMAIN hooks) \X Seats
    /\ uses \in Nat /\ lost \in Nat

\* Seats name memberships that were given out, and no two of them the same one.
Proper(seats) ==
    /\ \A s \in Seats : seats[s].to <= joins /\ (seats[s].type = NoType => seats[s].to = 0)
    /\ \A s, r \in Seats : s # r /\ seats[s].to # 0 => seats[s].to # seats[r].to

IdInv ==
    /\ \A u \in Users : member[u].id <= joins
    /\ \A u, v \in Users : u # v /\ member[u].id # 0 => member[u].id # member[v].id
    /\ Proper(seat)
    /\ \A i \in DOMAIN hooks : Proper(hooks[i].seen)

\* What a handler has read is still so when it writes, but that members have left and used
\* their credits.
Fresh(i) ==
    \A s \in Seats :
        /\ hooks[i].seen[s].type = seat[s].type
        /\ \/ hooks[i].seen[s].to = seat[s].to
           \/ seat[s].to = 0 /\ ~Live(hooks[i].seen[s].to)
        /\ \A u \in Users : member[u].id # 0 /\ member[u].id = hooks[i].seen[s].to =>
              member[u].balance <= hooks[i].balance[s]

\* What CreditsFollowSeats says of one member.
Within(u) ==
    member[u].id # 0 =>
        IF Seated(member[u].id)
        THEN \A s \in Seats : seat[s].to = member[u].id => member[u].balance <= Limit[seat[s].type]
        ELSE member[u].balance <= 0

\* One item with one type of seat (payments/plans.py, get_stripe_line_item), or none.
OneItem(items) ==
    items = <<>> \/ \E t \in Types, n \in Nat \ {0} : items = <<[type |-> t, n |-> n]>>

OneTypeOfSeat == \E t \in Types : \A s \in Seats : seat[s].type \in {t, NoType}

-----------------------------------------------------------------------------
(* Orders: in a finite total order the places are 1, 2, ... up to the number   *)
(* of elements, each taken once.                                               *)

Below(S, R, x) == {y \in S : <<y, x>> \in R}

TotalOrder(S, R) ==
    /\ \A x \in S : <<x, x>> \notin R
    /\ \A x, y, z \in S : <<x, y>> \in R /\ <<y, z>> \in R => <<x, z>> \in R
    /\ \A x, y \in S : x # y => <<x, y>> \in R \/ <<y, x>> \in R

\* How many come before an element tells it from the others.
LEMMA RankMonotone ==
    ASSUME NEW S, NEW R, IsFiniteSet(S), TotalOrder(S, R)
    PROVE  /\ \A x \in S : Cardinality(Below(S, R, x)) \in 0 .. Cardinality(S) - 1
           /\ \A x, y \in S : <<x, y>> \in R =>
                 Cardinality(Below(S, R, x)) < Cardinality(Below(S, R, y))
           /\ \A x, y \in S : Cardinality(Below(S, R, x)) = Cardinality(Below(S, R, y)) => x = y
<1>1. \A x \in S : /\ IsFiniteSet(Below(S, R, x)) /\ Cardinality(Below(S, R, x)) \in Nat
                   /\ Below(S, R, x) \subseteq S
  BY FS_Subset, FS_CardinalityType DEF Below
<1>2. ASSUME NEW x \in S PROVE Cardinality(Below(S, R, x)) \in 0 .. Cardinality(S) - 1
  <2>1. Below(S, R, x) \in SUBSET S /\ x \in S \ Below(S, R, x)
    BY DEF Below, TotalOrder
  <2>2. /\ Cardinality(Below(S, R, x)) <= Cardinality(S)
        /\ Cardinality(S) = Cardinality(Below(S, R, x)) => S = Below(S, R, x)
    BY <2>1, FS_Subset
  <2>3. Cardinality(S) \in Nat
    BY FS_CardinalityType
  <2> QED  BY <1>1, <2>1, <2>2, <2>3
<1>3. ASSUME NEW x \in S, NEW y \in S, <<x, y>> \in R
      PROVE  Cardinality(Below(S, R, x)) < Cardinality(Below(S, R, y))
  <2>1. Below(S, R, x) \in SUBSET Below(S, R, y)
    BY <1>3 DEF Below, TotalOrder
  <2>2. x \in Below(S, R, y) /\ x \notin Below(S, R, x)
    BY <1>3 DEF Below, TotalOrder
  <2>3. /\ Cardinality(Below(S, R, x)) <= Cardinality(Below(S, R, y))
        /\ Cardinality(Below(S, R, y)) = Cardinality(Below(S, R, x)) =>
              Below(S, R, y) = Below(S, R, x)
    BY <1>1, <2>1, FS_Subset
  <2> QED  BY <1>1, <2>2, <2>3
<1>4. ASSUME NEW x \in S, NEW y \in S,
             Cardinality(Below(S, R, x)) = Cardinality(Below(S, R, y)), x # y
      PROVE  FALSE
  <2>1. <<x, y>> \in R \/ <<y, x>> \in R
    BY <1>4 DEF TotalOrder
  <2>2. Cardinality(Below(S, R, x)) \in Nat /\ Cardinality(Below(S, R, y)) \in Nat
    BY <1>1
  <2> QED  BY <1>3, <1>4, <2>1, <2>2
<1> QED  BY <1>2, <1>3, <1>4

LEMMA RankOnto ==
    ASSUME NEW S, NEW R, IsFiniteSet(S), TotalOrder(S, R),
           NEW k \in 0 .. Cardinality(S) - 1
    PROVE  \E x \in S : Cardinality(Below(S, R, x)) = k
<1> DEFINE n == Cardinality(S)
           T == 0 .. n - 1
           f == [x \in S |-> Cardinality(Below(S, R, x))]
<1>1. n \in Nat
  BY FS_CardinalityType
<1>2. IsFiniteSet(T) /\ Cardinality(T) = n
  <2>1. 0 \in Int /\ n - 1 \in Int
    BY <1>1
  <2>2. IsFiniteSet(T) /\ Cardinality(T) = IF 0 > n - 1 THEN 0 ELSE (n - 1) - 0 + 1
    BY <2>1, FS_Interval
  <2> QED  BY <1>1, <2>2
<1>3. f \in Injection(S, T)
  BY RankMonotone DEF Injection, IsInjective
<1> HIDE DEF f, T
<1>4. f \in Surjection(S, T)
  BY <1>2, <1>3, FS_Injection
<1> QED  BY <1>4 DEF Surjection, f, T

-----------------------------------------------------------------------------
(* The dict of counts *)

Entry == [type : Types, n : Nat]

LEMMA CountsAre ==
    ASSUME NEW c \in Counts
    PROVE  /\ c \in Seq(Entry) /\ Len(c) \in Nat /\ DOMAIN c = 1 .. Len(c)
           /\ \A k \in 1 .. Len(c) : c[k] \in Entry /\ c[k].type \in Types /\ c[k].n \in Nat
           /\ \A j, k \in 1 .. Len(c) : c[j].type = c[k].type => j = k
<1>1. c \in Seq(Entry) /\ \A j, k \in DOMAIN c : c[j].type = c[k].type => j = k
  BY DEF Counts, Entry
<1>2. Len(c) \in Nat /\ DOMAIN c = 1 .. Len(c)
  BY <1>1, LenProperties
<1>3. \A k \in 1 .. Len(c) : c[k] \in Entry
  BY <1>1, ElementOfSeq
<1> QED  BY <1>1, <1>2, <1>3 DEF Entry

LEMMA CountsIf ==
    ASSUME NEW c \in Seq(Entry),
           \A j, k \in 1 .. Len(c) : c[j].type = c[k].type => j = k
    PROVE  c \in Counts
BY LenProperties DEF Counts, Entry

LEMMA RemoveAtIs ==
    ASSUME NEW S, NEW s \in Seq(S), NEW k \in 1 .. Len(s)
    PROVE  /\ RemoveAt(s, k) \in Seq(S) /\ Len(RemoveAt(s, k)) = Len(s) - 1
           /\ \A j \in 1 .. Len(s) - 1 :
                 RemoveAt(s, k)[j] = IF j < k THEN s[j] ELSE s[j + 1]
<1> DEFINE n == Len(s)
           a == SubSeq(s, 1, k - 1)
           b == SubSeq(s, k + 1, n)
<1>1. n \in Nat /\ k \in 1 .. n
  BY LenProperties
<1> HIDE DEF n
<1>2. \A j \in 1 .. n : s[j] \in S
  BY ElementOfSeq DEF n
<1>3. a \in Seq(S) /\ Len(a) = k - 1 /\ \A j \in 1 .. k - 1 : a[j] = s[j]
  <2>1. \A j \in 1 .. k - 1 : s[j] \in S
    BY <1>1, <1>2
  <2>2. 1 \in Int /\ k - 1 \in Int
    BY <1>1
  <2>3. /\ a \in Seq(S) /\ Len(a) = IF 1 <= k - 1 THEN k - 1 - 1 + 1 ELSE 0
        /\ \A j \in 1 .. k - 1 - 1 + 1 : a[j] = s[1 + j - 1]
    BY <2>1, <2>2, SubSeqProperties
  <2> QED  BY <1>1, <2>3
<1>4. b \in Seq(S) /\ Len(b) = n - k /\ \A j \in 1 .. n - k : b[j] = s[k + j]
  <2>1. \A j \in k + 1 .. n : s[j] \in S
    BY <1>1, <1>2
  <2>2. k + 1 \in Int /\ n \in Int
    BY <1>1
  <2>3. /\ b \in Seq(S) /\ Len(b) = IF k + 1 <= n THEN n - (k + 1) + 1 ELSE 0
        /\ \A j \in 1 .. n - (k + 1) + 1 : b[j] = s[(k + 1) + j - 1]
    BY <2>1, <2>2, SubSeqProperties
  <2> QED  BY <1>1, <2>3
<1> HIDE DEF a, b
<1>5. /\ a \o b \in Seq(S) /\ Len(a \o b) = Len(a) + Len(b)
      /\ \A j \in 1 .. Len(a) + Len(b) :
            (a \o b)[j] = IF j <= Len(a) THEN a[j] ELSE b[j - Len(a)]
  BY <1>3, <1>4, ConcatProperties
<1>6. Len(a) + Len(b) = n - 1
  BY <1>1, <1>3, <1>4
<1>7. ASSUME NEW j \in 1 .. n - 1
      PROVE  (a \o b)[j] = IF j < k THEN s[j] ELSE s[j + 1]
  <2>1. CASE j < k
    BY <1>1, <1>3, <1>5, <1>6, <2>1
  <2>2. CASE ~ (j < k)
    <3>1. j - (k - 1) \in 1 .. n - k /\ k + (j - (k - 1)) = j + 1
      BY <1>1, <2>2
    <3>2. (a \o b)[j] = b[j - (k - 1)]
      BY <1>1, <1>3, <1>5, <1>6, <2>2
    <3> QED  BY <1>4, <2>2, <3>1, <3>2
  <2> QED  BY <2>1, <2>2
<1> QED  BY <1>5, <1>6, <1>7 DEF RemoveAt, a, b, n

LEMMA EntriesAre ==
    ASSUME NEW c \in Counts, NEW t
    PROVE  /\ \A k \in Entries(c, t) : k \in 1 .. Len(c) /\ c[k].type = t
           /\ Entries(c, t) # {} => (CHOOSE k \in Entries(c, t) : TRUE) \in Entries(c, t)
           /\ \A k \in 1 .. Len(c) : c[k].type = t => k \in Entries(c, t)
BY CountsAre DEF Entries

LEMMA CountOfType == ASSUME NEW c \in Counts, NEW t PROVE CountOf(c, t) \in Nat
BY EntriesAre, CountsAre DEF CountOf

\* Taking a type out leaves a dict without it.
LEMMA WithoutIs ==
    ASSUME NEW c \in Counts, NEW t
    PROVE  /\ Without(c, t) \in Counts
           /\ \A k \in 1 .. Len(Without(c, t)) : Without(c, t)[k].type # t
<1>1. CASE Entries(c, t) = {}
  BY <1>1, EntriesAre DEF Without
<1>2. CASE Entries(c, t) # {}
  <2> DEFINE k == CHOOSE j \in Entries(c, t) : TRUE
             w == RemoveAt(c, k)
  <2>1. k \in 1 .. Len(c) /\ c[k].type = t
    BY <1>2, EntriesAre
  <2>2. Without(c, t) = w
    BY <1>2 DEF Without
  <2> HIDE DEF k
  <2>3. /\ c \in Seq(Entry) /\ Len(c) \in Nat
        /\ \A i, j \in 1 .. Len(c) : c[i].type = c[j].type => i = j
    BY CountsAre
  <2>4. /\ w \in Seq(Entry) /\ Len(w) = Len(c) - 1
        /\ \A j \in 1 .. Len(c) - 1 : w[j] = IF j < k THEN c[j] ELSE c[j + 1]
    BY <2>1, <2>3, RemoveAtIs
  <2> HIDE DEF w
  <2>5. \A j \in 1 .. Len(w) : \E i \in 1 .. Len(c) :
           w[j] = c[i] /\ i # k /\ i = IF j < k THEN j ELSE j + 1
    <3> SUFFICES ASSUME NEW j \in 1 .. Len(w)
                 PROVE  \E i \in 1 .. Len(c) : w[j] = c[i] /\ i # k /\ i = IF j < k THEN j ELSE j + 1
      OBVIOUS
    <3>1. CASE j < k
      BY <2>1, <2>3, <2>4, <3>1
    <3>2. CASE ~ (j < k)
      BY <2>1, <2>3, <2>4, <3>2
    <3> QED  BY <3>1, <3>2
  <2>6. \A j \in 1 .. Len(w) : w[j].type # t
    BY <2>1, <2>3, <2>5
  <2>7. \A i, j \in 1 .. Len(w) : w[i].type = w[j].type => i = j
    <3> SUFFICES ASSUME NEW i \in 1 .. Len(w), NEW j \in 1 .. Len(w), w[i].type = w[j].type
                 PROVE  i = j
      OBVIOUS
    <3>1. PICK a \in 1 .. Len(c) : w[i] = c[a] /\ a = IF i < k THEN i ELSE i + 1
      BY <2>5
    <3>2. PICK b \in 1 .. Len(c) : w[j] = c[b] /\ b = IF j < k THEN j ELSE j + 1
      BY <2>5
    <3>3. a = b
      BY <2>3, <3>1, <3>2
    <3>4. i \in Int /\ j \in Int /\ k \in Int
      BY <2>1, <2>3, <2>4
    <3> QED  BY <3>1, <3>2, <3>3, <3>4
  <2> QED  BY <2>2, <2>4, <2>6, <2>7, CountsIf
<1> QED  BY <1>1, <1>2

LEMMA AppendCounts ==
    ASSUME NEW c \in Counts, NEW t \in Types, NEW n \in Nat,
           \A k \in 1 .. Len(c) : c[k].type # t
    PROVE  Append(c, [type |-> t, n |-> n]) \in Counts
<1> DEFINE x == [type |-> t, n |-> n]
           d == Append(c, x)
<1>1. x \in Entry /\ x.type = t
  BY DEF Entry
<1> HIDE DEF x
<1>2. /\ c \in Seq(Entry) /\ Len(c) \in Nat
      /\ \A i, j \in 1 .. Len(c) : c[i].type = c[j].type => i = j
  BY CountsAre
<1>3. /\ d \in Seq(Entry) /\ Len(d) = Len(c) + 1
      /\ \A k \in 1 .. Len(c) : d[k] = c[k]
      /\ d[Len(c) + 1] = x
  BY <1>1, <1>2, AppendProperties
<1> HIDE DEF d
<1>4. \A i, j \in 1 .. Len(d) : d[i].type = d[j].type => i = j
  <2> SUFFICES ASSUME NEW i \in 1 .. Len(d), NEW j \in 1 .. Len(d), d[i].type = d[j].type
               PROVE  i = j
    OBVIOUS
  <2>1. i \in 1 .. Len(c) \/ i = Len(c) + 1
    BY <1>2, <1>3
  <2>2. j \in 1 .. Len(c) \/ j = Len(c) + 1
    BY <1>2, <1>3
  <2>3. i \in 1 .. Len(c) => d[i].type # t
    BY <1>3
  <2>4. j \in 1 .. Len(c) => d[j].type # t
    BY <1>3
  <2>5. CASE i = Len(c) + 1
    BY <1>1, <1>3, <2>2, <2>4, <2>5
  <2>6. CASE i \in 1 .. Len(c)
    <3>1. j \in 1 .. Len(c)
      BY <1>1, <1>3, <2>2, <2>3, <2>6
    <3>2. d[i] = c[i] /\ d[j] = c[j]
      BY <1>3, <2>6, <3>1
    <3> QED  BY <1>2, <2>6, <3>1, <3>2
  <2> QED  BY <2>1, <2>5, <2>6
<1>5. d \in Counts
  BY <1>3, <1>4, CountsIf
<1> QED  BY <1>5 DEF d, x

\* popitem takes the last entry.
LEMMA FrontCounts ==
    ASSUME NEW c \in Counts, c # <<>>
    PROVE  /\ Front(c) \in Counts
           /\ Last(c).type \in Types /\ Last(c).n \in Nat
           /\ Len(c) \in 1 .. Len(c) /\ Last(c) = c[Len(c)]
           /\ \A k \in 1 .. Len(Front(c)) : Front(c)[k].type # Last(c).type
           /\ Len(Front(c)) = Len(c) - 1
<1> DEFINE n == Len(c)
<1>1. /\ c \in Seq(Entry) /\ n \in Nat
      /\ \A k \in 1 .. n : c[k] \in Entry /\ c[k].type \in Types /\ c[k].n \in Nat
      /\ \A i, j \in 1 .. n : c[i].type = c[j].type => i = j
  BY CountsAre
<1>2. n \in 1 .. n
  <2>1. n # 0
    BY <1>1, EmptySeq
  <2> QED  BY <1>1, <2>1
<1>3. Last(c) = c[n]
  BY DEF Last
<1>4. /\ Front(c) \in Seq(Entry) /\ Len(Front(c)) = n - 1
      /\ \A k \in 1 .. n - 1 : Front(c)[k] = c[k]
  <2>1. 1 \in Int /\ n - 1 \in Int /\ \A k \in 1 .. n - 1 : c[k] \in Entry
    BY <1>1, <1>2
  <2> DEFINE f == SubSeq(c, 1, n - 1)
  <2>2. /\ f \in Seq(Entry)
        /\ Len(f) = IF 1 <= n - 1 THEN n - 1 - 1 + 1 ELSE 0
        /\ \A k \in 1 .. n - 1 - 1 + 1 : f[k] = c[1 + k - 1]
    BY <2>1, SubSeqProperties
  <2>3. Front(c) = f
    BY DEF Front
  <2> HIDE DEF f, n
  <2> QED  BY <1>1, <1>2, <2>2, <2>3
<1>5. \A k \in 1 .. n - 1 : k \in 1 .. n /\ k # n
  BY <1>1
<1>6. Front(c) \in Counts
  BY <1>1, <1>4, <1>5, CountsIf
<1> QED  BY <1>1, <1>2, <1>3, <1>4, <1>5, <1>6

-----------------------------------------------------------------------------
(* The loop over the seats *)

AtPlace(seen, k) == CHOOSE s \in Rows(seen) : Place(seen, s) = k

FirstPass(i) == [counts |-> hooks[i].items, seat |-> seat, credits |-> {}]

NextPass(i, f, k) ==
    IF k = 0 THEN FirstPass(i) ELSE Visit(hooks[i], f[k - 1], AtPlace(hooks[i].seen, k))

\* Every set of natural numbers has a least element.
Less == {ss \in Nat \X Nat : ss[1] < ss[2]}

LEMMA LeastOf == ASSUME NEW S \in SUBSET Nat, S # {} PROVE \E m \in S : \A k \in S : m <= k
<1>1. IsWellFoundedOn(Less, Nat)
  BY NatLessThanWellFounded DEF OpToRel, Less
<1>2. PICK m \in S : \A k \in S : ~ (<<k, m>> \in Less)
  BY <1>1, WFMin
<1>3. \A k \in S : ~ (k < m)
  BY <1>2 DEF Less
<1> QED  BY <1>3

\* The passes are what their equation says: were there none for some number of seats,
\* there would be a least such number, and one more pass after those before it.
LEMMA PassesAre ==
    ASSUME NEW i, NEW n \in Nat, n = Cardinality(Rows(hooks[i].seen))
    PROVE  /\ Passes(i)[0] = FirstPass(i)
           /\ \A k \in 1 .. n :
                 Passes(i)[k] = Visit(hooks[i], Passes(i)[k - 1], AtPlace(hooks[i].seen, k))
<1> DEFINE Is(f, m) == f = [k \in 0 .. m |-> NextPass(i, f, k)]
           None == {m \in 0 .. n : ~ \E f : Is(f, m)}
<1>1. None = {}
  <2> SUFFICES ASSUME None # {} PROVE FALSE
    OBVIOUS
  <2>1. None \in SUBSET Nat
    OBVIOUS
  <2>2. PICK m \in None : \A k \in None : m <= k
    BY <2>1, LeastOf
  <2>3. m # 0
    <3> DEFINE f == [k \in 0 .. 0 |-> FirstPass(i)]
    <3>1. Is(f, 0)
      BY DEF NextPass
    <3> QED  BY <2>2, <3>1
  <2>4. m \in Nat /\ m - 1 \in 0 .. n /\ m - 1 < m /\ m \in 0 .. n
    BY <2>2, <2>3
  <2>5. PICK f : Is(f, m - 1)
    BY <2>2, <2>4
  <2> DEFINE g == [k \in 0 .. m |-> IF k = m THEN NextPass(i, f, m) ELSE f[k]]
  <2>6. \A k \in 0 .. m - 1 : g[k] = f[k] /\ f[k] = NextPass(i, f, k)
    BY <2>4, <2>5
  <2>7. \A k \in 0 .. m : NextPass(i, g, k) = NextPass(i, f, k)
    <3> SUFFICES ASSUME NEW k \in 0 .. m PROVE NextPass(i, g, k) = NextPass(i, f, k)
      OBVIOUS
    <3>1. CASE k = 0
      BY <3>1 DEF NextPass
    <3>2. CASE k # 0
      <4>1. k - 1 \in 0 .. m - 1
        BY <2>4, <3>2
      <4> QED  BY <2>6, <3>2, <4>1 DEF NextPass
    <3> QED  BY <3>1, <3>2
  <2>8. \A k \in 0 .. m : g[k] = NextPass(i, f, k)
    <3>1. \A k \in 0 .. m : k = m \/ k \in 0 .. m - 1
      BY <2>4
    <3> QED  BY <2>4, <2>6, <3>1
  <2>9. Is(g, m)
    BY <2>7, <2>8
  <2> QED  BY <2>2, <2>9
<1>2. n \in 0 .. n
  OBVIOUS
<1>3. \E f : Is(f, n)
  BY <1>1, <1>2
<1>4. Passes(i) = CHOOSE f : Is(f, n)
  BY Zenon DEF Passes, NextPass, FirstPass, AtPlace
<1>5. Is(Passes(i), n)
  BY <1>3, <1>4
<1>6. \A k \in 0 .. n : Passes(i)[k] = NextPass(i, Passes(i), k)
  BY <1>5
<1> QED  BY <1>6 DEF NextPass

\* The three ways of a seat.
VisitKeeps(e, acc, s, v) ==
    LET t == e.seen[s].type IN
    /\ CountOf(acc.counts, t) > 0
    /\ v.counts = Append(Without(acc.counts, t), [type |-> t, n |-> CountOf(acc.counts, t) - 1])
    /\ v.seat = acc.seat /\ v.credits = acc.credits

VisitRetypes(e, acc, s, v) ==
    LET t == e.seen[s].type
        rest == Without(acc.counts, t)
        c == Last(rest) IN
    /\ CountOf(acc.counts, t) = 0 /\ rest # <<>>
    /\ v.counts = IF c.n > 1 THEN Append(Front(rest), [type |-> c.type, n |-> c.n - 1])
                  ELSE Front(rest)
    /\ v.seat = [acc.seat EXCEPT ![s] = [type |-> c.type, to |-> acc.seat[s].to]]
    /\ v.credits = acc.credits \cup Credit(e, s, ToAdd(e.balance[s], Limit[t], Limit[c.type]))

VisitDrops(e, acc, s, v) ==
    /\ CountOf(acc.counts, e.seen[s].type) = 0 /\ Without(acc.counts, e.seen[s].type) = <<>>
    /\ v.counts = <<>>
    /\ v.seat = [acc.seat EXCEPT ![s] = NoSeat]
    /\ v.credits = acc.credits \cup Credit(e, s, - e.balance[s])

LEMMA VisitIs ==
    ASSUME NEW e, NEW acc, NEW s, acc.counts \in Counts
    PROVE  LET v == Visit(e, acc, s) IN
           VisitKeeps(e, acc, s, v) \/ VisitRetypes(e, acc, s, v) \/ VisitDrops(e, acc, s, v)
<1> DEFINE t == e.seen[s].type
           n == CountOf(acc.counts, t)
           rest == Without(acc.counts, t)
           v == Visit(e, acc, s)
<1>1. n \in Nat
  BY CountOfType
<1>2. CASE n > 0
  BY <1>1, <1>2, SMTT(30) DEF Visit, VisitKeeps
<1>3. CASE n = 0 /\ rest # <<>>
  BY <1>3 DEF Visit, VisitRetypes
<1>4. CASE n = 0 /\ rest = <<>>
  BY <1>4 DEF Visit, VisitDrops
<1> QED  BY <1>1, <1>2, <1>3, <1>4

-----------------------------------------------------------------------------
(* The order of the loop *)

LEMMA HookIs ==
    ASSUME RowTypes, NEW i \in DOMAIN hooks
    PROVE  /\ hooks[i] \in Webhook /\ i \in 1 .. Len(hooks) /\ Len(hooks) \in Nat
           /\ hooks[i].seen \in [Seats -> SeatRow] /\ hooks[i].balance \in [Seats -> Int]
           /\ hooks[i].items \in Counts
           /\ hooks[i].replaced \in BOOLEAN /\ hooks[i].team \in BOOLEAN
           /\ hooks[i].kind \in {"updated", "deleted", "paid", "cycle"}
           /\ hooks[i].pc \in {"sent", "saved", "read", "done"}
<1>1. hooks \in Seq(Webhook)
  BY DEF RowTypes
<1>2. DOMAIN hooks = 1 .. Len(hooks) /\ Len(hooks) \in Nat
  BY <1>1, LenProperties
<1>3. hooks[i] \in Webhook
  BY <1>1, <1>2, ElementOfSeq
<1> QED  BY <1>2, <1>3 DEF Webhook

LEMMA SeenIs ==
    ASSUME RowTypes, IdInv, NEW i \in DOMAIN hooks
    PROVE  /\ hooks[i].seen \in [Seats -> SeatRow]
           /\ \A s \in Seats : hooks[i].seen[s].to \in Nat
           /\ \A s \in Rows(hooks[i].seen) : s \in Seats /\ hooks[i].seen[s].type \in Types
           /\ \A s \in Seats \ Rows(hooks[i].seen) : hooks[i].seen[s] = NoSeat
           /\ \A s, r \in Seats : s # r /\ hooks[i].seen[s].to # 0 =>
                 hooks[i].seen[s].to # hooks[i].seen[r].to
<1>1. hooks[i].seen \in [Seats -> SeatRow] /\ Proper(hooks[i].seen)
  BY HookIs DEF IdInv
<1>2. \A s \in Seats : hooks[i].seen[s] \in SeatRow
  BY <1>1
<1>3. \A s \in Seats : /\ hooks[i].seen[s].to \in Nat
                       /\ hooks[i].seen[s].type \in Types \cup {NoType}
                       /\ hooks[i].seen[s] =
                            [type |-> hooks[i].seen[s].type, to |-> hooks[i].seen[s].to]
  BY <1>2, TeamAssumption DEF SeatRow
<1> QED  BY <1>1, <1>3 DEF Proper, Rows, NoSeat

LEMMA EarlierIs ==
    ASSUME RowTypes, IdInv, NEW i \in DOMAIN hooks
    PROVE  LET seen == hooks[i].seen
               S == Rows(seen) IN
           TotalOrder(S, {p \in S \X S : Earlier(seen, p[1], p[2])})
<1> DEFINE seen == hooks[i].seen
           S == Rows(seen)
           R == {p \in S \X S : Earlier(seen, p[1], p[2])}
<1>1. \A s \in S : s \in Nat /\ seen[s].to \in Nat
  BY SeenIs, TeamAssumption
<1>2. \A s, r \in S : s # r => seen[s].to = 0 \/ seen[s].to # seen[r].to
  BY SeenIs
<1>3. \A s, r \in S : <<s, r>> \in R <=> Earlier(seen, s, r)
  OBVIOUS
<1> HIDE DEF S, R, seen
<1>4. \A s \in S : ~ Earlier(seen, s, s)
  BY <1>1 DEF Earlier
<1>5. \A x, y, z \in S : Earlier(seen, x, y) /\ Earlier(seen, y, z) => Earlier(seen, x, z)
  BY <1>1 DEF Earlier
<1>6. \A x, y \in S : x # y => Earlier(seen, x, y) \/ Earlier(seen, y, x)
  BY <1>1, <1>2 DEF Earlier
<1>7. TotalOrder(S, R)
  BY <1>3, <1>4, <1>5, <1>6 DEF TotalOrder
<1> QED  BY <1>7 DEF S, R, seen

LEMMA PlaceOnto ==
    ASSUME RowTypes, IdInv, NEW i \in DOMAIN hooks,
           NEW k \in 1 .. Cardinality(Rows(hooks[i].seen))
    PROVE  /\ AtPlace(hooks[i].seen, k) \in Rows(hooks[i].seen)
           /\ Place(hooks[i].seen, AtPlace(hooks[i].seen, k)) = k
<1> DEFINE seen == hooks[i].seen
           S == Rows(seen)
           R == {p \in S \X S : Earlier(seen, p[1], p[2])}
<1>1. IsFiniteSet(S) /\ Cardinality(S) \in Nat
  BY TeamAssumption, FS_Subset, FS_CardinalityType DEF Rows
<1>2. TotalOrder(S, R)
  BY SeenIs, EarlierIs
<1>3. \A s \in S : Below(S, R, s) = {r \in S : Earlier(seen, r, s)}
  BY DEF Below
<1>4. PICK s \in S : Cardinality(Below(S, R, s)) = k - 1
  <2>1. k - 1 \in 0 .. Cardinality(S) - 1
    BY <1>1
  <2> HIDE DEF S, R
  <2> QED  BY <1>1, <1>2, <2>1, RankOnto
<1>5. Place(seen, s) = k
  <2>1. k \in Int
    OBVIOUS
  <2>2. Place(seen, s) = Cardinality(Below(S, R, s)) + 1
    BY <1>3 DEF Place
  <2> QED  BY <1>4, <2>1, <2>2
<1> QED  BY <1>5 DEF AtPlace

-----------------------------------------------------------------------------
(* What the loop makes of a seat *)

CreditsOf(acc, s) == {c \in acc.credits : c.seat = s}

\* A seat stays, takes another type, or goes, and its member's balance with it.
Stays(acc, s) == acc.seat[s] = seat[s] /\ CreditsOf(acc, s) = {}

Retyped(e, acc, s) ==
    /\ s \in Rows(e.seen)
    /\ acc.seat[s].type \in Types \ {e.seen[s].type} /\ acc.seat[s].to = seat[s].to
    /\ CreditsOf(acc, s) =
          Credit(e, s, ToAdd(e.balance[s], Limit[e.seen[s].type], Limit[acc.seat[s].type]))

Dropped(e, acc, s) ==
    /\ s \in Rows(e.seen)
    /\ acc.seat[s] = NoSeat
    /\ CreditsOf(acc, s) = Credit(e, s, - e.balance[s])

LoopState(i, acc) ==
    /\ acc.counts \in Counts
    /\ acc.seat \in [Seats -> SeatRow]
    /\ acc.credits \subseteq [seat : Seats, to : 1 .. MaxJoins, amount : Int]
    /\ \A s \in Seats : Stays(acc, s) \/ Retyped(hooks[i], acc, s) \/ Dropped(hooks[i], acc, s)

Untouched(i, k, acc) ==
    \A s \in Seats : (s \in Rows(hooks[i].seen) => Place(hooks[i].seen, s) > k) => Stays(acc, s)

LEMMA CreditIs ==
    ASSUME RowTypes, IdInv, NEW i \in DOMAIN hooks, NEW s \in Seats, NEW amount \in Int
    PROVE  /\ Credit(hooks[i], s, amount) \subseteq [seat : Seats, to : 1 .. MaxJoins, amount : Int]
           /\ \A c \in Credit(hooks[i], s, amount) :
                 c.seat = s /\ c.to = hooks[i].seen[s].to /\ c.amount = amount
<1>1. hooks[i].seen[s] \in SeatRow
  BY HookIs
<1>2. hooks[i].seen[s].to \in 0 .. MaxJoins /\ MaxJoins \in Nat
  BY <1>1, TeamAssumption DEF SeatRow
<1>3. hooks[i].seen[s].to # 0 => hooks[i].seen[s].to \in 1 .. MaxJoins
  BY <1>2
<1> QED  BY <1>3 DEF Credit

\* One pass disturbs one seat only.
LEMMA PassOther ==
    ASSUME RowTypes, IdInv, NEW i \in DOMAIN hooks, NEW acc, NEW v, NEW s \in Seats,
           NEW amount \in Int, v.credits = acc.credits \cup Credit(hooks[i], s, amount),
           \A r \in Seats \ {s} : v.seat[r] = acc.seat[r]
    PROVE  \A r \in Seats \ {s} :
              /\ Stays(acc, r) => Stays(v, r)
              /\ Retyped(hooks[i], acc, r) => Retyped(hooks[i], v, r)
              /\ Dropped(hooks[i], acc, r) => Dropped(hooks[i], v, r)
<1> SUFFICES ASSUME NEW r \in Seats \ {s}
             PROVE  /\ Stays(acc, r) => Stays(v, r)
                    /\ Retyped(hooks[i], acc, r) => Retyped(hooks[i], v, r)
                    /\ Dropped(hooks[i], acc, r) => Dropped(hooks[i], v, r)
  OBVIOUS
<1>1. \A c \in Credit(hooks[i], s, amount) : c.seat = s
  BY CreditIs
<1>2. CreditsOf(v, r) = CreditsOf(acc, r)
  BY <1>1 DEF CreditsOf
<1> QED  BY <1>2 DEF Stays, Retyped, Dropped

\* ... which had not been disturbed before.
LEMMA PassSelf ==
    ASSUME RowTypes, IdInv, NEW i \in DOMAIN hooks, NEW acc, NEW v, NEW s \in Seats,
           Stays(acc, s), NEW amount \in Int,
           v.credits = acc.credits \cup Credit(hooks[i], s, amount)
    PROVE  CreditsOf(v, s) = Credit(hooks[i], s, amount)
<1>1. \A c \in Credit(hooks[i], s, amount) : c.seat = s
  BY CreditIs
<1> QED  BY <1>1 DEF CreditsOf, Stays

LEMMA PassStep ==
    ASSUME RowTypes, IdInv, NEW i \in DOMAIN hooks, NEW acc, LoopState(i, acc),
           NEW s \in Rows(hooks[i].seen), Stays(acc, s)
    PROVE  LET v == Visit(hooks[i], acc, s) IN
           LoopState(i, v) /\ \A r \in Seats \ {s} : Stays(acc, r) => Stays(v, r)
<1> DEFINE e == hooks[i]
           t == e.seen[s].type
           rest == Without(acc.counts, t)
           c == Last(rest)
           v == Visit(e, acc, s)
<1>1. /\ s \in Seats /\ t \in Types /\ e.balance[s] \in Int
      /\ Limit[t] \in Nat
  <2>1. s \in Seats /\ t \in Types
    BY SeenIs
  <2>2. e.balance \in [Seats -> Int]
    BY HookIs
  <2> QED  BY <2>1, <2>2, TeamAssumption
<1>2. /\ acc.counts \in Counts /\ acc.seat \in [Seats -> SeatRow]
      /\ acc.credits \subseteq [seat : Seats, to : 1 .. MaxJoins, amount : Int]
      /\ \A r \in Seats : Stays(acc, r) \/ Retyped(e, acc, r) \/ Dropped(e, acc, r)
  BY DEF LoopState
<1>3. rest \in Counts /\ \A k \in 1 .. Len(rest) : rest[k].type # t
  BY <1>2, WithoutIs
<1>4. VisitKeeps(e, acc, s, v) \/ VisitRetypes(e, acc, s, v) \/ VisitDrops(e, acc, s, v)
  BY <1>2, VisitIs
<1> SUFFICES LoopState(i, v) /\ \A r \in Seats \ {s} : Stays(acc, r) => Stays(v, r)
  OBVIOUS
<1> HIDE DEF v
<1>5. CASE VisitKeeps(e, acc, s, v)
  <2>1. v.seat = acc.seat /\ v.credits = acc.credits
    BY <1>5 DEF VisitKeeps
  <2>2. v.counts \in Counts
    <3>1. CountOf(acc.counts, t) \in Nat /\ CountOf(acc.counts, t) > 0
      BY <1>2, <1>5, CountOfType DEF VisitKeeps
    <3>2. CountOf(acc.counts, t) - 1 \in Nat
      BY <3>1
    <3>3. v.counts = Append(rest, [type |-> t, n |-> CountOf(acc.counts, t) - 1])
      BY <1>5 DEF VisitKeeps
    <3> HIDE DEF rest, t
    <3> QED  BY <1>1, <1>3, <3>2, <3>3, AppendCounts
  <2>3. \A r \in Seats : CreditsOf(v, r) = CreditsOf(acc, r)
    BY <2>1 DEF CreditsOf
  <2>4. \A r \in Seats : /\ Stays(acc, r) => Stays(v, r)
                         /\ Retyped(e, acc, r) => Retyped(e, v, r)
                         /\ Dropped(e, acc, r) => Dropped(e, v, r)
    BY <2>1, <2>3 DEF Stays, Retyped, Dropped
  <2>5. \A r \in Seats : Stays(v, r) \/ Retyped(e, v, r) \/ Dropped(e, v, r)
    BY <1>2, <2>4
  <2> QED  BY <1>2, <2>1, <2>2, <2>4, <2>5 DEF LoopState
<1>6. CASE VisitRetypes(e, acc, s, v)
  <2> DEFINE amount == ToAdd(e.balance[s], Limit[t], Limit[c.type])
  <2>1. rest # <<>>
    BY <1>6 DEF VisitRetypes
  <2>2. /\ Front(rest) \in Counts /\ c.type \in Types /\ c.n \in Nat /\ c.type # t
        /\ \A k \in 1 .. Len(Front(rest)) : Front(rest)[k].type # c.type
    BY <1>3, <2>1, FrontCounts
  <2>3. amount \in Int
    BY <1>1, <2>2, TeamAssumption DEF ToAdd
  <2>4. /\ v.counts = IF c.n > 1 THEN Append(Front(rest), [type |-> c.type, n |-> c.n - 1])
                      ELSE Front(rest)
        /\ v.seat = [acc.seat EXCEPT ![s] = [type |-> c.type, to |-> acc.seat[s].to]]
        /\ v.credits = acc.credits \cup Credit(e, s, amount)
    BY <1>6 DEF VisitRetypes
  <2> HIDE DEF amount, rest, c, t
  <2>5. v.counts \in Counts
    <3>1. c.n > 1 => c.n - 1 \in Nat
      BY <2>2
    <3> QED  BY <2>2, <2>4, <3>1, AppendCounts
  <2>6. acc.seat[s] = seat[s] /\ acc.seat[s] \in SeatRow
    BY <1>1, <1>2 DEF Stays
  <2>7. [type |-> c.type, to |-> acc.seat[s].to] \in SeatRow
    BY <2>2, <2>6 DEF SeatRow
  <2>8. /\ v.seat \in [Seats -> SeatRow]
        /\ v.seat[s].type = c.type /\ v.seat[s].to = seat[s].to
        /\ \A r \in Seats \ {s} : v.seat[r] = acc.seat[r]
    BY <1>1, <1>2, <2>4, <2>6, <2>7
  <2>9. v.credits \subseteq [seat : Seats, to : 1 .. MaxJoins, amount : Int]
    BY <1>1, <1>2, <2>3, <2>4, CreditIs
  <2>10. Retyped(e, v, s)
    <3>1. CreditsOf(v, s) = Credit(e, s, amount)
      BY <1>1, <2>3, <2>4, PassSelf
    <3> QED  BY <2>2, <2>8, <3>1 DEF Retyped, amount, t
  <2>11. \A r \in Seats \ {s} : /\ Stays(acc, r) => Stays(v, r)
                                /\ Retyped(e, acc, r) => Retyped(e, v, r)
                                /\ Dropped(e, acc, r) => Dropped(e, v, r)
    BY <1>1, <2>3, <2>4, <2>8, PassOther
  <2>12. \A r \in Seats : Stays(v, r) \/ Retyped(e, v, r) \/ Dropped(e, v, r)
    BY <1>2, <2>10, <2>11
  <2> QED  BY <2>5, <2>8, <2>9, <2>11, <2>12 DEF LoopState
<1>7. CASE VisitDrops(e, acc, s, v)
  <2> DEFINE amount == - e.balance[s]
  <2>1. amount \in Int
    BY <1>1
  <2>2. /\ v.counts = <<>>
        /\ v.seat = [acc.seat EXCEPT ![s] = NoSeat]
        /\ v.credits = acc.credits \cup Credit(e, s, amount)
    BY <1>7 DEF VisitDrops
  <2> HIDE DEF amount
  <2>3. v.counts \in Counts
    <3>1. v.counts \in Seq(Entry) /\ Len(v.counts) = 0
      BY <2>2, EmptySeq
    <3>2. \A j, k \in 1 .. Len(v.counts) : v.counts[j].type = v.counts[k].type => j = k
      BY <3>1
    <3> QED  BY <3>1, <3>2, CountsIf
  <2>4. NoSeat \in SeatRow
    BY TeamAssumption DEF NoSeat, SeatRow
  <2>5. /\ v.seat \in [Seats -> SeatRow] /\ v.seat[s] = NoSeat
        /\ \A r \in Seats \ {s} : v.seat[r] = acc.seat[r]
    BY <1>1, <1>2, <2>2, <2>4
  <2>6. v.credits \subseteq [seat : Seats, to : 1 .. MaxJoins, amount : Int]
    BY <1>1, <1>2, <2>1, <2>2, CreditIs
  <2>7. Dropped(e, v, s)
    <3>1. CreditsOf(v, s) = Credit(e, s, amount)
      BY <1>1, <2>1, <2>2, PassSelf
    <3> QED  BY <2>5, <3>1 DEF Dropped, amount
  <2>8. \A r \in Seats \ {s} : /\ Stays(acc, r) => Stays(v, r)
                               /\ Retyped(e, acc, r) => Retyped(e, v, r)
                               /\ Dropped(e, acc, r) => Dropped(e, v, r)
    BY <1>1, <2>1, <2>2, <2>5, PassOther
  <2>9. \A r \in Seats : Stays(v, r) \/ Retyped(e, v, r) \/ Dropped(e, v, r)
    BY <1>2, <2>7, <2>8
  <2> QED  BY <2>3, <2>5, <2>6, <2>8, <2>9 DEF LoopState
<1> QED  BY <1>4, <1>5, <1>6, <1>7

\* A seat is disturbed at its own place only.
LEMMA PassKeeps ==
    ASSUME RowTypes, IdInv, NEW i \in DOMAIN hooks
    PROVE  \A k \in 0 .. Cardinality(Rows(hooks[i].seen)) :
              LoopState(i, Passes(i)[k]) /\ Untouched(i, k, Passes(i)[k])
<1> DEFINE S == Rows(hooks[i].seen)
           n == Cardinality(S)
           Good(k) == LoopState(i, Passes(i)[k]) /\ Untouched(i, k, Passes(i)[k])
           Bad == {k \in 0 .. n : ~ Good(k)}
<1>1. n \in Nat
  BY TeamAssumption, FS_Subset, FS_CardinalityType DEF Rows
<1>2. /\ Passes(i)[0] = FirstPass(i)
      /\ \A k \in 1 .. n :
            Passes(i)[k] = Visit(hooks[i], Passes(i)[k - 1], AtPlace(hooks[i].seen, k))
  BY <1>1, PassesAre
<1>3. \A s \in S : s \in Seats /\ Place(hooks[i].seen, s) \in Nat \ {0}
  <2> SUFFICES ASSUME NEW s \in S PROVE s \in Seats /\ Place(hooks[i].seen, s) \in Nat \ {0}
    OBVIOUS
  <2> DEFINE before == {r \in Rows(hooks[i].seen) : Earlier(hooks[i].seen, r, s)}
  <2>1. before \subseteq Seats /\ s \in Seats
    BY DEF Rows
  <2>2. Cardinality(before) \in Nat
    BY <2>1, TeamAssumption, FS_Subset, FS_CardinalityType
  <2> HIDE DEF before
  <2>3. Place(hooks[i].seen, s) = Cardinality(before) + 1
    BY DEF Place, before
  <2> QED  BY <2>1, <2>2, <2>3
<1> HIDE DEF n
<1>4. Good(0)
  <2>1. hooks[i].items \in Counts /\ seat \in [Seats -> SeatRow]
    BY HookIs DEF RowTypes
  <2>2. \A s \in Seats : Stays(FirstPass(i), s)
    BY DEF Stays, FirstPass, CreditsOf
  <2>3. LoopState(i, FirstPass(i))
    BY <2>1, <2>2 DEF LoopState, FirstPass
  <2> QED  BY <1>2, <2>2, <2>3 DEF Untouched
<1>5. ASSUME NEW k \in 1 .. n, Good(k - 1) PROVE Good(k)
  <2> DEFINE acc == Passes(i)[k - 1]
             s == AtPlace(hooks[i].seen, k)
             v == Passes(i)[k]
  <2>1. s \in S /\ Place(hooks[i].seen, s) = k
    BY PlaceOnto DEF n
  <2>2. v = Visit(hooks[i], acc, s)
    BY <1>2
  <2>3. LoopState(i, acc) /\ Untouched(i, k - 1, acc)
    BY <1>5
  <2> HIDE DEF acc, s, v
  <2>4. Stays(acc, s)
    <3>1. k > k - 1
      BY <1>1
    <3> QED  BY <1>3, <2>1, <2>3, <3>1 DEF Untouched
  <2>5. LoopState(i, v) /\ \A r \in Seats \ {s} : Stays(acc, r) => Stays(v, r)
    BY <2>1, <2>2, <2>3, <2>4, PassStep
  <2>6. Untouched(i, k, v)
    <3> SUFFICES ASSUME NEW r \in Seats, r \in S => Place(hooks[i].seen, r) > k
                 PROVE  Stays(v, r)
      BY DEF Untouched
    <3>1. r # s
      BY <1>1, <2>1
    <3>2. r \in S => Place(hooks[i].seen, r) > k - 1
      BY <1>1, <1>3
    <3>3. Stays(acc, r)
      BY <2>3, <3>2 DEF Untouched
    <3> QED  BY <2>5, <3>1, <3>3
  <2> QED  BY <2>5, <2>6 DEF v
<1>6. Bad = {}
  <2> SUFFICES ASSUME Bad # {} PROVE FALSE
    OBVIOUS
  <2>1. Bad \in SUBSET Nat
    BY <1>1
  <2>2. PICK k \in Bad : \A j \in Bad : k <= j
    BY <2>1, LeastOf
  <2>3. k \in 0 .. n /\ ~ Good(k)
    BY <2>2
  <2> HIDE DEF Good
  <2>4. k # 0
    BY <1>4, <2>3
  <2>5. k \in 1 .. n /\ k - 1 \in 0 .. n /\ ~ (k <= k - 1)
    BY <1>1, <2>3, <2>4
  <2>6. Good(k - 1)
    BY <2>2, <2>5
  <2> QED  BY <1>5, <2>3, <2>5, <2>6
<1>7. \A k \in 0 .. n : Good(k)
  <2> HIDE DEF Good
  <2> QED  BY <1>6
<1> QED  BY <1>7 DEF n

LEMMA LoopIs ==
    ASSUME RowTypes, IdInv, NEW i \in DOMAIN hooks
    PROVE  LoopState(i, Loop(i)) /\ Untouched(i, Cardinality(Rows(hooks[i].seen)), Loop(i))
<1>1. Cardinality(Rows(hooks[i].seen)) \in Nat
  BY TeamAssumption, FS_Subset, FS_CardinalityType DEF Rows
<1>2. Cardinality(Rows(hooks[i].seen)) \in 0 .. Cardinality(Rows(hooks[i].seen))
  BY <1>1
<1> QED  BY <1>2, PassKeeps DEF Loop

\* The parts of it that the other proofs need.
LEMMA LoopSeats ==
    ASSUME RowTypes, IdInv, NEW i \in DOMAIN hooks
    PROVE  /\ Loop(i).counts \in Counts
           /\ Loop(i).seat \in [Seats -> SeatRow]
           /\ Loop(i).credits \subseteq [seat : Seats, to : 1 .. MaxJoins, amount : Int]
           /\ \A s \in Seats : \/ Stays(Loop(i), s)
                               \/ Retyped(hooks[i], Loop(i), s)
                               \/ Dropped(hooks[i], Loop(i), s)
           /\ \A s \in Seats : s \notin Rows(hooks[i].seen) => Stays(Loop(i), s)
           /\ \A s \in Seats : Loop(i).seat[s].to \in {0, seat[s].to}
<1>1. LoopState(i, Loop(i)) /\ Untouched(i, Cardinality(Rows(hooks[i].seen)), Loop(i))
  BY LoopIs
<1>2. \A s \in Seats : s \notin Rows(hooks[i].seen) => Stays(Loop(i), s)
  BY <1>1 DEF Untouched
<1>3. \A s \in Seats : \/ Stays(Loop(i), s)
                      \/ Retyped(hooks[i], Loop(i), s)
                      \/ Dropped(hooks[i], Loop(i), s)
  BY <1>1 DEF LoopState
<1>4. \A s \in Seats : Loop(i).seat[s].to \in {0, seat[s].to}
  BY <1>3 DEF Stays, Retyped, Dropped, NoSeat
<1> QED  BY <1>1, <1>2, <1>3, <1>4 DEF LoopState

-----------------------------------------------------------------------------
(* New seats, and who gets the vacant ones *)

LEMMA CreatedIs ==
    ASSUME RowTypes, IdInv, NEW i \in Reading, Fillings(Loop(i)) # {}
    PROVE  LET seats == Created(Loop(i)) IN
           /\ seats \in [Seats -> SeatRow]
           /\ \A s \in Seats :
                 \/ seats[s] = Loop(i).seat[s]
                 \/ /\ Loop(i).seat[s].type = NoType /\ hooks[i].seen[s].type = NoType
                    /\ seats[s].type \in Types /\ seats[s].to = 0
           /\ \A s \in Seats : seats[s].to \in {0, seat[s].to}
           /\ \A s \in Seats : seats[s].type = NoType => seats[s].to = 0
<1> DEFINE acc == Loop(i)
           new == CHOOSE f \in Fillings(acc) : TRUE
           seats == Created(acc)
<1>1. i \in DOMAIN hooks /\ MaxJoins \in Nat /\ NoType \notin Types
  BY TeamAssumption DEF Reading
<1>2. new \in Fillings(acc)
  OBVIOUS
<1>3. seats = [s \in Seats |-> IF new[s] # NoType THEN [type |-> new[s], to |-> 0] ELSE acc.seat[s]]
  BY DEF Created
<1> HIDE DEF new
<1>4. new \in [Seats -> Types \cup {NoType}] /\ \A s \in Seats : new[s] # NoType => s \in FreeSlots(acc)
  BY <1>2 DEF Fillings
<1>5. /\ acc.seat \in [Seats -> SeatRow]
      /\ \A s \in Seats : acc.seat[s].to \in {0, seat[s].to}
  BY <1>1, LoopSeats
<1>6. \A s \in Seats : acc.seat[s].type = NoType => acc.seat[s].to = 0
  <2>1. \A s \in Seats : Stays(acc, s) \/ Retyped(hooks[i], acc, s) \/ Dropped(hooks[i], acc, s)
    BY <1>1, LoopSeats
  <2>2. Proper(seat)
    BY DEF IdInv
  <2> QED  BY <1>1, <2>1, <2>2 DEF Stays, Retyped, Dropped, NoSeat, Proper
<1> HIDE DEF acc, seats
<1>7. ASSUME NEW s \in Seats
      PROVE  /\ seats[s] \in SeatRow
             /\ \/ seats[s] = acc.seat[s]
                \/ /\ acc.seat[s].type = NoType /\ hooks[i].seen[s].type = NoType
                   /\ seats[s].type \in Types /\ seats[s].to = 0
             /\ seats[s].to \in {0, seat[s].to}
             /\ seats[s].type = NoType => seats[s].to = 0
  <2>1. CASE new[s] = NoType
    <3>1. seats[s] = acc.seat[s] /\ acc.seat[s] \in SeatRow
      BY <1>3, <1>5, <2>1
    <3> QED  BY <1>5, <1>6, <3>1
  <2>2. CASE new[s] # NoType
    <3>1. seats[s] = [type |-> new[s], to |-> 0] /\ new[s] \in Types /\ s \in FreeSlots(acc)
      BY <1>3, <1>4, <2>2
    <3>2. acc.seat[s].type = NoType /\ hooks[i].seen[s].type = NoType
      BY <3>1 DEF FreeSlots
    <3>3. seats[s] \in SeatRow
      BY <1>1, <3>1 DEF SeatRow
    <3> QED  BY <1>1, <3>1, <3>2, <3>3
  <2> QED  BY <2>1, <2>2
<1>8. seats \in [Seats -> SeatRow]
  BY <1>3, <1>7
<1> QED  BY <1>7, <1>8 DEF acc, seats

\* Users with and seats for one another, one each.
Matching(pairs, seats) ==
    /\ pairs \subseteq Users \X Seats
    /\ \A u \in Users, s \in Seats : <<u, s>> \in pairs =>
          /\ member[u].id # 0 /\ \A r \in Seats : seats[r].to # member[u].id
          /\ seats[s].type # NoType /\ seats[s].to = 0
    /\ \A u, v \in Users, s \in Seats : <<u, s>> \in pairs /\ <<v, s>> \in pairs => u = v
    /\ \A u \in Users, s, r \in Seats : <<u, s>> \in pairs /\ <<u, r>> \in pairs => s = r

LEMMA AssignmentsMatch ==
    ASSUME RowTypes, IdInv, NEW seats \in [Seats -> SeatRow]
    PROVE  Matching(Assignments(seats), seats)
<1> DEFINE U == Unseated(seats)
           V == Vacant(seats)
           pairs == Assignments(seats)
           Newer == {p \in U \X U : member[p[1]].id > member[p[2]].id}
           Above == {p \in V \X V : Better(seats, p[1], p[2])}
<1>1. /\ U \subseteq Users /\ V \subseteq Seats
      /\ IsFiniteSet(U) /\ IsFiniteSet(V)
  BY TeamAssumption, FS_Subset DEF Unseated, Vacant
<1>2. \A u \in U : member[u].id \in Nat /\ \A v \in U : u # v => member[u].id # member[v].id
  BY <1>1 DEF RowTypes, IdInv, Unseated
<1>3. \A s \in V : s \in Nat /\ Limit[seats[s].type] \in Nat
  <2>1. \A s \in V : seats[s] \in SeatRow /\ seats[s].type # NoType
    BY <1>1 DEF Vacant
  <2>2. \A s \in V : seats[s].type \in Types
    BY <2>1 DEF SeatRow
  <2> QED  BY <1>1, <2>2, TeamAssumption
<1>4. \A p \in pairs : p \in U \X V /\ Cardinality({u \in U : member[u].id > member[p[1]].id})
                                          = Cardinality({s \in V : Better(seats, s, p[2])})
  BY DEF Assignments
<1>5. \A p \in pairs : Cardinality(Below(U, Newer, p[1])) = Cardinality(Below(V, Above, p[2]))
  <2> SUFFICES ASSUME NEW p \in pairs
               PROVE  Cardinality(Below(U, Newer, p[1])) = Cardinality(Below(V, Above, p[2]))
    OBVIOUS
  <2>1. p[1] \in U /\ p[2] \in V
    BY <1>4
  <2> HIDE DEF U, V, pairs
  <2>2. Below(U, Newer, p[1]) = {u \in U : member[u].id > member[p[1]].id}
    BY <2>1 DEF Below
  <2>3. Below(V, Above, p[2]) = {s \in V : Better(seats, s, p[2])}
    BY <2>1 DEF Below
  <2> QED  BY <1>4, <2>2, <2>3
<1>6. \A u \in U : /\ u \in Users /\ member[u].id # 0
                  /\ \A r \in Seats : seats[r].to # member[u].id
  BY DEF Unseated
<1>7. \A s \in V : s \in Seats /\ seats[s].type # NoType /\ seats[s].to = 0
  BY DEF Vacant
<1> HIDE DEF U, V, pairs
<1>8. TotalOrder(U, Newer)
  <2>1. \A u, v \in U : <<u, v>> \in Newer <=> member[u].id > member[v].id
    OBVIOUS
  <2> HIDE DEF Newer
  <2> QED  BY <1>2, <2>1 DEF TotalOrder
<1>9. TotalOrder(V, Above)
  <2>1. \A s, r \in V : <<s, r>> \in Above <=> Better(seats, s, r)
    OBVIOUS
  <2> HIDE DEF Above
  <2>2. \A s \in V : ~ Better(seats, s, s)
    BY <1>3 DEF Better
  <2>3. \A x, y, z \in V : Better(seats, x, y) /\ Better(seats, y, z) => Better(seats, x, z)
    BY <1>3 DEF Better
  <2>4. \A x, y \in V : x # y => Better(seats, x, y) \/ Better(seats, y, x)
    BY <1>3 DEF Better
  <2> QED  BY <2>1, <2>2, <2>3, <2>4 DEF TotalOrder
<1> HIDE DEF Newer, Above
<1>10. \A u, v \in U : Cardinality(Below(U, Newer, u)) = Cardinality(Below(U, Newer, v)) => u = v
  BY <1>1, <1>8, RankMonotone
<1>11. \A s, r \in V : Cardinality(Below(V, Above, s)) = Cardinality(Below(V, Above, r)) => s = r
  BY <1>1, <1>9, RankMonotone
<1>12. \A u, s : <<u, s>> \in pairs =>
          /\ u \in U /\ s \in V
          /\ Cardinality(Below(U, Newer, u)) = Cardinality(Below(V, Above, s))
  BY <1>4, <1>5
<1>13. pairs \subseteq Users \X Seats
  BY <1>1, <1>4
<1>14. Matching(pairs, seats)
  BY <1>6, <1>7, <1>10, <1>11, <1>12, <1>13 DEF Matching
<1> QED  BY <1>14 DEF pairs

LEMMA NoneMatch == ASSUME NEW seats PROVE Matching({}, seats)
BY DEF Matching

LEMMA AssignedIs ==
    ASSUME RowTypes, IdInv, NEW seats \in [Seats -> SeatRow], NEW pairs, Matching(pairs, seats)
    PROVE  LET given == Assigned(seats, pairs) IN
           /\ given \in [Seats -> SeatRow]
           /\ \A s \in Seats : given[s].type = seats[s].type
           /\ \A u \in Users, s \in Seats : <<u, s>> \in pairs => given[s].to = member[u].id
           /\ \A s \in Seats : (\A u \in Users : <<u, s>> \notin pairs) => given[s] = seats[s]
<1> DEFINE given == Assigned(seats, pairs)
           For(s) == CHOOSE u \in Users : <<u, s>> \in pairs
<1>1. given = [s \in Seats |-> IF \E u \in Users : <<u, s>> \in pairs
                              THEN [type |-> seats[s].type, to |-> member[For(s)].id] ELSE seats[s]]
  BY DEF Assigned
<1> HIDE DEF given
<1>2. ASSUME NEW s \in Seats, NEW u \in Users, <<u, s>> \in pairs
      PROVE  given[s] = [type |-> seats[s].type, to |-> member[u].id] /\ given[s] \in SeatRow
  <2>1. For(s) = u
    <3>1. For(s) \in Users /\ <<For(s), s>> \in pairs
      BY <1>2
    <3> HIDE DEF For
    <3> QED  BY <1>2, <3>1 DEF Matching
  <2>2. given[s] = [type |-> seats[s].type, to |-> member[u].id]
    BY <1>1, <1>2, <2>1
  <2>3. seats[s].type \in Types \cup {NoType} /\ member[u].id \in 0 .. MaxJoins
    BY DEF SeatRow, RowTypes
  <2> QED  BY <2>2, <2>3 DEF SeatRow
<1>3. ASSUME NEW s \in Seats, \A u \in Users : <<u, s>> \notin pairs
      PROVE  given[s] = seats[s] /\ given[s] \in SeatRow
  BY <1>1, <1>3
<1>4. \A s \in Seats : given[s] \in SeatRow
  BY <1>2, <1>3
<1>5. given \in [Seats -> SeatRow]
  BY <1>1, <1>4
<1>6. ASSUME NEW s \in Seats PROVE given[s].type = seats[s].type
  <2>1. CASE \E u \in Users : <<u, s>> \in pairs
    <3>1. PICK u \in Users : given[s] = [type |-> seats[s].type, to |-> member[u].id]
      BY <1>2, <2>1
    <3> QED  BY <3>1
  <2>2. CASE \A u \in Users : <<u, s>> \notin pairs
    BY <1>3, <2>2
  <2> QED  BY <2>1, <2>2
<1>7. ASSUME NEW u \in Users, NEW s \in Seats, <<u, s>> \in pairs
      PROVE  given[s].to = member[u].id
  <2>1. given[s] = [type |-> seats[s].type, to |-> member[u].id]
    BY <1>2, <1>7
  <2> QED  BY <2>1
<1> QED  BY <1>3, <1>5, <1>6, <1>7 DEF given

-----------------------------------------------------------------------------
(* The webhooks *)

LEMMA NoCounts == <<>> \in Counts
<1>1. <<>> \in Seq(Entry) /\ Len(<<>>) = 0
  BY EmptySeq
<1>2. \A j, k \in 1 .. Len(<<>>) : (<<>>)[j].type = (<<>>)[k].type => j = k
  BY <1>1
<1> QED  BY <1>1, <1>2, CountsIf

LEMMA ItemsAreCounts == ASSUME NEW items \in Items PROVE items \in Counts
BY TeamAssumption DEF Counts

LEMMA NewHook ==
    ASSUME NEW kind \in {"updated", "deleted", "paid", "cycle"}, NEW items \in Counts,
           NEW pc \in {"sent", "saved", "read", "done"}
    PROVE  /\ Hook(kind, items, pc) \in Webhook
           /\ Hook(kind, items, pc).kind = kind /\ Hook(kind, items, pc).pc = pc
           /\ Hook(kind, items, pc).items = items
           /\ \A s \in Seats : Hook(kind, items, pc).seen[s] = NoSeat
<1>1. NoSeat \in SeatRow
  BY TeamAssumption DEF NoSeat, SeatRow
<1>2. /\ [s \in Seats |-> NoSeat] \in [Seats -> SeatRow]
      /\ [s \in Seats |-> 0] \in [Seats -> Int]
  BY <1>1
<1> QED  BY <1>2 DEF Hook, Webhook

LEMMA HooksSet ==
    ASSUME RowTypes, NEW i \in DOMAIN hooks, NEW w \in Webhook, hooks' = [hooks EXCEPT ![i] = w]
    PROVE  /\ hooks' \in Seq(Webhook)
           /\ Len(hooks') = Len(hooks) /\ DOMAIN hooks' = DOMAIN hooks
           /\ hooks'[i] = w
           /\ \A j \in DOMAIN hooks : j # i => hooks'[j] = hooks[j]
<1>1. hooks \in Seq(Webhook)
  BY DEF RowTypes
<1>2. DOMAIN hooks = 1 .. Len(hooks)
  BY <1>1, LenProperties
<1> QED  BY <1>1, <1>2, ExceptSeq

LEMMA HooksAdded ==
    ASSUME RowTypes, NEW new \in Seq(Webhook), hooks' = hooks \o new
    PROVE  /\ hooks' \in Seq(Webhook)
           /\ Len(hooks) \in Nat /\ Len(hooks') = Len(hooks) + Len(new)
           /\ DOMAIN hooks = 1 .. Len(hooks) /\ DOMAIN hooks' = 1 .. Len(hooks) + Len(new)
           /\ \A j \in 1 .. Len(hooks) : hooks'[j] = hooks[j]
           /\ \A j \in 1 .. Len(new) : hooks'[Len(hooks) + j] = new[j]
<1>1. hooks \in Seq(Webhook)
  BY DEF RowTypes
<1>2. Len(hooks) \in Nat /\ DOMAIN hooks = 1 .. Len(hooks) /\ Len(new) \in Nat
  BY <1>1, LenProperties
<1>3. /\ hooks' \in Seq(Webhook) /\ Len(hooks') = Len(hooks) + Len(new)
      /\ \A j \in 1 .. Len(hooks) + Len(new) :
            hooks'[j] = IF j <= Len(hooks) THEN hooks[j] ELSE new[j - Len(hooks)]
  BY <1>1, ConcatProperties
<1>4. DOMAIN hooks' = 1 .. Len(hooks')
  BY <1>3, LenProperties
<1>5. \A j \in 1 .. Len(new) : /\ Len(hooks) + j \in 1 .. Len(hooks) + Len(new)
                               /\ ~ (Len(hooks) + j <= Len(hooks))
                               /\ Len(hooks) + j - Len(hooks) = j
  BY <1>2
<1>6. \A j \in 1 .. Len(new) : hooks'[Len(hooks) + j] = new[j]
  BY <1>3, <1>5
<1>7. \A j \in 1 .. Len(hooks) : hooks'[j] = hooks[j]
  BY <1>2, <1>3
<1> QED  BY <1>2, <1>3, <1>4, <1>6, <1>7

LEMMA ChangeIs ==
    ASSUME RowTypes, NEW items \in Items, ChangeItems(items)
    PROVE  /\ items \in Counts
           /\ hooks' \in Seq(Webhook)
           /\ Len(hooks) \in Nat /\ DOMAIN hooks = 1 .. Len(hooks) /\ DOMAIN hooks' = 1 .. Len(hooks')
           /\ \A j \in 1 .. Len(hooks) : hooks'[j] = hooks[j]
           /\ \/ /\ items = <<>> /\ Len(hooks') = Len(hooks) + 1
                 /\ hooks'[Len(hooks) + 1] = Hook("deleted", <<>>, "sent")
              \/ /\ items # <<>> /\ Len(hooks') = Len(hooks) + 2
                 /\ hooks'[Len(hooks) + 1] = Hook("updated", items, "sent")
                 /\ hooks'[Len(hooks) + 2] = Hook("paid", <<>>, "sent")
<1>1. items \in Counts /\ <<>> \in Counts
  BY ItemsAreCounts, NoCounts
<1> DEFINE d == Hook("deleted", <<>>, "sent")
           p == Hook("paid", <<>>, "sent")
           c == Hook("updated", items, "sent")
<1>2. d \in Webhook /\ p \in Webhook /\ c \in Webhook
  BY <1>1, NewHook
<1> HIDE DEF d, p, c
<1>3. CASE items = <<>>
  <2>1. hooks' = hooks \o <<d>>
    BY <1>3 DEF ChangeItems, d
  <2>2. <<d>> \in Seq(Webhook) /\ Len(<<d>>) = 1 /\ (<<d>>)[1] = d
    BY <1>2
  <2>3. /\ Len(hooks') = Len(hooks) + 1 /\ hooks'[Len(hooks) + 1] = d
        /\ hooks' \in Seq(Webhook) /\ Len(hooks) \in Nat
        /\ DOMAIN hooks = 1 .. Len(hooks) /\ DOMAIN hooks' = 1 .. Len(hooks) + 1
        /\ \A j \in 1 .. Len(hooks) : hooks'[j] = hooks[j]
    <3> DEFINE new == <<d>>
    <3>1. new \in Seq(Webhook) /\ Len(new) = 1 /\ 1 \in 1 .. Len(new) /\ new[1] = d /\ hooks' = hooks \o new
      BY <2>1, <2>2
    <3> HIDE DEF new
    <3> QED  BY <3>1, HooksAdded
  <2> QED  BY <1>1, <1>3, <2>3 DEF d
<1>4. CASE items # <<>>
  <2>1. hooks' = hooks \o <<c, p>>
    BY <1>4 DEF ChangeItems, c, p
  <2>2. <<c, p>> \in Seq(Webhook) /\ Len(<<c, p>>) = 2 /\ (<<c, p>>)[1] = c /\ (<<c, p>>)[2] = p
    BY <1>2
  <2>3. /\ Len(hooks') = Len(hooks) + 2
        /\ hooks'[Len(hooks) + 1] = c /\ hooks'[Len(hooks) + 2] = p
        /\ hooks' \in Seq(Webhook) /\ Len(hooks) \in Nat
        /\ DOMAIN hooks = 1 .. Len(hooks) /\ DOMAIN hooks' = 1 .. Len(hooks) + 2
        /\ \A j \in 1 .. Len(hooks) : hooks'[j] = hooks[j]
    <3> DEFINE new == <<c, p>>
    <3>1. /\ new \in Seq(Webhook) /\ Len(new) = 2 /\ 1 \in 1 .. Len(new) /\ 2 \in 1 .. Len(new)
          /\ new[1] = c /\ new[2] = p /\ hooks' = hooks \o new
      BY <2>1, <2>2
    <3> HIDE DEF new
    <3> QED  BY <3>1, HooksAdded
  <2> QED  BY <1>1, <1>4, <2>3 DEF c, p
<1> QED  BY <1>3, <1>4

LEMMA CycleIs ==
    ASSUME RowTypes, Cycle
    PROVE  /\ hooks' \in Seq(Webhook)
           /\ Len(hooks) \in Nat /\ DOMAIN hooks = 1 .. Len(hooks) /\ DOMAIN hooks' = 1 .. Len(hooks')
           /\ \A j \in 1 .. Len(hooks) : hooks'[j] = hooks[j]
           /\ Len(hooks') = Len(hooks) + 1
           /\ hooks'[Len(hooks) + 1] = Hook("cycle", <<>>, "sent")
<1> DEFINE c == Hook("cycle", <<>>, "sent")
<1>1. c \in Webhook
  BY NoCounts, NewHook
<1>2. hooks' = Append(hooks, c)
  BY DEF Cycle
<1> HIDE DEF c
<1>3. hooks \in Seq(Webhook)
  BY DEF RowTypes
<1>4. /\ hooks' \in Seq(Webhook) /\ Len(hooks') = Len(hooks) + 1
      /\ \A j \in 1 .. Len(hooks) : hooks'[j] = hooks[j]
      /\ hooks'[Len(hooks) + 1] = c
  BY <1>1, <1>2, <1>3, AppendProperties
<1>5. /\ Len(hooks) \in Nat /\ DOMAIN hooks = 1 .. Len(hooks)
      /\ DOMAIN hooks' = 1 .. Len(hooks')
  BY <1>3, <1>4, LenProperties
<1> QED  BY <1>4, <1>5 DEF c

\* A webhook that is over has not changed its kind.
LEMMA AgainIs ==
    ASSUME RowTypes, NEW i \in DOMAIN hooks
    PROVE  /\ Again(hooks[i]) \in Webhook
           /\ Again(hooks[i]).kind = hooks[i].kind /\ Again(hooks[i]).pc = "sent"
           /\ Again(hooks[i]).items = IF hooks[i].kind = "paid" THEN <<>> ELSE hooks[i].items
           /\ \A s \in Seats : Again(hooks[i]).seen[s] = NoSeat
<1> DEFINE items == IF hooks[i].kind = "paid" THEN <<>> ELSE hooks[i].items
<1>1. hooks[i].kind \in {"updated", "deleted", "paid", "cycle"} /\ items \in Counts
  BY HookIs, NoCounts
<1>2. Again(hooks[i]) = Hook(hooks[i].kind, items, "sent")
  BY DEF Again
<1> HIDE DEF items
<1>3. /\ Again(hooks[i]) \in Webhook
      /\ Again(hooks[i]).kind = hooks[i].kind /\ Again(hooks[i]).pc = "sent"
      /\ Again(hooks[i]).items = items
      /\ \A s \in Seats : Again(hooks[i]).seen[s] = NoSeat
  BY <1>1, <1>2, NewHook
<1> QED  BY <1>3 DEF items

LEMMA AnsweredIs ==
    ASSUME RowTypes, NEW i \in DOMAIN hooks, Answered(i)
    PROVE  /\ hooks' \in Seq(Webhook)
           /\ Len(hooks') = Len(hooks) /\ DOMAIN hooks' = DOMAIN hooks
           /\ \A j \in DOMAIN hooks : j # i => hooks'[j] = hooks[j]
           /\ hooks'[i].kind = hooks[i].kind
           /\ \A s \in Seats : hooks'[i].seen[s] = NoSeat
           /\ \/ hooks'[i].pc = "done" /\ lost' = lost
              \/ hooks'[i] = Again(hooks[i]) /\ hooks'[i].pc = "sent" /\ lost' = lost + 1
<1>1. hooks[i].kind \in {"updated", "deleted", "paid", "cycle"}
  BY HookIs
<1>2. CASE hooks' = [hooks EXCEPT ![i] = Hook(@.kind, <<>>, "done")] /\ UNCHANGED lost
  <2> DEFINE d == Hook(hooks[i].kind, <<>>, "done")
  <2>1. /\ d \in Webhook /\ d.kind = hooks[i].kind /\ d.pc = "done"
        /\ \A s \in Seats : d.seen[s] = NoSeat
    BY <1>1, NoCounts, NewHook
  <2>2. hooks' = [hooks EXCEPT ![i] = d] /\ lost' = lost
    BY <1>2
  <2> HIDE DEF d
  <2> QED  BY <2>1, <2>2, HooksSet
<1>3. CASE lost' = lost + 1 /\ hooks' = [hooks EXCEPT ![i] = Again(@)]
  <2>1. hooks' = [hooks EXCEPT ![i] = Again(hooks[i])]
    BY <1>3
  <2>2. /\ Again(hooks[i]) \in Webhook
        /\ Again(hooks[i]).kind = hooks[i].kind /\ Again(hooks[i]).pc = "sent"
        /\ \A s \in Seats : Again(hooks[i]).seen[s] = NoSeat
    BY AgainIs
  <2>3. /\ hooks' \in Seq(Webhook)
        /\ Len(hooks') = Len(hooks) /\ DOMAIN hooks' = DOMAIN hooks
        /\ hooks'[i] = Again(hooks[i])
        /\ \A j \in DOMAIN hooks : j # i => hooks'[j] = hooks[j]
    BY <2>1, <2>2, HooksSet
  <2> QED  BY <1>3, <2>2, <2>3
<1> QED  BY <1>2, <1>3 DEF Answered


LEMMA RetryIs ==
    ASSUME RowTypes, NEW i \in DOMAIN hooks, Retry(i)
    PROVE  /\ hooks' \in Seq(Webhook)
           /\ Len(hooks') = Len(hooks) /\ DOMAIN hooks' = DOMAIN hooks
           /\ \A j \in DOMAIN hooks : j # i => hooks'[j] = hooks[j]
           /\ hooks'[i] = Again(hooks[i]) /\ hooks'[i].pc = "sent"
           /\ hooks'[i].kind = hooks[i].kind
           /\ \A s \in Seats : hooks'[i].seen[s] = NoSeat
<1>1. hooks' = [hooks EXCEPT ![i] = Again(hooks[i])]
  BY DEF Retry
<1>2. /\ Again(hooks[i]) \in Webhook
      /\ Again(hooks[i]).kind = hooks[i].kind /\ Again(hooks[i]).pc = "sent"
      /\ \A s \in Seats : Again(hooks[i]).seen[s] = NoSeat
  BY AgainIs
<1>3. /\ hooks' \in Seq(Webhook)
      /\ Len(hooks') = Len(hooks) /\ DOMAIN hooks' = DOMAIN hooks
      /\ hooks'[i] = Again(hooks[i])
      /\ \A j \in DOMAIN hooks : j # i => hooks'[j] = hooks[j]
  BY <1>1, <1>2, HooksSet
<1> QED  BY <1>2, <1>3

LEMMA BalanceOfIs ==
    ASSUME RowTypes, NEW id
    PROVE  /\ BalanceOf(id) \in Int
           /\ IdInv => \A u \in Users : member[u].id # 0 /\ member[u].id = id =>
                          BalanceOf(id) = member[u].balance
<1>1. \A u \in Users : member[u].balance \in Int
  BY DEF RowTypes
<1>2. CASE Live(id)
  <2>1. UserOf(id) \in Users /\ member[UserOf(id)].id = id /\ id # 0
    BY <1>2 DEF Live, UserOf
  <2>2. IdInv => \A u \in Users : member[u].id = id => u = UserOf(id)
    BY <2>1 DEF IdInv
  <2> QED  BY <1>1, <1>2, <2>1, <2>2 DEF BalanceOf
<1>3. CASE ~ Live(id)
  BY <1>3 DEF BalanceOf, Live
<1> QED  BY <1>2, <1>3

LEMMA SaveIs ==
    ASSUME RowTypes, NEW i \in DOMAIN hooks, SaveRow(i)
    PROVE  /\ row' \in [plan : {"starter", "team"}, linked : BOOLEAN]
           /\ UNCHANGED <<billed, seat, member, joins, invite, txns, uses, lost>>
           /\ hooks' \in Seq(Webhook) /\ DOMAIN hooks' = DOMAIN hooks
           /\ \A j \in DOMAIN hooks : j # i => hooks'[j] = hooks[j]
           /\ hooks'[i].seen = hooks[i].seen
<1> DEFINE linked == IF hooks[i].kind = "paid" THEN row.linked ELSE hooks[i].kind = "updated"
           replaced == linked # row.linked
           paid == row'.plan = "team"
           w == [hooks[i] EXCEPT !.pc = "saved", !.replaced = replaced, !.team = paid]
<1>1. /\ row' = IF hooks[i].kind = "paid" THEN row
                ELSE [plan |-> IF linked THEN "team" ELSE "starter", linked |-> linked]
      /\ hooks' = [hooks EXCEPT ![i].pc = "saved", ![i].replaced = replaced, ![i].team = paid]
      /\ UNCHANGED <<billed, seat, member, joins, invite, txns, uses, lost>>
  BY DEF SaveRow
<1>2. row \in [plan : {"starter", "team"}, linked : BOOLEAN] /\ hooks[i] \in Webhook
  BY HookIs DEF RowTypes
<1>3. linked \in BOOLEAN /\ replaced \in BOOLEAN /\ paid \in BOOLEAN
  BY <1>2
<1>4. row' \in [plan : {"starter", "team"}, linked : BOOLEAN]
  BY <1>1, <1>2, <1>3
<1> HIDE DEF linked, replaced, paid
<1>5. w \in Webhook /\ w.seen = hooks[i].seen
  BY <1>2, <1>3 DEF Webhook
<1>6. hooks' = [hooks EXCEPT ![i] = w]
  BY <1>1
<1> HIDE DEF w
<1> QED  BY <1>1, <1>4, <1>5, <1>6, HooksSet

LEMMA ReadIs ==
    ASSUME RowTypes, NEW i \in DOMAIN hooks, ReadSeats(i)
    PROVE  /\ UNCHANGED <<billed, row, member, joins, invite, txns, uses, lost>>
           /\ seat' \in [Seats -> SeatRow]
           /\ IF hooks[i].replaced THEN \A s \in Seats : seat'[s] = NoSeat ELSE seat' = seat
           /\ hooks' \in Seq(Webhook) /\ DOMAIN hooks' = DOMAIN hooks
           /\ \A j \in DOMAIN hooks : j # i => hooks'[j] = hooks[j]
           /\ hooks'[i].seen = seat'
<1> DEFINE kept == IF hooks[i].replaced THEN [s \in Seats |-> NoSeat] ELSE seat
           items == IF hooks[i].kind = "paid" THEN billed.items ELSE hooks[i].items
           balance == [s \in Seats |-> BalanceOf(kept[s].to)]
           w == [hooks[i] EXCEPT !.pc = "read", !.replaced = FALSE, !.items = items,
                                 !.seen = kept, !.balance = balance]
<1>1. /\ seat' = kept
      /\ hooks' = [hooks EXCEPT ![i].pc = "read", ![i].replaced = FALSE, ![i].items = items,
                                ![i].seen = kept, ![i].balance = balance]
      /\ UNCHANGED <<billed, row, member, joins, invite, txns, uses, lost>>
  BY DEF ReadSeats
<1>2. NoSeat \in SeatRow
  BY TeamAssumption DEF NoSeat, SeatRow
<1>3. kept \in [Seats -> SeatRow]
  BY <1>2 DEF RowTypes
<1>4. balance \in [Seats -> Int]
  BY BalanceOfIs
<1>5. items \in Counts
  BY HookIs DEF RowTypes
<1>6. IF hooks[i].replaced THEN \A s \in Seats : kept[s] = NoSeat ELSE kept = seat
  OBVIOUS
<1> HIDE DEF items, balance, kept
<1>7. w \in Webhook /\ w.seen = kept
  BY <1>3, <1>4, <1>5, HookIs DEF Webhook
<1>8. hooks' = [hooks EXCEPT ![i] = w]
  BY <1>1
<1> HIDE DEF w
<1>9. /\ hooks' \in Seq(Webhook) /\ DOMAIN hooks' = DOMAIN hooks /\ hooks'[i] = w
      /\ \A j \in DOMAIN hooks : j # i => hooks'[j] = hooks[j]
  BY <1>7, <1>8, HooksSet
<1>10. IF hooks[i].replaced THEN \A s \in Seats : seat'[s] = NoSeat ELSE seat' = seat
  BY <1>1, <1>6
<1> QED  BY <1>1, <1>3, <1>7, <1>9, <1>10

SeatsOf(i) == Created(Loop(i))
PairsOf(i) == IF hooks[i].team THEN Assignments(SeatsOf(i)) ELSE {}

\* What the handler does to a balance.
Won(i, u, s) == <<u, s>> \in PairsOf(i) /\ ~Done(i, s)
Owed(i, u, c) == c \in Loop(i).credits /\ c.to = member[u].id /\ ~Done(i, c.seat)

LEMMA BalanceIs ==
    ASSUME RowTypes, IdInv, NEW i \in Reading, NEW u \in Users,
           SeatsOf(i) \in [Seats -> SeatRow], Matching(PairsOf(i), SeatsOf(i))
    PROVE  LET b == Balance(i, u, Loop(i).credits, SeatsOf(i), PairsOf(i)) IN
           /\ b \in Int
           /\ \/ \E s \in Seats : Won(i, u, s) /\ SeatsOf(i)[s].type \in Types
                                  /\ b = Limit[SeatsOf(i)[s].type]
              \/ /\ \A s \in Seats : ~ Won(i, u, s)
                 /\ \E c \in Loop(i).credits : /\ Owed(i, u, c) /\ c.amount \in Int
                                               /\ b = member[u].balance + c.amount
              \/ /\ \A s \in Seats : ~ Won(i, u, s)
                 /\ \A c \in Loop(i).credits : ~ Owed(i, u, c)
                 /\ b = member[u].balance
<1> DEFINE won == {s \in Seats : <<u, s>> \in PairsOf(i) /\ ~Done(i, s)}
           mine == {c \in Loop(i).credits : c.to = member[u].id /\ ~Done(i, c.seat)}
           b == Balance(i, u, Loop(i).credits, SeatsOf(i), PairsOf(i))
<1>1. b = CASE won # {} -> Limit[SeatsOf(i)[CHOOSE s \in won : TRUE].type]
            [] won = {} /\ mine # {} -> member[u].balance + (CHOOSE c \in mine : TRUE).amount
            [] won = {} /\ mine = {} -> member[u].balance
  BY DEF Balance
<1>2. member[u].balance \in Int
  BY DEF RowTypes
<1>3. \A c \in Loop(i).credits : c.amount \in Int
  <2>1. i \in DOMAIN hooks
    BY DEF Reading
  <2> QED  BY <2>1, LoopSeats
<1>4. \A s \in won : Won(i, u, s)
  BY DEF Won
<1>5. won = {} => \A s \in Seats : ~ Won(i, u, s)
  BY DEF Won
<1>6. \A c \in mine : c \in Loop(i).credits /\ Owed(i, u, c)
  BY DEF Owed
<1>7. mine = {} => \A c \in Loop(i).credits : ~ Owed(i, u, c)
  BY DEF Owed
<1>8. \A s \in won : s \in Seats /\ SeatsOf(i)[s].type \in Types /\ Limit[SeatsOf(i)[s].type] \in Int
  <2> SUFFICES ASSUME NEW s \in won
               PROVE  s \in Seats /\ SeatsOf(i)[s].type \in Types /\ Limit[SeatsOf(i)[s].type] \in Int
    OBVIOUS
  <2>1. s \in Seats /\ SeatsOf(i)[s].type # NoType /\ SeatsOf(i)[s] \in SeatRow
    BY DEF Matching
  <2>2. SeatsOf(i)[s].type \in Types
    BY <2>1 DEF SeatRow
  <2> QED  BY <2>1, <2>2, TeamAssumption
<1> HIDE DEF won, mine, b
<1>9. CASE won # {}
  <2>1. (CHOOSE s \in won : TRUE) \in won
    BY <1>9
  <2>2. b = Limit[SeatsOf(i)[CHOOSE s \in won : TRUE].type]
    BY <1>1, <1>9
  <2>3. PICK s \in won : b = Limit[SeatsOf(i)[s].type]
    BY <2>1, <2>2
  <2>4. b \in Int /\ \E r \in Seats : Won(i, u, r) /\ SeatsOf(i)[r].type \in Types
                                      /\ b = Limit[SeatsOf(i)[r].type]
    BY <1>4, <1>8, <2>3
  <2> QED  BY <2>4 DEF b
<1>10. CASE won = {} /\ mine # {}
  <2>1. (CHOOSE c \in mine : TRUE) \in mine
    BY <1>10
  <2>2. b = member[u].balance + (CHOOSE c \in mine : TRUE).amount
    BY <1>1, <1>10
  <2>3. PICK c \in mine : b = member[u].balance + c.amount
    BY <2>1, <2>2
  <2>4. b \in Int /\ \E d \in Loop(i).credits : /\ Owed(i, u, d) /\ d.amount \in Int
                                                /\ b = member[u].balance + d.amount
    BY <1>2, <1>3, <1>6, <2>3
  <2> QED  BY <1>5, <1>10, <2>4 DEF b
<1>11. CASE won = {} /\ mine = {}
  <2>1. b = member[u].balance
    BY <1>1, <1>11
  <2> QED  BY <1>2, <1>5, <1>7, <1>11, <2>1 DEF b
<1> QED  BY <1>9, <1>10, <1>11

LEMMA SetSeatsIs ==
    ASSUME RowTypes, IdInv, NEW i \in DOMAIN hooks, SetSeats(i)
    PROVE  /\ i \in Reading /\ hooks[i].pc = "read" /\ Fillings(Loop(i)) # {} /\ ~ Fails(i, Loop(i))
           /\ SeatsOf(i) \in [Seats -> SeatRow] /\ Matching(PairsOf(i), SeatsOf(i))
           /\ seat' \in [Seats -> SeatRow]
           /\ \A s \in Seats : seat'[s].type = SeatsOf(i)[s].type
           /\ \A u \in Users, s \in Seats : <<u, s>> \in PairsOf(i) => seat'[s].to = member[u].id
           /\ \A s \in Seats :
                 (\A u \in Users : <<u, s>> \notin PairsOf(i)) => seat'[s] = SeatsOf(i)[s]
           /\ member' = [u \in Users |->
                 [id |-> member[u].id,
                  balance |-> Balance(i, u, Loop(i).credits, SeatsOf(i), PairsOf(i))]]
           /\ txns' = {x \in txns : SeatsOf(i)[x[2]].type # NoType} \cup
                 (IF hooks[i].kind # "paid" THEN {}
                  ELSE {<<i, s>> : s \in {c.seat : c \in Loop(i).credits}
                                          \cup {p[2] : p \in PairsOf(i)}})
           /\ Answered(i) /\ UNCHANGED <<billed, row, joins, invite, uses>>
<1>1. /\ hooks[i].pc = "read" /\ Fillings(Loop(i)) # {} /\ ~ Fails(i, Loop(i))
      /\ seat' = Assigned(SeatsOf(i), PairsOf(i))
      /\ member' = [u \in Users |->
            [id |-> member[u].id,
             balance |-> Balance(i, u, Loop(i).credits, SeatsOf(i), PairsOf(i))]]
      /\ txns' = {x \in txns : SeatsOf(i)[x[2]].type # NoType} \cup
            (IF hooks[i].kind # "paid" THEN {}
             ELSE {<<i, s>> : s \in {c.seat : c \in Loop(i).credits}
                                     \cup {p[2] : p \in PairsOf(i)}})
      /\ Answered(i) /\ UNCHANGED <<billed, row, joins, invite, uses>>
  BY DEF SetSeats, SeatsOf, PairsOf
<1>2. i \in Reading
  BY <1>1 DEF Reading
<1>3. SeatsOf(i) \in [Seats -> SeatRow]
  BY <1>1, <1>2, CreatedIs DEF SeatsOf
<1>4. Matching(PairsOf(i), SeatsOf(i))
  BY <1>3, AssignmentsMatch, NoneMatch DEF PairsOf
<1>5. /\ seat' \in [Seats -> SeatRow]
      /\ \A s \in Seats : seat'[s].type = SeatsOf(i)[s].type
      /\ \A u \in Users, s \in Seats : <<u, s>> \in PairsOf(i) => seat'[s].to = member[u].id
      /\ \A s \in Seats :
            (\A u \in Users : <<u, s>> \notin PairsOf(i)) => seat'[s] = SeatsOf(i)[s]
  BY <1>1, <1>3, <1>4, AssignedIs
<1> QED  BY <1>1, <1>2, <1>3, <1>4, <1>5


LEMMA ResetIs ==
    ASSUME RowTypes, IdInv, NEW i \in DOMAIN hooks, Reset(i)
    PROVE  /\ hooks[i].pc = "sent" /\ hooks[i].kind = "cycle" /\ InTurn(i) /\ Answered(i)
           /\ UNCHANGED <<billed, row, seat, joins, invite, uses>>
           /\ txns \subseteq txns' /\ txns' \subseteq txns \cup {<<i, s>> : s \in Seats}
           /\ member' \in [Users -> [id : 0 .. MaxJoins, balance : Int]]
           /\ \A u \in Users :
                 /\ member'[u].id = member[u].id
                 /\ \/ member'[u] = member[u]
                    \/ \E s \in Seats :
                          /\ row.plan = "team" /\ member[u].id # 0 /\ seat[s].to = member[u].id
                          /\ seat[s].type \in Types
                          /\ member'[u].balance = Limit[seat[s].type]
                          /\ <<i, s>> \in txns' \ txns
<1> DEFINE reset == {s \in Seats : Live(seat[s].to)}
           Mine(u) == {s \in reset : seat[s].to = member[u].id}
<1>1. /\ hooks[i].pc = "sent" /\ hooks[i].kind = "cycle" /\ InTurn(i) /\ Answered(i)
      /\ UNCHANGED <<billed, row, seat, joins, invite, uses>>
  BY DEF Reset
<1>2. member \in [Users -> [id : 0 .. MaxJoins, balance : Int]] /\ seat \in [Seats -> SeatRow]
  BY DEF RowTypes
<1>3. \A s \in reset : s \in Seats /\ seat[s].to # 0 /\ seat[s].type \in Types
  <2>1. \A s \in reset : s \in Seats /\ seat[s].to # 0 /\ seat[s].type # NoType /\ seat[s] \in SeatRow
    BY <1>2 DEF Live, IdInv, Proper
  <2> QED  BY <2>1 DEF SeatRow
<1>4. CASE row.plan # "team"
  <2>1. member' = member /\ txns' = txns
    BY <1>4 DEF Reset
  <2> QED  BY <1>1, <1>2, <2>1
<1>5. CASE row.plan = "team"
  <2>1. /\ \A s \in reset : <<i, s>> \notin txns
        /\ member' = [u \in Users |->
              IF \E s \in reset : seat[s].to = member[u].id
              THEN [member[u] EXCEPT !.balance =
                      Limit[seat[CHOOSE s \in reset : seat[s].to = member[u].id].type]]
              ELSE member[u]]
        /\ txns' = txns \cup {<<i, s>> : s \in reset}
    BY <1>5 DEF Reset, NotYet
  <2> HIDE DEF reset
  <2>2. ASSUME NEW u \in Users, NEW r \in reset, seat[r].to = member[u].id
        PROVE  \E s \in reset : /\ seat[s].to = member[u].id
                                /\ member'[u] = [id |-> member[u].id, balance |-> Limit[seat[s].type]]
    <3> DEFINE s == CHOOSE s \in reset : seat[s].to = member[u].id
    <3>1. s \in reset /\ seat[s].to = member[u].id
      BY <2>2
    <3>2. member'[u] = [member[u] EXCEPT !.balance = Limit[seat[s].type]]
      BY <2>1, <2>2
    <3> HIDE DEF s
    <3>3. member'[u] = [id |-> member[u].id, balance |-> Limit[seat[s].type]]
      BY <1>2, <3>2
    <3> QED  BY <3>1, <3>3
  <2>3. ASSUME NEW u \in Users, \A r \in reset : seat[r].to # member[u].id
        PROVE  member'[u] = member[u]
    BY <2>1, <2>3
  <2>4. ASSUME NEW u \in Users
        PROVE  /\ member'[u] \in [id : 0 .. MaxJoins, balance : Int]
               /\ member'[u].id = member[u].id
               /\ \/ member'[u] = member[u]
                  \/ \E s \in Seats :
                        /\ row.plan = "team" /\ member[u].id # 0 /\ seat[s].to = member[u].id
                        /\ seat[s].type \in Types
                        /\ member'[u].balance = Limit[seat[s].type]
                        /\ <<i, s>> \in txns' \ txns
    <3>1. CASE \A r \in reset : seat[r].to # member[u].id
      BY <1>2, <2>3, <3>1
    <3>2. CASE \E r \in reset : seat[r].to = member[u].id
      <4>1. PICK s \in reset : /\ seat[s].to = member[u].id
                               /\ member'[u] = [id |-> member[u].id, balance |-> Limit[seat[s].type]]
        BY <2>2, <3>2
      <4>2. s \in Seats /\ seat[s].to # 0 /\ seat[s].type \in Types /\ Limit[seat[s].type] \in Int
        BY <1>3, TeamAssumption
      <4>3. <<i, s>> \in txns' \ txns
        BY <2>1
      <4>4. member[u].id \in 0 .. MaxJoins
        BY <1>2
      <4>5. member'[u].id = member[u].id /\ member'[u].balance = Limit[seat[s].type]
        BY <4>1
      <4> QED  BY <1>5, <4>1, <4>2, <4>3, <4>4, <4>5
    <3> QED  BY <3>1, <3>2
  <2>5. member' \in [Users -> [id : 0 .. MaxJoins, balance : Int]]
    BY <2>1, <2>4
  <2>6. txns \subseteq txns' /\ txns' \subseteq txns \cup {<<i, s>> : s \in Seats}
    BY <1>3, <2>1
  <2> QED  BY <1>1, <2>4, <2>5, <2>6
<1> QED  BY <1>4, <1>5

LEMMA AcceptIs ==
    ASSUME RowTypes, NEW u \in Users, Accept(u)
    PROVE  /\ OneByOne => Reading = {}
           /\ UNCHANGED <<billed, row, hooks, txns, uses, lost>>
           /\ invite' \in [Users -> [status : {"none", "pending", "accepted", "cancelled"}, open : BOOLEAN]]
           /\ \/ UNCHANGED <<seat, member, joins>>
              \/ \E s \in Seats :
                    /\ row.plan = "team" /\ member[u].id = 0
                    /\ joins' = joins + 1 /\ joins' \in 1 .. MaxJoins
                    /\ seat[s].type \in Types /\ seat[s].to = 0
                    /\ seat' \in [Seats -> SeatRow]
                    /\ seat'[s].to = joins' /\ seat'[s].type = seat[s].type
                    /\ \A r \in Seats \ {s} : seat'[r] = seat[r]
                    /\ member' \in [Users -> [id : 0 .. MaxJoins, balance : Int]]
                    /\ member'[u].id = joins' /\ member'[u].balance = Limit[seat[s].type]
                    /\ \A v \in Users \ {u} : member'[v] = member[v]
<1>1. /\ OneByOne => Reading = {}
      /\ UNCHANGED <<billed, row, hooks, txns, uses, lost>>
  BY DEF Accept
<1>2. /\ member \in [Users -> [id : 0 .. MaxJoins, balance : Int]] /\ seat \in [Seats -> SeatRow]
      /\ joins \in 1 .. MaxJoins
      /\ invite \in [Users -> [status : {"none", "pending", "accepted", "cancelled"}, open : BOOLEAN]]
  BY DEF RowTypes
<1>3. CASE row.plan = "team" /\ member[u].id = 0 /\ Vacant(seat) # {} /\ joins < MaxJoins
  <2>1. PICK s \in Vacant(seat) :
           /\ seat' = [seat EXCEPT ![s].to = joins + 1]
           /\ member' = [member EXCEPT ![u] = [id |-> joins + 1, balance |-> Limit[seat[s].type]]]
           /\ joins' = joins + 1
           /\ invite' = [invite EXCEPT ![u] = [status |-> "accepted", open |-> FALSE]]
    BY <1>3 DEF Accept
  <2>2. s \in Seats /\ seat[s] \in SeatRow /\ seat[s].type # NoType /\ seat[s].to = 0
    BY <1>2 DEF Vacant
  <2>3. seat[s].type \in Types /\ Limit[seat[s].type] \in Int
    BY <2>2, TeamAssumption DEF SeatRow
  <2>4. joins' \in 1 .. MaxJoins
    BY <1>2, <1>3, <2>1, TeamAssumption
  <2>5. [seat[s] EXCEPT !.to = joins'] = [type |-> seat[s].type, to |-> joins']
    BY <2>2 DEF SeatRow
  <2>6. [type |-> seat[s].type, to |-> joins'] \in SeatRow
    BY <2>3, <2>4 DEF SeatRow
  <2>7. /\ seat' \in [Seats -> SeatRow]
        /\ seat'[s] = [type |-> seat[s].type, to |-> joins']
        /\ \A r \in Seats \ {s} : seat'[r] = seat[r]
    BY <1>2, <2>1, <2>2, <2>5, <2>6
  <2>8. [id |-> joins', balance |-> Limit[seat[s].type]] \in [id : 0 .. MaxJoins, balance : Int]
    BY <2>3, <2>4
  <2>9. /\ member' \in [Users -> [id : 0 .. MaxJoins, balance : Int]]
        /\ member'[u] = [id |-> joins', balance |-> Limit[seat[s].type]]
        /\ \A v \in Users \ {u} : member'[v] = member[v]
    BY <1>2, <2>1, <2>8
  <2>10. invite' \in [Users -> [status : {"none", "pending", "accepted", "cancelled"}, open : BOOLEAN]]
    BY <1>2, <2>1
  <2>11. seat'[s].to = joins' /\ seat'[s].type = seat[s].type
    BY <2>7
  <2>12. member'[u].id = joins' /\ member'[u].balance = Limit[seat[s].type]
    BY <2>9
  <2> QED  BY <1>1, <1>3, <2>1, <2>2, <2>3, <2>4, <2>7, <2>9, <2>10, <2>11, <2>12
<1>4. CASE ~ (row.plan = "team" /\ member[u].id = 0 /\ Vacant(seat) # {} /\ joins < MaxJoins)
  <2>1. invite' = [invite EXCEPT ![u].open = FALSE] /\ UNCHANGED <<seat, member, joins>>
    BY <1>4 DEF Accept
  <2>2. invite' \in [Users -> [status : {"none", "pending", "accepted", "cancelled"}, open : BOOLEAN]]
    BY <1>2, <2>1
  <2> QED  BY <1>1, <2>1, <2>2
<1> QED  BY <1>3, <1>4


-----------------------------------------------------------------------------
(* Types and identities, whatever overlaps *)

TypeInv == RowTypes /\ IdInv

LEMMA TypeInvInit == TeamInit => TypeInv
<1> SUFFICES ASSUME TeamInit PROVE TypeInv
  OBVIOUS
<1> USE TeamAssumption
<1>1. <<>> \in Counts
  BY NoCounts
<1>2. NoSeat \in SeatRow /\ seat \in [Seats -> SeatRow] /\ \A s \in Seats : seat[s] = NoSeat
  BY DEF TeamInit, NoSeat, SeatRow
<1>3. hooks \in Seq(Webhook) /\ DOMAIN hooks = {}
  <2>1. hooks = <<>>
    BY DEF TeamInit
  <2> QED  BY <2>1, EmptySeq
<1>4. /\ member \in [Users -> [id : 0 .. MaxJoins, balance : Int]]
      /\ \A u \in Users : member[u].id = IF u = Owner THEN 1 ELSE 0
  BY DEF TeamInit
<1>5. /\ billed \in [items : Counts, changes : Nat]
      /\ row \in [plan : {"starter", "team"}, linked : BOOLEAN]
      /\ joins = 1 /\ joins \in 1 .. MaxJoins
      /\ invite \in [Users -> [status : {"none", "pending", "accepted", "cancelled"}, open : BOOLEAN]]
      /\ txns = {} /\ uses \in Nat /\ lost \in Nat
  BY <1>1 DEF TeamInit
<1>6. RowTypes
  BY <1>2, <1>3, <1>4, <1>5 DEF RowTypes
<1>7. Proper(seat)
  <2>1. \A s \in Seats : seat[s].to = 0
    BY <1>2 DEF NoSeat
  <2>2. joins = 1
    BY <1>5
  <2> QED  BY <2>1, <2>2 DEF Proper
<1>8. \A u \in Users : member[u].id <= joins
  <2>1. joins = 1
    BY <1>5
  <2>2. \A u \in Users : member[u].id = 0 \/ member[u].id = 1
    BY <1>4
  <2> QED  BY <2>1, <2>2
<1>9. \A u, v \in Users : u # v /\ member[u].id # 0 => member[u].id # member[v].id
  BY <1>4
<1>10. IdInv
  BY <1>3, <1>7, <1>8, <1>9 DEF IdInv
<1> QED  BY <1>6, <1>10 DEF TypeInv

\* Webhooks that change while memberships do not.
LEMMA HooksStep ==
    ASSUME TypeInv, UNCHANGED joins, hooks' \in Seq(Webhook), DOMAIN hooks \subseteq DOMAIN hooks',
           \A j \in DOMAIN hooks' :
              \/ j \in DOMAIN hooks /\ hooks'[j] = hooks[j]
              \/ \A s \in Seats : hooks'[j].seen[s] = NoSeat
              \/ \A s, r \in Seats : /\ hooks'[j].seen[s].to <= joins
                                     /\ hooks'[j].seen[s].type = NoType => hooks'[j].seen[s].to = 0
                                     /\ s # r /\ hooks'[j].seen[s].to # 0 =>
                                           hooks'[j].seen[s].to # hooks'[j].seen[r].to
    PROVE  (\A j \in DOMAIN hooks : Proper(hooks[j].seen))'
<1> SUFFICES ASSUME NEW j \in DOMAIN hooks' PROVE Proper(hooks[j].seen)'
  OBVIOUS
<1>1. joins \in Nat
  BY TeamAssumption DEF TypeInv, RowTypes
<1>2. CASE j \in DOMAIN hooks /\ hooks'[j] = hooks[j]
  BY <1>2 DEF TypeInv, IdInv, Proper
<1>3. CASE \A s \in Seats : hooks'[j].seen[s] = NoSeat
  BY <1>1, <1>3 DEF Proper, NoSeat
<1> QED  BY <1>2, <1>3 DEF Proper

LEMMA TypeInvSave ==
    ASSUME TypeInv, NEW i \in DOMAIN hooks, SaveRow(i) PROVE TypeInv'
<1>1. /\ row' \in [plan : {"starter", "team"}, linked : BOOLEAN]
      /\ UNCHANGED <<billed, seat, member, joins, invite, txns, uses, lost>>
      /\ hooks' \in Seq(Webhook) /\ DOMAIN hooks' = DOMAIN hooks
      /\ \A j \in DOMAIN hooks : hooks'[j].seen = hooks[j].seen
  BY SaveIs DEF TypeInv
<1>2. RowTypes'
  BY <1>1 DEF TypeInv, RowTypes
<1>3. \A j \in DOMAIN hooks : Proper(hooks[j].seen)'
  BY <1>1 DEF TypeInv, IdInv, Proper
<1>4. Proper(seat)'
  BY <1>1 DEF TypeInv, IdInv, Proper
<1>5. IdInv'
  BY <1>1, <1>3, <1>4 DEF TypeInv, IdInv
<1> QED  BY <1>2, <1>5 DEF TypeInv

LEMMA TypeInvRead ==
    ASSUME TypeInv, NEW i \in DOMAIN hooks, ReadSeats(i) PROVE TypeInv'
<1>1. /\ seat' \in [Seats -> SeatRow] /\ hooks' \in Seq(Webhook)
      /\ DOMAIN hooks' = DOMAIN hooks
      /\ UNCHANGED <<billed, row, member, joins, invite, txns, uses, lost>>
  BY ReadIs DEF TypeInv
<1>2. RowTypes'
  BY <1>1 DEF TypeInv, RowTypes
<1>3. Proper(seat)'
  <2>1. seat' = seat \/ \A s \in Seats : seat'[s] = NoSeat
    BY ReadIs DEF TypeInv
  <2>2. joins \in Nat
    BY TeamAssumption DEF TypeInv, RowTypes
  <2>3. CASE seat' = seat
    BY <1>1, <2>3 DEF TypeInv, IdInv, Proper
  <2>4. CASE \A s \in Seats : seat'[s] = NoSeat
    BY <1>1, <2>2, <2>4 DEF Proper, NoSeat
  <2> QED  BY <2>1, <2>3, <2>4
<1>4. (\A j \in DOMAIN hooks : Proper(hooks[j].seen))'
  <2>1. hooks'[i].seen = seat' /\ \A j \in DOMAIN hooks : j # i => hooks'[j] = hooks[j]
    BY ReadIs DEF TypeInv
  <2> QED  BY <1>1, <1>3, <2>1, HooksStep DEF Proper
<1>5. IdInv'
  BY <1>1, <1>3, <1>4 DEF TypeInv, IdInv
<1> QED  BY <1>2, <1>5 DEF TypeInv

LEMMA TypeInvSet ==
    ASSUME TypeInv, NEW i \in DOMAIN hooks, SetSeats(i) PROVE TypeInv'
<1>1. /\ i \in Reading /\ SeatsOf(i) \in [Seats -> SeatRow] /\ Matching(PairsOf(i), SeatsOf(i))
      /\ seat' \in [Seats -> SeatRow]
      /\ \A s \in Seats : seat'[s].type = SeatsOf(i)[s].type
      /\ \A u \in Users, s \in Seats : <<u, s>> \in PairsOf(i) => seat'[s].to = member[u].id
      /\ \A s \in Seats :
            (\A u \in Users : <<u, s>> \notin PairsOf(i)) => seat'[s] = SeatsOf(i)[s]
      /\ Answered(i) /\ UNCHANGED <<billed, row, joins, invite, uses>>
  BY SetSeatsIs DEF TypeInv
<1>2. /\ \A s \in Seats : SeatsOf(i)[s].to \in {0, seat[s].to}
      /\ \A s \in Seats : SeatsOf(i)[s].type = NoType => SeatsOf(i)[s].to = 0
  <2>1. Fillings(Loop(i)) # {}
    BY SetSeatsIs DEF TypeInv
  <2> QED  BY <1>1, <2>1, CreatedIs DEF TypeInv, SeatsOf
<1>3. /\ hooks' \in Seq(Webhook) /\ DOMAIN hooks' = DOMAIN hooks /\ lost' \in Nat
      /\ \A j \in DOMAIN hooks : j # i => hooks'[j] = hooks[j]
      /\ \A s \in Seats : hooks'[i].seen[s] = NoSeat
  BY <1>1, AnsweredIs DEF TypeInv, RowTypes
<1>4. /\ member' \in [Users -> [id : 0 .. MaxJoins, balance : Int]]
      /\ \A u \in Users : member'[u].id = member[u].id
  <2>1. member' = [u \in Users |->
           [id |-> member[u].id,
            balance |-> Balance(i, u, Loop(i).credits, SeatsOf(i), PairsOf(i))]]
    BY SetSeatsIs DEF TypeInv
  <2>2. \A u \in Users : Balance(i, u, Loop(i).credits, SeatsOf(i), PairsOf(i)) \in Int
    BY <1>1, BalanceIs DEF TypeInv
  <2>3. \A u \in Users : member[u].id \in 0 .. MaxJoins
    BY DEF TypeInv, RowTypes
  <2> QED  BY <2>1, <2>2, <2>3
<1>5. txns' \subseteq (DOMAIN hooks) \X Seats
  <2>1. txns' \subseteq txns \cup {<<i, s>> : s \in {c.seat : c \in Loop(i).credits}
                                                \cup {p[2] : p \in PairsOf(i)}}
    BY SetSeatsIs DEF TypeInv
  <2>2. \A c \in Loop(i).credits : c.seat \in Seats
    BY LoopSeats DEF TypeInv
  <2>3. \A p \in PairsOf(i) : p[2] \in Seats
    BY <1>1 DEF Matching
  <2> QED  BY <2>1, <2>2, <2>3 DEF TypeInv, RowTypes
<1>6. RowTypes'
  BY <1>1, <1>3, <1>4, <1>5 DEF TypeInv, RowTypes
<1>7. \A u \in Users : member[u].id \in Nat /\ member[u].id <= joins
  BY TeamAssumption DEF TypeInv, RowTypes, IdInv
<1>8. Proper(seat)'
  <2>1. ASSUME NEW s \in Seats
        PROVE  seat'[s].to <= joins /\ (seat'[s].type = NoType => seat'[s].to = 0)
    <3>1. CASE \E u \in Users : <<u, s>> \in PairsOf(i)
      BY <1>1, <1>7, <3>1 DEF Matching
    <3>2. CASE \A u \in Users : <<u, s>> \notin PairsOf(i)
      <4>1. seat'[s] = SeatsOf(i)[s] /\ seat[s].to <= joins /\ 0 <= joins
        BY <1>1, <3>2, TeamAssumption DEF TypeInv, RowTypes, IdInv, Proper
      <4> QED  BY <1>2, <4>1
    <3> QED  BY <3>1, <3>2
  <2>2. ASSUME NEW s \in Seats, NEW r \in Seats, s # r, seat'[s].to # 0
        PROVE  seat'[s].to # seat'[r].to
    <3>1. CASE \E u \in Users : <<u, s>> \in PairsOf(i)
      <4>1. PICK u \in Users : <<u, s>> \in PairsOf(i)
        BY <3>1
      <4>2. seat'[s].to = member[u].id /\ member[u].id # 0
        BY <1>1, <4>1 DEF Matching
      <4>3. CASE \E v \in Users : <<v, r>> \in PairsOf(i)
        <5>1. PICK v \in Users : <<v, r>> \in PairsOf(i)
          BY <4>3
        <5>2. seat'[r].to = member[v].id /\ u # v
          BY <1>1, <2>2, <4>1, <5>1 DEF Matching
        <5> QED  BY <4>2, <5>2 DEF TypeInv, IdInv
      <4>4. CASE \A v \in Users : <<v, r>> \notin PairsOf(i)
        BY <1>1, <4>1, <4>2, <4>4 DEF Matching
      <4> QED  BY <4>3, <4>4
    <3>2. CASE \A u \in Users : <<u, s>> \notin PairsOf(i)
      <4>1. seat'[s].to = seat[s].to /\ SeatsOf(i)[s].to = seat[s].to
        BY <1>1, <1>2, <2>2, <3>2
      <4>2. CASE \E v \in Users : <<v, r>> \in PairsOf(i)
        BY <1>1, <2>2, <3>2, <4>1, <4>2 DEF Matching
      <4>3. CASE \A v \in Users : <<v, r>> \notin PairsOf(i)
        <5>1. seat'[r].to \in {0, seat[r].to}
          BY <1>1, <1>2, <4>3
        <5> QED  BY <2>2, <4>1, <5>1 DEF TypeInv, IdInv, Proper
      <4> QED  BY <4>2, <4>3
    <3> QED  BY <3>1, <3>2
  <2> QED  BY <1>1, <2>1, <2>2 DEF Proper
<1>9. (\A j \in DOMAIN hooks : Proper(hooks[j].seen))'
  BY <1>1, <1>3, HooksStep
<1>10. IdInv'
  BY <1>1, <1>4, <1>8, <1>9 DEF TypeInv, IdInv
<1> QED  BY <1>6, <1>10 DEF TypeInv

LEMMA TypeInvReset ==
    ASSUME TypeInv, NEW i \in DOMAIN hooks, Reset(i) PROVE TypeInv'
<1>1. /\ Answered(i) /\ UNCHANGED <<billed, row, seat, joins, invite, uses>>
      /\ txns' \subseteq txns \cup {<<i, s>> : s \in Seats}
      /\ member' \in [Users -> [id : 0 .. MaxJoins, balance : Int]]
      /\ \A u \in Users : member'[u].id = member[u].id
  BY ResetIs DEF TypeInv
<1>2. /\ hooks' \in Seq(Webhook) /\ DOMAIN hooks' = DOMAIN hooks /\ lost' \in Nat
      /\ \A j \in DOMAIN hooks : j # i => hooks'[j] = hooks[j]
      /\ \A s \in Seats : hooks'[i].seen[s] = NoSeat
  BY <1>1, AnsweredIs DEF TypeInv, RowTypes
<1>3. RowTypes'
  BY <1>1, <1>2 DEF TypeInv, RowTypes
<1>4. (\A j \in DOMAIN hooks : Proper(hooks[j].seen))'
  BY <1>1, <1>2, HooksStep
<1>5. IdInv'
  BY <1>1, <1>4 DEF TypeInv, IdInv, Proper
<1> QED  BY <1>3, <1>5 DEF TypeInv

LEMMA TypeInvAccept ==
    ASSUME TypeInv, NEW u \in Users, Accept(u) PROVE TypeInv'
<1>1. /\ UNCHANGED <<billed, row, hooks, txns, uses, lost>>
      /\ invite' \in [Users -> [status : {"none", "pending", "accepted", "cancelled"}, open : BOOLEAN]]
  BY AcceptIs DEF TypeInv
<1>2. CASE UNCHANGED <<seat, member, joins>>
  BY <1>1, <1>2 DEF TypeInv, RowTypes, IdInv, Proper
<1>3. CASE \E s \in Seats :
         /\ member[u].id = 0
         /\ joins' = joins + 1 /\ joins' \in 1 .. MaxJoins
         /\ seat[s].type \in Types /\ seat[s].to = 0
         /\ seat' \in [Seats -> SeatRow]
         /\ seat'[s].to = joins' /\ seat'[s].type = seat[s].type
         /\ \A r \in Seats \ {s} : seat'[r] = seat[r]
         /\ member' \in [Users -> [id : 0 .. MaxJoins, balance : Int]]
         /\ member'[u].id = joins' /\ member'[u].balance = Limit[seat[s].type]
         /\ \A v \in Users \ {u} : member'[v] = member[v]
  <2>1. PICK s \in Seats :
           /\ joins' = joins + 1 /\ joins' \in 1 .. MaxJoins
           /\ seat[s].type \in Types
           /\ seat' \in [Seats -> SeatRow]
           /\ seat'[s].to = joins' /\ seat'[s].type = seat[s].type
           /\ \A r \in Seats \ {s} : seat'[r] = seat[r]
           /\ member' \in [Users -> [id : 0 .. MaxJoins, balance : Int]]
           /\ member'[u].id = joins'
           /\ \A v \in Users \ {u} : member'[v] = member[v]
    BY <1>3
  <2>2. RowTypes'
    BY <1>1, <2>1 DEF TypeInv, RowTypes
  <2>3. joins \in Nat /\ joins < joins'
    BY <2>1, TeamAssumption DEF TypeInv, RowTypes
  <2>4. \A v \in Users : member[v].id \in Nat /\ member[v].id <= joins
    BY TeamAssumption DEF TypeInv, RowTypes, IdInv
  <2>5. \A r \in Seats : seat[r].to \in Nat /\ seat[r].to <= joins
    BY TeamAssumption DEF TypeInv, RowTypes, SeatRow, IdInv, Proper
  <2>6. \A v \in Users : member'[v].id \in Nat /\ member'[v].id <= joins'
    BY <2>1, <2>3, <2>4
  <2>7. \A v, w \in Users : v # w /\ member'[v].id # 0 => member'[v].id # member'[w].id
    <3>1. \A v \in Users \ {u} : member'[v].id = member[v].id /\ member[v].id # joins'
      BY <2>1, <2>3, <2>4
    <3> QED  BY <2>1, <3>1 DEF TypeInv, IdInv
  <2>8. Proper(seat)'
    <3>1. \A r \in Seats \ {s} : seat'[r] = seat[r] /\ seat[r].to <= joins' /\ seat[r].to # joins'
      BY <2>1, <2>3, <2>5
    <3>2. seat'[s].type # NoType /\ seat'[s].to = joins' /\ joins' <= joins'
      BY <2>1, <2>3, TeamAssumption
    <3> QED  BY <3>1, <3>2 DEF TypeInv, IdInv, Proper
  <2>9. \A j \in DOMAIN hooks : Proper(hooks[j].seen)'
    <3> SUFFICES ASSUME NEW j \in DOMAIN hooks PROVE Proper(hooks[j].seen)'
      OBVIOUS
    <3>1. Proper(hooks[j].seen)
      BY DEF TypeInv, IdInv
    <3>2. \A r \in Seats : hooks[j].seen[r].to \in Nat
      BY SeenIs DEF TypeInv
    <3>3. \A r \in Seats : hooks[j].seen[r].to <= joins'
      BY <2>1, <2>3, <3>1, <3>2 DEF Proper
    <3> QED  BY <1>1, <3>1, <3>3 DEF Proper
  <2>10. IdInv'
    BY <1>1, <2>6, <2>7, <2>8, <2>9 DEF IdInv
  <2> QED  BY <2>2, <2>10 DEF TypeInv
<1> QED  BY <1>2, <1>3, AcceptIs DEF TypeInv


\* Stripe and its webhooks change, nothing else does.
LEMMA TypeInvHooks ==
    ASSUME TypeInv, UNCHANGED <<row, seat, member, joins, invite, txns, uses, lost>>,
           billed' \in [items : Counts, changes : Nat],
           hooks' \in Seq(Webhook), DOMAIN hooks \subseteq DOMAIN hooks',
           \A j \in DOMAIN hooks' : \/ j \in DOMAIN hooks /\ hooks'[j] = hooks[j]
                                    \/ \A s \in Seats : hooks'[j].seen[s] = NoSeat
    PROVE  TypeInv'
<1>1. txns' \subseteq (DOMAIN hooks') \X Seats
  BY DEF TypeInv, RowTypes
<1>2. RowTypes'
  BY <1>1 DEF TypeInv, RowTypes
<1>3. (\A j \in DOMAIN hooks : Proper(hooks[j].seen))'
  BY HooksStep
<1>4. Proper(seat)'
  BY DEF TypeInv, IdInv, Proper
<1>5. IdInv'
  BY <1>3, <1>4 DEF TypeInv, IdInv
<1> QED  BY <1>2, <1>5 DEF TypeInv

\* Stripe and its webhooks do not change.
LEMMA TypeInvRows ==
    ASSUME TypeInv, UNCHANGED <<billed, row, joins, hooks, txns, lost>>,
           seat' \in [Seats -> SeatRow],
           \A s \in Seats : seat'[s] = seat[s] \/ seat'[s].to = 0,
           member' \in [Users -> [id : 0 .. MaxJoins, balance : Int]],
           \A u \in Users : member'[u].id \in {0, member[u].id},
           invite' \in [Users -> [status : {"none", "pending", "accepted", "cancelled"}, open : BOOLEAN]],
           uses' \in Nat
    PROVE  TypeInv'
<1>1. RowTypes'
  BY DEF TypeInv, RowTypes
<1>2. joins \in Nat
  BY TeamAssumption DEF TypeInv, RowTypes
<1>3. Proper(seat)'
  BY <1>2 DEF TypeInv, IdInv, Proper
<1>4. \A j \in DOMAIN hooks : Proper(hooks[j].seen)'
  BY DEF TypeInv, IdInv, Proper
<1>5. \A u \in Users : member'[u].id <= joins
  BY <1>2 DEF TypeInv, IdInv
<1>6. \A u, v \in Users : u # v /\ member'[u].id # 0 => member'[u].id # member'[v].id
  BY DEF TypeInv, IdInv
<1>7. IdInv'
  BY <1>3, <1>4, <1>5, <1>6 DEF IdInv
<1> QED  BY <1>1, <1>7 DEF TypeInv

LEMMA TypeInvStep == TypeInv /\ [TeamNext]_team => TypeInv'
<1> SUFFICES ASSUME TypeInv, [TeamNext]_team PROVE TypeInv'
  OBVIOUS
<1>1. ASSUME NEW items \in Items, ChangeItems(items) PROVE TypeInv'
  <2>1. /\ items \in Counts /\ hooks' \in Seq(Webhook)
        /\ DOMAIN hooks = 1 .. Len(hooks) /\ DOMAIN hooks' = 1 .. Len(hooks') /\ Len(hooks) \in Nat
        /\ \A j \in 1 .. Len(hooks) : hooks'[j] = hooks[j]
    BY <1>1, ChangeIs DEF TypeInv
  <2>2. \/ /\ Len(hooks') = Len(hooks) + 1
           /\ \A s \in Seats : hooks'[Len(hooks) + 1].seen[s] = NoSeat
        \/ /\ Len(hooks') = Len(hooks) + 2
           /\ \A s \in Seats : hooks'[Len(hooks) + 1].seen[s] = NoSeat
           /\ \A s \in Seats : hooks'[Len(hooks) + 2].seen[s] = NoSeat
    <3>1. /\ \A s \in Seats : Hook("deleted", <<>>, "sent").seen[s] = NoSeat
          /\ \A s \in Seats : Hook("updated", items, "sent").seen[s] = NoSeat
          /\ \A s \in Seats : Hook("paid", <<>>, "sent").seen[s] = NoSeat
      BY DEF Hook
    <3>2. \/ /\ Len(hooks') = Len(hooks) + 1
             /\ hooks'[Len(hooks) + 1] = Hook("deleted", <<>>, "sent")
          \/ /\ Len(hooks') = Len(hooks) + 2
             /\ hooks'[Len(hooks) + 1] = Hook("updated", items, "sent")
             /\ hooks'[Len(hooks) + 2] = Hook("paid", <<>>, "sent")
      BY <1>1, ChangeIs DEF TypeInv
    <3> QED  BY <3>1, <3>2
  <2>3. PICK n, m : /\ n \in Nat /\ DOMAIN hooks = 1 .. n /\ DOMAIN hooks' = 1 .. m
                    /\ \/ m = n + 1 /\ \A s \in Seats : hooks'[n + 1].seen[s] = NoSeat
                       \/ /\ m = n + 2
                          /\ \A s \in Seats : hooks'[n + 1].seen[s] = NoSeat
                          /\ \A s \in Seats : hooks'[n + 2].seen[s] = NoSeat
    BY <2>1, <2>2, Zenon
  <2>4. /\ DOMAIN hooks \subseteq DOMAIN hooks'
        /\ \A j \in DOMAIN hooks' : j \in DOMAIN hooks \/ \A s \in Seats : hooks'[j].seen[s] = NoSeat
    <3>1. \A j \in 1 .. m : j \in 1 .. n \/ j = n + 1 \/ (j = n + 2 /\ m = n + 2)
      BY <2>3
    <3>2. 1 .. n \subseteq 1 .. m
      BY <2>3
    <3> QED  BY <2>3, <3>1, <3>2
  <2>5. /\ UNCHANGED <<row, seat, member, joins, invite, txns, uses, lost>>
        /\ billed' = [items |-> items, changes |-> billed.changes + 1]
    BY <1>1 DEF ChangeItems
  <2>6. billed' \in [items : Counts, changes : Nat]
    BY <2>1, <2>5 DEF TypeInv, RowTypes
  <2>7. \A j \in DOMAIN hooks : hooks'[j] = hooks[j]
    BY <2>1, Zenon
  <2> QED  BY <2>1, <2>4, <2>5, <2>6, <2>7, TypeInvHooks, ZenonT(60)
<1>2. ASSUME Cycle PROVE TypeInv'
  <2>1. /\ hooks' \in Seq(Webhook)
        /\ DOMAIN hooks = 1 .. Len(hooks) /\ DOMAIN hooks' = 1 .. Len(hooks') /\ Len(hooks) \in Nat
        /\ \A j \in 1 .. Len(hooks) : hooks'[j] = hooks[j]
        /\ Len(hooks') = Len(hooks) + 1
        /\ hooks'[Len(hooks) + 1] = Hook("cycle", <<>>, "sent")
    BY <1>2, CycleIs DEF TypeInv
  <2>2. \A s \in Seats : hooks'[Len(hooks) + 1].seen[s] = NoSeat
    BY <2>1 DEF Hook
  <2>3. PICK n \in Nat : /\ DOMAIN hooks = 1 .. n /\ DOMAIN hooks' = 1 .. n + 1
                         /\ \A s \in Seats : hooks'[n + 1].seen[s] = NoSeat
    <3>1. DOMAIN hooks' = 1 .. Len(hooks) + 1
      BY <2>1
    <3> QED  BY <2>1, <2>2, <3>1, Zenon
  <2>4. /\ DOMAIN hooks \subseteq DOMAIN hooks'
        /\ \A j \in DOMAIN hooks' : j \in DOMAIN hooks \/ \A s \in Seats : hooks'[j].seen[s] = NoSeat
    <3>1. \A j \in 1 .. n + 1 : j \in 1 .. n \/ j = n + 1
      OBVIOUS
    <3>2. 1 .. n \subseteq 1 .. n + 1
      OBVIOUS
    <3> QED  BY <2>3, <3>1, <3>2
  <2>5. /\ UNCHANGED <<row, seat, member, joins, invite, txns, uses, lost>>
        /\ billed' = [billed EXCEPT !.changes = @ + 1]
    BY <1>2 DEF Cycle
  <2>6. billed' \in [items : Counts, changes : Nat]
    <3>1. billed \in [items : Counts, changes : Nat]
      BY DEF TypeInv, RowTypes
    <3> QED  BY <2>5, <3>1
  <2>7. \A j \in DOMAIN hooks : hooks'[j] = hooks[j]
    BY <2>1, Zenon
  <2> QED  BY <2>1, <2>4, <2>5, <2>6, <2>7, TypeInvHooks, ZenonT(60)
<1>3. ASSUME NEW i \in DOMAIN hooks, Retry(i) PROVE TypeInv'
  <2>1. /\ hooks' \in Seq(Webhook) /\ DOMAIN hooks' = DOMAIN hooks
        /\ \A j \in DOMAIN hooks : j # i => hooks'[j] = hooks[j]
        /\ \A s \in Seats : hooks'[i].seen[s] = NoSeat
    BY <1>3, RetryIs DEF TypeInv
  <2>2. UNCHANGED <<billed, row, seat, member, joins, invite, txns, uses, lost>>
    BY <1>3 DEF Retry
  <2>3. billed \in [items : Counts, changes : Nat]
    BY DEF TypeInv, RowTypes
  <2> QED  BY <2>1, <2>2, <2>3, TypeInvHooks
<1>4. /\ seat \in [Seats -> SeatRow] /\ MaxJoins \in Nat
      /\ member \in [Users -> [id : 0 .. MaxJoins, balance : Int]]
      /\ invite \in [Users -> [status : {"none", "pending", "accepted", "cancelled"}, open : BOOLEAN]]
      /\ uses \in Nat
  BY TeamAssumption DEF TypeInv, RowTypes
<1>5. ASSUME NEW u \in Users, Invite(u) \/ CancelInvite(u) \/ OpenInvite(u) PROVE TypeInv'
  <2>1. UNCHANGED <<billed, row, seat, member, joins, hooks, txns, uses, lost>>
    BY <1>5 DEF Invite, CancelInvite, OpenInvite
  <2>2. invite' \in [Users -> [status : {"none", "pending", "accepted", "cancelled"}, open : BOOLEAN]]
    <3>1. CASE Invite(u)
      BY <1>4, <3>1 DEF Invite
    <3>2. CASE CancelInvite(u)
      BY <1>4, <3>2 DEF CancelInvite
    <3>3. CASE OpenInvite(u)
      BY <1>4, <3>3 DEF OpenInvite
    <3> QED  BY <1>5, <3>1, <3>2, <3>3
  <2> QED  BY <1>4, <2>1, <2>2, TypeInvRows
<1>6. ASSUME NEW u \in Users, Use(u) PROVE TypeInv'
  <2>1. /\ UNCHANGED <<billed, row, seat, joins, invite, hooks, txns, lost>>
        /\ uses' = uses + 1 /\ member' = [member EXCEPT ![u].balance = @ - 1]
    BY <1>6 DEF Use
  <2>2. /\ member' \in [Users -> [id : 0 .. MaxJoins, balance : Int]]
        /\ \A v \in Users : member'[v].id = member[v].id
    BY <1>4, <2>1
  <2> QED  BY <1>4, <2>1, <2>2, TypeInvRows
<1>7. ASSUME NEW u \in Users, Leave(u) PROVE TypeInv'
  <2>1. /\ UNCHANGED <<billed, row, seat, joins, invite, hooks, txns, uses, lost>>
        /\ member' = [member EXCEPT ![u] = [id |-> 0, balance |-> 0]]
    BY <1>7 DEF Leave
  <2>2. /\ member' \in [Users -> [id : 0 .. MaxJoins, balance : Int]]
        /\ \A v \in Users : member'[v].id \in {0, member[v].id}
    BY <1>4, <2>1
  <2> QED  BY <1>4, <2>1, <2>2, TypeInvRows
<1>8. ASSUME NEW s \in Seats, Unassign(s) PROVE TypeInv'
  <2>1. /\ UNCHANGED <<billed, row, member, joins, invite, hooks, txns, uses, lost>>
        /\ seat' = [seat EXCEPT ![s].to = 0]
    BY <1>8 DEF Unassign
  <2>2. /\ seat' \in [Seats -> SeatRow]
        /\ \A r \in Seats : seat'[r] = seat[r] \/ seat'[r].to = 0
    BY <1>4, <2>1 DEF SeatRow
  <2> QED  BY <1>4, <2>1, <2>2, TypeInvRows
<1>9. CASE UNCHANGED team
  BY <1>4, <1>9, TypeInvRows DEF team
<1> QED  BY <1>1, <1>2, <1>3, <1>5, <1>6, <1>7, <1>8, <1>9,
            TypeInvSave, TypeInvRead, TypeInvSet, TypeInvReset, TypeInvAccept DEF TeamNext

LEMMA TeamTypesHold == TypeInv => TeamTypes
<1> SUFFICES ASSUME TypeInv PROVE TeamTypes
  OBVIOUS
<1>1. joins \in 0 .. MaxJoins
  <2>1. joins \in 1 .. MaxJoins
    BY DEF TypeInv, RowTypes
  <2> QED  BY <2>1
<1>2. \A s, r \in Seats : seat[s].to # 0 /\ s # r => seat[s].to # seat[r].to
  BY DEF TypeInv, IdInv, Proper
<1> QED  BY <1>1, <1>2 DEF TypeInv, RowTypes, TeamTypes, SeatRow

\* Webhooks may overlap, repeat and meet joins and leaves in any order: SubscriptionSeat's
\* one-to-one field never has to refuse a row, no membership gets a second seat, and ids
\* of memberships and transactions name rows that exist (workspaces/models.py,
\* payments/webhooks.py: auto_assign_team_seats gives each free seat to one member).
THEOREM TeamKeepsTypes == TeamSpec => []TeamTypes
<1>1. TeamInit => TypeInv
  BY TypeInvInit
<1>2. TypeInv /\ [TeamNext]_team => TypeInv'
  BY TypeInvStep
<1>3. TypeInv => TeamTypes
  BY TeamTypesHold
<1> QED  BY <1>1, <1>2, <1>3, PTL DEF TeamSpec

\* The inductive invariant behind it: seats name memberships that were given out, no two
\* of them the same one, in the rows and in what a webhook handler has read of them
\* (payments/webhooks.py, workspaces/models.py).
THEOREM TeamKeepsTypeInv == TeamSpec => []TypeInv
BY TypeInvInit, TypeInvStep, PTL DEF TeamSpec

-----------------------------------------------------------------------------
(* What becomes of a seat and of its member when the handler writes *)

LEMMA SeatAfter ==
    ASSUME TypeInv, NEW i \in DOMAIN hooks, SetSeats(i), NEW s \in Seats
    PROVE  /\ Loop(i).seat[s].to # 0 => seat'[s] = Loop(i).seat[s]
           /\ Dropped(hooks[i], Loop(i), s) => seat'[s] = NoSeat
           /\ \A u \in Users :
                 /\ member[u].id # 0 /\ seat'[s].to = member[u].id
                 /\ \A r \in Seats : <<u, r>> \notin PairsOf(i)
                 => seat[s].to = member[u].id /\ Loop(i).seat[s].to = member[u].id
<1>1. /\ i \in Reading /\ Fillings(Loop(i)) # {} /\ Matching(PairsOf(i), SeatsOf(i))
      /\ \A u \in Users, r \in Seats : <<u, r>> \in PairsOf(i) => seat'[r].to = member[u].id
      /\ \A r \in Seats :
            (\A u \in Users : <<u, r>> \notin PairsOf(i)) => seat'[r] = SeatsOf(i)[r]
  BY SetSeatsIs DEF TypeInv
<1>2. /\ \/ SeatsOf(i)[s] = Loop(i).seat[s]
         \/ /\ Loop(i).seat[s].type = NoType /\ hooks[i].seen[s].type = NoType
            /\ SeatsOf(i)[s].type \in Types /\ SeatsOf(i)[s].to = 0
      /\ SeatsOf(i)[s].to \in {0, seat[s].to}
  BY <1>1, CreatedIs DEF TypeInv, SeatsOf
<1>3. Stays(Loop(i), s) \/ Retyped(hooks[i], Loop(i), s) \/ Dropped(hooks[i], Loop(i), s)
  BY LoopSeats DEF TypeInv
<1>4. Loop(i).seat[s].to # 0 => Loop(i).seat[s].type # NoType
  BY <1>3, TeamAssumption DEF Stays, Retyped, Dropped, NoSeat, TypeInv, IdInv, Proper
<1>5. ASSUME Loop(i).seat[s].to # 0 PROVE seat'[s] = Loop(i).seat[s]
  <2>1. SeatsOf(i)[s] = Loop(i).seat[s]
    BY <1>2, <1>4, <1>5
  <2>2. \A u \in Users : <<u, s>> \notin PairsOf(i)
    BY <1>1, <1>5, <2>1 DEF Matching
  <2> QED  BY <1>1, <2>1, <2>2
<1>6. ASSUME Dropped(hooks[i], Loop(i), s) PROVE seat'[s] = NoSeat
  <2>1. Loop(i).seat[s] = NoSeat /\ hooks[i].seen[s].type # NoType
    BY <1>6 DEF Dropped, Rows
  <2>2. SeatsOf(i)[s] = NoSeat
    BY <1>2, <2>1
  <2>3. \A u \in Users : <<u, s>> \notin PairsOf(i)
    BY <1>1, <2>2 DEF Matching, NoSeat
  <2> QED  BY <1>1, <2>2, <2>3
<1>7. ASSUME NEW u \in Users, member[u].id # 0, seat'[s].to = member[u].id,
             \A r \in Seats : <<u, r>> \notin PairsOf(i)
      PROVE  seat[s].to = member[u].id /\ Loop(i).seat[s].to = member[u].id
  <2>1. \A v \in Users : <<v, s>> \notin PairsOf(i)
    <3> SUFFICES ASSUME NEW v \in Users, <<v, s>> \in PairsOf(i) PROVE FALSE
      OBVIOUS
    <3>1. seat'[s].to = member[v].id /\ v # u
      BY <1>1, <1>7
    <3> QED  BY <1>7, <3>1 DEF TypeInv, IdInv
  <2>2. SeatsOf(i)[s].to = member[u].id
    BY <1>1, <1>7, <2>1
  <2> QED  BY <1>2, <1>7, <2>2
<1> QED  BY <1>5, <1>6, <1>7

\* An add_balance of the loop goes to the member of the seat, which changes.
LEMMA OwedIs ==
    ASSUME TypeInv, NEW i \in DOMAIN hooks, Fresh(i), SetSeats(i), NEW u \in Users,
           NEW c \in Loop(i).credits, Owed(i, u, c), NEW s, s = c.seat
    PROVE  /\ s \in Seats /\ member[u].id # 0 /\ seat[s].to = member[u].id /\ seat[s].type \in Types
           /\ hooks[i].balance[s] \in Int /\ member[u].balance <= hooks[i].balance[s]
           /\ \/ /\ seat'[s].type \in Types \ {seat[s].type} /\ seat'[s].to = member[u].id
                 /\ c.amount = ToAdd(hooks[i].balance[s], Limit[seat[s].type], Limit[seat'[s].type])
              \/ /\ seat'[s] = NoSeat
                 /\ c.amount = - hooks[i].balance[s]
<1> DEFINE e == hooks[i]
           acc == Loop(i)
<1>1. i \in Reading
  BY SetSeatsIs DEF TypeInv
<1>2. /\ s \in Seats /\ c \in CreditsOf(acc, s)
      /\ Stays(acc, s) \/ Retyped(e, acc, s) \/ Dropped(e, acc, s)
      /\ c.to \in 1 .. MaxJoins
  BY LoopSeats DEF TypeInv, CreditsOf
<1>3. c.to = member[u].id /\ member[u].id # 0
  BY <1>2 DEF Owed
<1>4. Live(member[u].id)
  BY <1>3 DEF Live
<1>5. e.balance[s] \in Int /\ s \in Rows(e.seen) => e.seen[s].type \in Types
  BY <1>1, <1>2, HookIs, SeenIs DEF TypeInv
<1>6. e.balance[s] \in Int
  BY <1>1, <1>2, HookIs DEF TypeInv
<1>7. ASSUME e.seen[s].to = member[u].id
      PROVE  /\ seat[s].to = member[u].id /\ seat[s].type = e.seen[s].type
             /\ member[u].balance <= e.balance[s]
  BY <1>1, <1>2, <1>3, <1>4, <1>7 DEF Fresh
<1>8. CASE Retyped(e, acc, s)
  <2> DEFINE amount == ToAdd(e.balance[s], Limit[e.seen[s].type], Limit[acc.seat[s].type])
  <2>1. /\ s \in Rows(e.seen) /\ acc.seat[s].type \in Types \ {e.seen[s].type}
        /\ acc.seat[s].to = seat[s].to /\ c \in Credit(e, s, amount)
    BY <1>2, <1>8 DEF Retyped
  <2>2. e.seen[s].type \in Types /\ amount \in Int
    <3>1. e.seen[s].type \in Types
      BY <1>2, <2>1, SeenIs DEF TypeInv
    <3>2. Limit[e.seen[s].type] \in Int /\ Limit[acc.seat[s].type] \in Int
      BY <2>1, <3>1, TeamAssumption
    <3> QED  BY <1>6, <3>1, <3>2 DEF ToAdd
  <2> HIDE DEF amount
  <2>3. c.to = e.seen[s].to /\ c.amount = amount
    BY <1>2, <2>1, <2>2, CreditIs DEF TypeInv
  <2>4. /\ seat[s].to = member[u].id /\ seat[s].type = e.seen[s].type
        /\ member[u].balance <= e.balance[s]
    BY <1>3, <1>7, <2>3
  <2>5. seat'[s] = acc.seat[s]
    BY <1>2, <1>3, <2>1, <2>4, SeatAfter
  <2>6. c.amount = ToAdd(e.balance[s], Limit[seat[s].type], Limit[seat'[s].type])
    BY <2>3, <2>4, <2>5 DEF amount
  <2> QED  BY <1>2, <1>3, <1>6, <2>1, <2>2, <2>4, <2>5, <2>6
<1>9. CASE Dropped(e, acc, s)
  <2> DEFINE amount == - e.balance[s]
  <2>1. s \in Rows(e.seen) /\ c \in Credit(e, s, amount)
    BY <1>2, <1>9 DEF Dropped
  <2>2. e.seen[s].type \in Types /\ amount \in Int
    BY <1>2, <1>6, <2>1, SeenIs DEF TypeInv
  <2> HIDE DEF amount
  <2>3. c.to = e.seen[s].to /\ c.amount = amount
    BY <1>2, <2>1, <2>2, CreditIs DEF TypeInv
  <2>4. /\ seat[s].to = member[u].id /\ seat[s].type = e.seen[s].type
        /\ member[u].balance <= e.balance[s]
    BY <1>3, <1>7, <2>3
  <2>5. seat'[s] = NoSeat
    BY <1>2, <1>9, SeatAfter
  <2> QED  BY <1>2, <1>3, <1>6, <2>2, <2>3, <2>4, <2>5 DEF amount
<1> QED  BY <1>2, <1>8, <1>9 DEF Stays

\* A member to whom the loop owes nothing keeps the seat, with its type.
LEMMA UnowedIs ==
    ASSUME TypeInv, NEW i \in DOMAIN hooks, Fresh(i), SetSeats(i), NEW u \in Users,
           member[u].id # 0, \A s \in Seats : ~ Done(i, s),
           \A c \in Loop(i).credits : ~ Owed(i, u, c),
           NEW s \in Seats, seat[s].to = member[u].id
    PROVE  seat'[s] = seat[s]
<1> DEFINE e == hooks[i]
           acc == Loop(i)
<1>1. i \in Reading
  BY SetSeatsIs DEF TypeInv
<1>2. Live(member[u].id)
  BY DEF Live
<1>3. e.seen[s].to = member[u].id
  BY <1>1, <1>2 DEF Fresh
<1>4. ASSUME NEW amount
      PROVE  Credit(e, s, amount) # {} /\ \A c \in Credit(e, s, amount) : c.to = member[u].id
  <2>1. Credit(e, s, amount) = {[seat |-> s, to |-> member[u].id, amount |-> amount]}
    BY <1>3 DEF Credit
  <2> QED  BY <2>1
<1>5. CreditsOf(acc, s) = {}
  <2> SUFFICES ASSUME NEW c \in CreditsOf(acc, s) PROVE FALSE
    OBVIOUS
  <2>1. c \in acc.credits /\ c.seat = s
    BY DEF CreditsOf
  <2>2. Stays(acc, s) \/ Retyped(e, acc, s) \/ Dropped(e, acc, s)
    BY LoopSeats DEF TypeInv
  <2>3. c.to = member[u].id
    BY <1>4, <2>2 DEF Stays, Retyped, Dropped
  <2> QED  BY <2>1, <2>3 DEF Owed
<1>6. Stays(acc, s)
  <2>1. Stays(acc, s) \/ Retyped(e, acc, s) \/ Dropped(e, acc, s)
    BY LoopSeats DEF TypeInv
  <2> QED  BY <1>4, <1>5, <2>1 DEF Retyped, Dropped
<1> QED  BY <1>6, SeatAfter DEF Stays


\* The balance that a handler leaves.
LEMMA BalanceAfter ==
    ASSUME TypeInv, NEW i \in DOMAIN hooks, Fresh(i), SetSeats(i), \A s \in Seats : ~ Done(i, s),
           NEW u \in Users, member[u].id # 0, Within(u)
    PROVE  IF \E s \in Seats : seat'[s].to = member[u].id
           THEN \A s \in Seats : seat'[s].to = member[u].id =>
                   member'[u].balance <= Limit[seat'[s].type]
           ELSE member'[u].balance <= 0
<1>1. /\ i \in Reading /\ SeatsOf(i) \in [Seats -> SeatRow] /\ Matching(PairsOf(i), SeatsOf(i))
      /\ \A s \in Seats : seat'[s].type = SeatsOf(i)[s].type
      /\ \A v \in Users, s \in Seats : <<v, s>> \in PairsOf(i) => seat'[s].to = member[v].id
      /\ member'[u].balance = Balance(i, u, Loop(i).credits, SeatsOf(i), PairsOf(i))
  BY SetSeatsIs DEF TypeInv
<1>2. \A s \in Seats : ~ Done(i, s)
  OBVIOUS
<1>3. /\ member'[u].balance \in Int
      /\ \/ \E s \in Seats : Won(i, u, s) /\ SeatsOf(i)[s].type \in Types
                             /\ member'[u].balance = Limit[SeatsOf(i)[s].type]
         \/ /\ \A s \in Seats : ~ Won(i, u, s)
            /\ \E c \in Loop(i).credits : /\ Owed(i, u, c) /\ c.amount \in Int
                                          /\ member'[u].balance = member[u].balance + c.amount
         \/ /\ \A s \in Seats : ~ Won(i, u, s)
            /\ \A c \in Loop(i).credits : ~ Owed(i, u, c)
            /\ member'[u].balance = member[u].balance
  BY <1>1, BalanceIs DEF TypeInv
<1>4. \A s, r \in Seats : s # r /\ seat'[s].to # 0 => seat'[s].to # seat'[r].to
  BY TypeInvSet DEF TypeInv, IdInv, Proper
<1>5. member[u].balance \in Int /\ \A t \in Types : Limit[t] \in Int
  BY TeamAssumption DEF TypeInv, RowTypes
<1>6. CASE \E s \in Seats : Won(i, u, s) /\ SeatsOf(i)[s].type \in Types
                           /\ member'[u].balance = Limit[SeatsOf(i)[s].type]
  <2>1. PICK s \in Seats : Won(i, u, s) /\ SeatsOf(i)[s].type \in Types
                           /\ member'[u].balance = Limit[SeatsOf(i)[s].type]
    BY <1>6
  <2>2. seat'[s].to = member[u].id /\ member'[u].balance <= Limit[seat'[s].type]
    BY <1>1, <1>3, <2>1 DEF Won
  <2> QED  BY <1>4, <2>2
<1>7. ASSUME \A s \in Seats : ~ Won(i, u, s)
      PROVE  \A s \in Seats : seat'[s].to = member[u].id =>
                seat[s].to = member[u].id /\ Loop(i).seat[s].to = member[u].id
  <2>1. \A s \in Seats : <<u, s>> \notin PairsOf(i)
    BY <1>2, <1>7 DEF Won
  <2> QED  BY <2>1, SeatAfter
<1>8. CASE /\ \A s \in Seats : ~ Won(i, u, s)
           /\ \E c \in Loop(i).credits : /\ Owed(i, u, c) /\ c.amount \in Int
                                         /\ member'[u].balance = member[u].balance + c.amount
  <2>1. PICK c \in Loop(i).credits : /\ Owed(i, u, c) /\ c.amount \in Int
                                     /\ member'[u].balance = member[u].balance + c.amount
    BY <1>8
  <2> DEFINE s == c.seat
             b == hooks[i].balance[s]
  <2>2. /\ s \in Seats /\ seat[s].to = member[u].id /\ seat[s].type \in Types
        /\ b \in Int /\ member[u].balance <= b
        /\ \/ /\ seat'[s].type \in Types \ {seat[s].type} /\ seat'[s].to = member[u].id
              /\ c.amount = ToAdd(b, Limit[seat[s].type], Limit[seat'[s].type])
           \/ /\ seat'[s] = NoSeat
              /\ c.amount = - b
    BY <2>1, OwedIs
  <2> HIDE DEF s, b
  <2>3. CASE /\ seat'[s].type \in Types \ {seat[s].type} /\ seat'[s].to = member[u].id
             /\ c.amount = ToAdd(b, Limit[seat[s].type], Limit[seat'[s].type])
    <3> DEFINE old == Limit[seat[s].type]
               new == Limit[seat'[s].type]
    <3>1. old \in Int /\ new \in Int
      BY <1>5, <2>2, <2>3
    <3>2. member'[u].balance = member[u].balance + ToAdd(b, old, new)
      BY <2>1, <2>3
    <3> HIDE DEF old, new
    <3>3. member'[u].balance <= new
      BY <1>5, <2>2, <3>1, <3>2 DEF ToAdd
    <3>4. \A r \in Seats : seat'[r].to = member[u].id => r = s
      BY <1>4, <2>2, <2>3
    <3> QED  BY <2>2, <2>3, <3>3, <3>4 DEF new
  <2>4. CASE seat'[s] = NoSeat /\ c.amount = - b
    <3>1. member'[u].balance <= 0
      BY <1>5, <2>1, <2>2, <2>4
    <3>2. ASSUME NEW r \in Seats, seat'[r].to = member[u].id PROVE FALSE
      <4>1. seat[r].to = member[u].id
        BY <1>7, <1>8, <3>2
      <4>2. r = s
        BY <2>2, <4>1 DEF TypeInv, IdInv, Proper
      <4> QED  BY <2>4, <3>2, <4>2 DEF NoSeat
    <3> QED  BY <3>1, <3>2
  <2> QED  BY <2>2, <2>3, <2>4
<1>9. CASE /\ \A s \in Seats : ~ Won(i, u, s)
           /\ \A c \in Loop(i).credits : ~ Owed(i, u, c)
           /\ member'[u].balance = member[u].balance
  <2>1. \A s \in Seats : seat[s].to = member[u].id => seat'[s] = seat[s]
    BY <1>2, <1>9, UnowedIs
  <2>2. \A s \in Seats : seat'[s].to = member[u].id => seat'[s] = seat[s]
    BY <1>7, <1>9, <2>1
  <2>3. IF \E s \in Seats : seat[s].to = member[u].id
        THEN \A s \in Seats : seat[s].to = member[u].id => member[u].balance <= Limit[seat[s].type]
        ELSE member[u].balance <= 0
    BY DEF Within, Seated
  <2> QED  BY <1>9, <2>1, <2>2, <2>3
<1> QED  BY <1>3, <1>6, <1>8, <1>9


\* What else begins an excess: seats that are deleted under their members.
LEMMA WithinStep ==
    ASSUME TypeInv, [TeamNext]_team, NEW u \in Users, Within(u), ~Within(u)'
    PROVE  \E i \in DOMAIN hooks : \/ SetSeats(i) /\ (~Fresh(i) \/ \E s \in Seats : Done(i, s))
                                   \/ ReadSeats(i) /\ hooks[i].replaced
<1>1. /\ member \in [Users -> [id : 0 .. MaxJoins, balance : Int]]
      /\ seat \in [Seats -> SeatRow] /\ MaxJoins \in Nat
      /\ member[u].balance \in Int /\ \A t \in Types : Limit[t] \in Int
      /\ \A s \in Seats : seat[s].to # 0 => seat[s].type \in Types
  <2>1. \A s \in Seats : seat[s].type \in Types \cup {NoType}
    BY DEF TypeInv, RowTypes, SeatRow
  <2> QED  BY <2>1, TeamAssumption DEF TypeInv, RowTypes, IdInv, Proper
<1>2. /\ member'[u].id # 0
      /\ IF \E s \in Seats : seat'[s].to = member'[u].id
         THEN \E s \in Seats : /\ seat'[s].to = member'[u].id
                               /\ ~(member'[u].balance <= Limit[seat'[s].type])
         ELSE ~(member'[u].balance <= 0)
  BY DEF Within, Seated
<1>3. member[u].id # 0 =>
         IF \E s \in Seats : seat[s].to = member[u].id
         THEN \A s \in Seats : seat[s].to = member[u].id => member[u].balance <= Limit[seat[s].type]
         ELSE member[u].balance <= 0
  BY DEF Within, Seated
<1>4. ~(member'[u] = member[u] /\ \A s \in Seats : seat'[s] = seat[s])
  BY <1>2, <1>3
<1>5. ASSUME NEW i \in DOMAIN hooks, SetSeats(i)
      PROVE  ~Fresh(i) \/ \E s \in Seats : Done(i, s)
  <2> SUFFICES ASSUME Fresh(i), \A s \in Seats : ~Done(i, s) PROVE FALSE
    OBVIOUS
  <2>1. member'[u].id = member[u].id
    BY <1>5, SetSeatsIs DEF TypeInv
  <2>2. member[u].id # 0
    BY <1>2, <2>1
  <2>3. IF \E s \in Seats : seat'[s].to = member[u].id
        THEN \A s \in Seats : seat'[s].to = member[u].id =>
                member'[u].balance <= Limit[seat'[s].type]
        ELSE member'[u].balance <= 0
    BY <1>5, <2>2, BalanceAfter
  <2> QED  BY <1>2, <2>1, <2>3
<1>6. ASSUME NEW i \in DOMAIN hooks, ReadSeats(i) PROVE hooks[i].replaced
  <2>1. UNCHANGED member /\ (~hooks[i].replaced => seat' = seat)
    BY <1>6, ReadIs DEF TypeInv
  <2> QED  BY <1>4, <2>1
<1>7. ASSUME NEW i \in DOMAIN hooks, Reset(i) PROVE FALSE
  <2>1. /\ seat' = seat /\ member'[u].id = member[u].id
        /\ \/ member'[u] = member[u]
           \/ \E s \in Seats : /\ member[u].id # 0 /\ seat[s].to = member[u].id
                               /\ seat[s].type \in Types
                               /\ member'[u].balance = Limit[seat[s].type]
    BY <1>7, ResetIs DEF TypeInv
  <2>2. PICK s \in Seats : /\ member[u].id # 0 /\ seat[s].to = member[u].id
                           /\ seat[s].type \in Types
                           /\ member'[u].balance = Limit[seat[s].type]
    BY <1>4, <2>1
  <2>3. \A r \in Seats : seat'[r].to = member'[u].id => r = s
    BY <2>1, <2>2 DEF TypeInv, IdInv, Proper
  <2>4. member'[u].balance <= Limit[seat[s].type]
    BY <1>1, <2>2
  <2> QED  BY <1>2, <2>1, <2>2, <2>3, <2>4
<1>8. ASSUME NEW v \in Users, Accept(v) PROVE FALSE
  <2>1. PICK s \in Seats :
           /\ member[v].id = 0 /\ joins' = joins + 1 /\ joins' \in 1 .. MaxJoins
           /\ seat[s].type \in Types /\ seat[s].to = 0
           /\ seat'[s].to = joins' /\ seat'[s].type = seat[s].type
           /\ \A r \in Seats \ {s} : seat'[r] = seat[r]
           /\ member'[v].id = joins' /\ member'[v].balance = Limit[seat[s].type]
           /\ \A w \in Users \ {v} : member'[w] = member[w]
    BY <1>4, <1>8, AcceptIs DEF TypeInv
  <2>2. joins \in Nat /\ joins' # 0
    BY <2>1, TeamAssumption DEF TypeInv, RowTypes
  <2>3. /\ \A r \in Seats : seat[r].to # joins'
        /\ \A w \in Users : member[w].id # joins'
    <3>1. /\ \A r \in Seats : seat[r].to <= joins /\ seat[r].to \in Nat
          /\ \A w \in Users : member[w].id <= joins /\ member[w].id \in Nat
      BY <1>1, TeamAssumption DEF TypeInv, IdInv, Proper, SeatRow
    <3> QED  BY <2>1, <2>2, <3>1
  <2>4. CASE u = v
    <3>1. \A r \in Seats : seat'[r].to = member'[u].id => r = s
      BY <2>1, <2>3, <2>4
    <3>2. member'[u].balance <= Limit[seat'[s].type] /\ seat'[s].to = member'[u].id
      BY <1>1, <2>1, <2>4
    <3> QED  BY <1>2, <3>1, <3>2
  <2>5. CASE u # v
    <3>1. member'[u] = member[u]
      BY <2>1, <2>5
    <3>2. \A r \in Seats : seat'[r].to = member[u].id => r # s
      BY <2>1, <2>3
    <3>3. \A r \in Seats : seat[r].to = member[u].id => r # s
      BY <1>2, <2>1, <3>1
    <3> QED  BY <1>2, <1>3, <2>1, <3>1, <3>2, <3>3
  <2> QED  BY <2>4, <2>5
<1>9. ASSUME NEW v \in Users, Use(v) PROVE FALSE
  <2>1. seat' = seat /\ member' = [member EXCEPT ![v].balance = @ - 1]
    BY <1>9 DEF Use
  <2>2. member'[u].id = member[u].id /\ member'[u].balance \in Int
        /\ member'[u].balance <= member[u].balance
    BY <1>1, <2>1
  <2>3. \A s \in Seats : seat[s].to = member[u].id => Limit[seat[s].type] \in Int
    BY <1>1, <1>2, <2>2
  <2> QED  BY <1>1, <1>2, <1>3, <2>1, <2>2, <2>3
<1>10. ASSUME NEW v \in Users, Leave(v) PROVE FALSE
  <2>1. seat' = seat /\ member' = [member EXCEPT ![v] = [id |-> 0, balance |-> 0]]
    BY <1>10 DEF Leave
  <2>2. member'[u] = member[u] \/ member'[u].id = 0
    BY <1>1, <2>1
  <2> QED  BY <1>2, <1>4, <2>1, <2>2
<1>11. ASSUME NEW s \in Seats, Unassign(s) PROVE FALSE
  <2>1. member' = member /\ seat' = [seat EXCEPT ![s].to = 0] /\ ~Live(seat[s].to) /\ seat[s].to # 0
    BY <1>11 DEF Unassign
  <2>2. seat[s].to # member[u].id
    BY <1>2, <2>1 DEF Live
  <2>3. \A r \in Seats : seat'[r].to = member[u].id <=> seat[r].to = member[u].id
    BY <1>1, <1>2, <2>1, <2>2
  <2>4. \A r \in Seats : seat'[r].type = seat[r].type
    BY <1>1, <2>1
  <2> QED  BY <1>2, <1>3, <2>1, <2>3, <2>4
<1>12. ASSUME UNCHANGED <<member, seat>> PROVE FALSE
  BY <1>4, <1>12
<1> QED  BY <1>5, <1>6, <1>7, <1>8, <1>9, <1>10, <1>11, <1>12
         DEF TeamNext, team, ChangeItems, Cycle, SaveRow, Retry, Invite, CancelInvite, OpenInvite

\* A member has too many credits, for the seat or for having none, from one kind of step
\* only: a handler of webhooks writes although what it has read has changed, or it has paid
\* for a seat before the webhook was sent again, or it deletes the seats of a subscription
\* that was replaced.  No other step begins it, whatever the order of upgrades, downgrades,
\* joins, leaves, months and cancellations (payments/webhooks.py,
\* set_subscription_seats_from_stripe_sub).
THEOREM CreditsNeverExceedSeats ==
    TeamSpec =>
        [][\A u \in Users : Within(u) /\ ~Within(u)' =>
              \E i \in DOMAIN hooks : \/ SetSeats(i) /\ (~Fresh(i) \/ \E s \in Seats : Done(i, s))
                                      \/ ReadSeats(i) /\ hooks[i].replaced]_team
<1>1. TypeInv /\ [TeamNext]_team =>
        [\A u \in Users : Within(u) /\ ~Within(u)' =>
              \E i \in DOMAIN hooks : \/ SetSeats(i) /\ (~Fresh(i) \/ \E s \in Seats : Done(i, s))
                                      \/ ReadSeats(i) /\ hooks[i].replaced]_team
  BY WithinStep
<1> QED  BY <1>1, TeamKeepsTypeInv, PTL DEF TeamSpec


-----------------------------------------------------------------------------
(* Why a balance rises *)

\* The causes of CreditsHaveCause, or a handler that writes on what is no longer so.
Cause(u) ==
    \/ SeatOf(member[u].id)' # SeatOf(member[u].id)
    \/ \E i \in DOMAIN hooks, s \in Seats :
          seat[s].to = member[u].id /\ <<i, s>> \in txns' \ txns /\ hooks[i].kind = "cycle"
    \/ \E i \in DOMAIN hooks : SetSeats(i) /\ ~Fresh(i)

LEMMA CauseSet ==
    ASSUME TypeInv, NEW i \in DOMAIN hooks, Fresh(i), SetSeats(i), NEW u \in Users,
           member'[u].balance > member[u].balance
    PROVE  SeatOf(member[u].id)' # SeatOf(member[u].id)
<1>1. /\ i \in Reading /\ SeatsOf(i) \in [Seats -> SeatRow] /\ Matching(PairsOf(i), SeatsOf(i))
      /\ \A s \in Seats : seat'[s].type = SeatsOf(i)[s].type
      /\ \A v \in Users, s \in Seats : <<v, s>> \in PairsOf(i) => seat'[s].to = member[v].id
      /\ member'[u].balance = Balance(i, u, Loop(i).credits, SeatsOf(i), PairsOf(i))
      /\ member'[u].id = member[u].id
  BY SetSeatsIs DEF TypeInv
<1>2. member'[u].balance # member[u].balance
  BY DEF TypeInv, RowTypes
<1>3. \/ \E s \in Seats : Won(i, u, s)
      \/ \E c \in Loop(i).credits : Owed(i, u, c)
  BY <1>1, <1>2, BalanceIs DEF TypeInv
<1> DEFINE id == member[u].id
           before == {<<s, seat[s].type>> : s \in {r \in Seats : id # 0 /\ seat[r].to = id}}
           after == {<<s, seat'[s].type>> : s \in {r \in Seats : id # 0 /\ seat'[r].to = id}}
<1>4. SeatOf(member[u].id) = before /\ SeatOf(member[u].id)' = after
  BY <1>1 DEF SeatOf
<1>5. \A s \in Seats : \A t : <<s, t>> \in before <=> id # 0 /\ seat[s].to = id /\ t = seat[s].type
  OBVIOUS
<1>6. \A s \in Seats : \A t : <<s, t>> \in after <=> id # 0 /\ seat'[s].to = id /\ t = seat'[s].type
  OBVIOUS
<1> HIDE DEF before, after
<1>7. CASE \E s \in Seats : Won(i, u, s)
  <2>1. PICK s \in Seats : <<u, s>> \in PairsOf(i)
    BY <1>7 DEF Won
  <2>2. id # 0 /\ seat'[s].to = id
    BY <1>1, <2>1 DEF Matching
  <2>3. SeatsOf(i)[s].to = 0 /\ SeatsOf(i)[s].type # NoType
    BY <1>1, <2>1 DEF Matching
  <2>4. seat[s].to # id
    <3> SUFFICES ASSUME seat[s].to = id PROVE FALSE
      OBVIOUS
    <3>1. Live(id)
      BY <2>2 DEF Live
    <3>2. hooks[i].seen[s].to = id
      BY <1>1, <2>2, <3>1 DEF Fresh
    <3>3. Loop(i).seat[s].to # 0 => seat'[s] = Loop(i).seat[s]
      BY SeatAfter
    <3>4. Stays(Loop(i), s) \/ Retyped(hooks[i], Loop(i), s) \/ Dropped(hooks[i], Loop(i), s)
      BY LoopSeats DEF TypeInv
    <3>5. \/ SeatsOf(i)[s] = Loop(i).seat[s]
          \/ Loop(i).seat[s].type = NoType /\ hooks[i].seen[s].type = NoType
      <4>1. Fillings(Loop(i)) # {}
        BY SetSeatsIs DEF TypeInv
      <4> QED  BY <1>1, <4>1, CreatedIs DEF TypeInv, SeatsOf
    <3>6. hooks[i].seen[s].type # NoType
      BY <1>1, <2>2, <3>2 DEF TypeInv, IdInv, Proper, Reading
    <3>7. SeatsOf(i)[s] = Loop(i).seat[s]
      BY <3>5, <3>6
    <3>8. CASE Dropped(hooks[i], Loop(i), s)
      BY <2>3, <3>7, <3>8 DEF Dropped, NoSeat
    <3>9. CASE ~ Dropped(hooks[i], Loop(i), s)
      BY <2>2, <2>3, <3>4, <3>7, <3>9 DEF Stays, Retyped
    <3> QED  BY <3>8, <3>9
  <2>5. <<s, seat'[s].type>> \in after /\ <<s, seat'[s].type>> \notin before
    BY <1>5, <1>6, <2>2, <2>4
  <2> QED  BY <1>4, <2>5
<1>8. CASE \E c \in Loop(i).credits : Owed(i, u, c)
  <2>1. PICK c \in Loop(i).credits : Owed(i, u, c)
    BY <1>8
  <2> DEFINE s == c.seat
  <2>2. /\ s \in Seats /\ id # 0 /\ seat[s].to = id
        /\ (seat'[s].type # seat[s].type \/ seat'[s].to # id)
    <3>1. /\ s \in Seats /\ id # 0 /\ seat[s].to = id
          /\ \/ seat'[s].type \in Types \ {seat[s].type}
             \/ seat'[s] = NoSeat
      BY <2>1, OwedIs
    <3> QED  BY <3>1 DEF NoSeat
  <2> HIDE DEF s
  <2>3. <<s, seat[s].type>> \in before /\ <<s, seat[s].type>> \notin after
    BY <1>5, <1>6, <2>2
  <2> QED  BY <1>4, <2>3
<1> QED  BY <1>3, <1>7, <1>8

LEMMA CauseStep ==
    ASSUME TypeInv, [TeamNext]_team, NEW u \in Users,
           member'[u].id = member[u].id, member'[u].balance > member[u].balance
    PROVE  Cause(u)
<1>1. /\ member \in [Users -> [id : 0 .. MaxJoins, balance : Int]] /\ MaxJoins \in Nat
      /\ member[u].balance \in Int
  BY TeamAssumption DEF TypeInv, RowTypes
<1>2. member'[u] # member[u]
  BY <1>1
<1>3. ASSUME NEW i \in DOMAIN hooks, SetSeats(i) PROVE Cause(u)
  BY <1>3, CauseSet DEF Cause
<1>4. ASSUME NEW i \in DOMAIN hooks, Reset(i) PROVE Cause(u)
  <2>1. \E s \in Seats : seat[s].to = member[u].id /\ <<i, s>> \in txns' \ txns
    BY <1>2, <1>4, ResetIs DEF TypeInv
  <2>2. hooks[i].kind = "cycle"
    BY <1>4 DEF Reset
  <2> QED  BY <2>1, <2>2 DEF Cause
<1>5. ASSUME NEW v \in Users, Accept(v) PROVE FALSE
  <2>1. \/ UNCHANGED member
        \/ /\ member[v].id = 0 /\ member'[v].id \in 1 .. MaxJoins
           /\ \A w \in Users \ {v} : member'[w] = member[w]
    BY <1>5, AcceptIs DEF TypeInv
  <2> QED  BY <1>2, <2>1
<1>6. ASSUME NEW v \in Users, Use(v) PROVE FALSE
  <2>1. member' = [member EXCEPT ![v].balance = @ - 1]
    BY <1>6 DEF Use
  <2>2. member'[u] = member[u] \/ member'[u].balance = member[u].balance - 1
    BY <1>1, <2>1
  <2> QED  BY <1>1, <1>2, <2>2
<1>7. ASSUME NEW v \in Users, Leave(v) PROVE FALSE
  <2>1. member' = [member EXCEPT ![v] = [id |-> 0, balance |-> 0]] /\ member[v].id # 0
    BY <1>7 DEF Leave
  <2>2. member'[u] = member[u] \/ (u = v /\ member'[u].id = 0)
    BY <1>1, <2>1
  <2> QED  BY <1>2, <2>1, <2>2
<1>8. ASSUME UNCHANGED member PROVE FALSE
  BY <1>2, <1>8
<1> QED  BY <1>3, <1>4, <1>5, <1>6, <1>7, <1>8
         DEF TeamNext, team, ChangeItems, Cycle, SaveRow, ReadSeats, Retry, Invite, CancelInvite, OpenInvite, Unassign

\* If handlers take turns, no step raises the balance of somebody who stays a member
\* unless the member's seat changes in that step, or the step is the first to record
\* the invoice of a new month for that seat: a repeated or retried webhook never
\* credits a member twice for the same seat and type (add_balance and the invoice_id

\* However webhooks overlap, repeat or are retried, no step raises the balance of somebody
\* who stays a member unless the member's seat changes in that step, or the step is the
\* first to record the invoice of a new month for that seat, or a handler writes although
\* what it has read has changed (add_balance and the invoice_id <invoice>/<seat id> of
\* reset_member_balance, payments/webhooks.py).
THEOREM BalancesRiseForACause ==
    TeamSpec =>
        [][\A u \in Users :
              member'[u].id = member[u].id /\ member'[u].balance > member[u].balance =>
                  \/ SeatOf(member[u].id)' # SeatOf(member[u].id)
                  \/ \E i \in DOMAIN hooks, s \in Seats :
                        seat[s].to = member[u].id /\ <<i, s>> \in txns' \ txns /\ hooks[i].kind = "cycle"
                  \/ \E i \in DOMAIN hooks : SetSeats(i) /\ ~Fresh(i)]_team
<1>1. TypeInv /\ [TeamNext]_team =>
        [\A u \in Users :
              member'[u].id = member[u].id /\ member'[u].balance > member[u].balance =>
                  \/ SeatOf(member[u].id)' # SeatOf(member[u].id)
                  \/ \E i \in DOMAIN hooks, s \in Seats :
                        seat[s].to = member[u].id /\ <<i, s>> \in txns' \ txns /\ hooks[i].kind = "cycle"
                  \/ \E i \in DOMAIN hooks : SetSeats(i) /\ ~Fresh(i)]_team
  BY CauseStep DEF Cause
<1> QED  BY <1>1, TeamKeepsTypeInv, PTL DEF TeamSpec


-----------------------------------------------------------------------------
(* One type at a time: the loop keeps, changes or drops all seats alike *)

LEMMA NoneIs == ASSUME NEW t PROVE CountOf(<<>>, t) = 0 /\ Without(<<>>, t) = <<>>
BY DEF CountOf, Without, Entries

LEMMA SingleIs ==
    ASSUME NEW c \in Types, NEW x \in Nat, NEW t
    PROVE  LET one == <<[type |-> c, n |-> x]>> IN
           /\ one \in Counts /\ one # <<>> /\ Last(one) = [type |-> c, n |-> x] /\ Front(one) = <<>>
           /\ t = c => CountOf(one, t) = x /\ Without(one, t) = <<>>
           /\ t # c => CountOf(one, t) = 0 /\ Without(one, t) = one
<1> DEFINE e == [type |-> c, n |-> x]
           one == <<e>>
<1>1. e \in Entry /\ e.type = c /\ e.n = x
  BY DEF Entry
<1> HIDE DEF e
<1>2. one \in Seq(Entry) /\ Len(one) = 1 /\ one[1] = e /\ DOMAIN one = {1}
  BY <1>1
<1> HIDE DEF one
<1>3. one \in Counts
  <2>1. \A j, k \in 1 .. Len(one) : one[j].type = one[k].type => j = k
    BY <1>2
  <2> QED  BY <1>2, <2>1, CountsIf
<1>4. one # <<>> /\ Last(one) = e
  <2>1. Len(<<>>) = 0
    BY EmptySeq
  <2> QED  BY <1>2, <2>1 DEF Last
<1>5. Front(one) = <<>>
  <2>1. Front(one) \in Counts /\ Len(Front(one)) = 0
    BY <1>2, <1>3, <1>4, FrontCounts
  <2>2. Front(one) \in Seq(Entry)
    BY <2>1, CountsAre
  <2> QED  BY <2>1, <2>2, EmptySeq
<1>6. ASSUME t = c PROVE CountOf(one, t) = x /\ Without(one, t) = <<>>
  <2>1. Entries(one, t) = {1}
    BY <1>1, <1>2, <1>6 DEF Entries
  <2> DEFINE k == CHOOSE j \in Entries(one, t) : TRUE
  <2>2. k \in Entries(one, t) /\ CountOf(one, t) = one[k].n /\ Without(one, t) = RemoveAt(one, k)
    BY <2>1 DEF CountOf, Without
  <2> HIDE DEF k
  <2>3. CountOf(one, t) = x /\ Without(one, t) = RemoveAt(one, 1)
    BY <1>1, <1>2, <2>1, <2>2
  <2>4. RemoveAt(one, 1) \in Seq(Entry) /\ Len(RemoveAt(one, 1)) = 0
    BY <1>2, RemoveAtIs
  <2> QED  BY <2>3, <2>4, EmptySeq
<1>7. ASSUME t # c PROVE CountOf(one, t) = 0 /\ Without(one, t) = one
  <2>1. Entries(one, t) = {}
    BY <1>1, <1>2, <1>7 DEF Entries
  <2> QED  BY <2>1 DEF CountOf, Without
<1> QED  BY <1>3, <1>4, <1>5, <1>6, <1>7 DEF one, e

\* Every seat has its place, of its own.
LEMMA PlaceIs ==
    ASSUME RowTypes, IdInv, NEW i \in DOMAIN hooks
    PROVE  LET S == Rows(hooks[i].seen) IN
           /\ IsFiniteSet(S) /\ Cardinality(S) \in Nat
           /\ \A s \in S : Place(hooks[i].seen, s) \in 1 .. Cardinality(S)
           /\ \A s, r \in S : Place(hooks[i].seen, s) = Place(hooks[i].seen, r) => s = r
<1> DEFINE seen == hooks[i].seen
           S == Rows(seen)
           R == {p \in S \X S : Earlier(seen, p[1], p[2])}
<1>1. IsFiniteSet(S) /\ Cardinality(S) \in Nat
  BY TeamAssumption, FS_Subset, FS_CardinalityType DEF Rows
<1>2. TotalOrder(S, R)
  BY EarlierIs
<1>3. \A s \in S : Below(S, R, s) = {r \in S : Earlier(seen, r, s)}
  BY DEF Below
<1>4. \A s \in S : Place(seen, s) = Cardinality(Below(S, R, s)) + 1
  <2> SUFFICES ASSUME NEW s \in S PROVE Place(seen, s) = Cardinality(Below(S, R, s)) + 1
    OBVIOUS
  <2> QED  BY <1>3 DEF Place
<1> HIDE DEF S, R
<1>5. /\ \A s \in S : Cardinality(Below(S, R, s)) \in 0 .. Cardinality(S) - 1
      /\ \A s, r \in S : Cardinality(Below(S, R, s)) = Cardinality(Below(S, R, r)) => s = r
  BY <1>1, <1>2, RankMonotone
<1>6. \A s \in S : Place(seen, s) \in 1 .. Cardinality(S)
  BY <1>1, <1>4, <1>5
<1>7. \A s, r \in S : Place(seen, s) = Place(seen, r) => s = r
  <2> SUFFICES ASSUME NEW s \in S, NEW r \in S, Place(seen, s) = Place(seen, r) PROVE s = r
    OBVIOUS
  <2>1. Cardinality(Below(S, R, s)) = Cardinality(Below(S, R, r))
    BY <1>1, <1>4, <1>5
  <2> QED  BY <1>5, <2>1
<1> QED  BY <1>1, <1>6, <1>7 DEF S

\* The counts of one type, of which x are left: none is popped that is used up.
OneLeft(counts, c, x, old) ==
    \/ counts = <<>> /\ x = 0
    \/ counts = <<[type |-> c, n |-> x]>> /\ (x > 0 \/ old = c)

LEMMA OneVisit ==
    ASSUME NEW c \in Types, NEW old \in Types, NEW x \in Nat, NEW e, NEW acc, NEW s \in Seats,
           e.seen[s].type = old, acc.seat \in [Seats -> SeatRow], acc.seat[s].type = old,
           OneLeft(acc.counts, c, x, old)
    PROVE  LET v == Visit(e, acc, s) IN
           /\ \A r \in Seats \ {s} : v.seat[r] = acc.seat[r]
           /\ \/ x > 0 /\ v.seat[s].type = c /\ OneLeft(v.counts, c, x - 1, old)
              \/ x = 0 /\ v.seat[s].type = NoType /\ v.counts = <<>>
<1> DEFINE v == Visit(e, acc, s)
           one(y) == <<[type |-> c, n |-> y]>>
<1>0. /\ one(x) \in Counts /\ Last(one(x)) = [type |-> c, n |-> x] /\ Front(one(x)) = <<>>
      /\ one(x) # <<>>
      /\ old = c => CountOf(one(x), old) = x /\ Without(one(x), old) = <<>>
      /\ old # c => CountOf(one(x), old) = 0 /\ Without(one(x), old) = one(x)
  BY SingleIs
<1>1. acc.counts = <<>> \/ acc.counts = one(x)
  BY DEF OneLeft
<1>a. one(x - 1) = Append(<<>>, [type |-> c, n |-> x - 1])
  OBVIOUS
<1>b. OneLeft(acc.counts, c, x, old) => (acc.counts = <<>> /\ x = 0) \/ x > 0 \/ old = c
  BY DEF OneLeft
<1>c. x > 0 /\ x - 1 \in Nat => OneLeft(one(x - 1), c, x - 1, old) \/ (old # c /\ ~ (x > 1))
  BY DEF OneLeft
<1> HIDE DEF one
<1>2. acc.counts \in Counts
  BY <1>0, <1>1, NoCounts
<1>3. VisitKeeps(e, acc, s, v) \/ VisitRetypes(e, acc, s, v) \/ VisitDrops(e, acc, s, v)
  BY <1>2, VisitIs, Zenon
<1> SUFFICES /\ \A r \in Seats \ {s} : v.seat[r] = acc.seat[r]
             /\ \/ x > 0 /\ v.seat[s].type = c /\ OneLeft(v.counts, c, x - 1, old)
                \/ x = 0 /\ v.seat[s].type = NoType /\ v.counts = <<>>
  OBVIOUS
<1> HIDE DEF v
<1>4. x > 0 => x - 1 \in Nat /\ x # 0
  OBVIOUS
<1>5. CASE VisitKeeps(e, acc, s, v)
  <2>1. /\ CountOf(acc.counts, old) > 0 /\ v.seat = acc.seat
        /\ v.counts = Append(Without(acc.counts, old),
                             [type |-> old, n |-> CountOf(acc.counts, old) - 1])
    BY <1>5 DEF VisitKeeps
  <2>2. acc.counts = one(x) /\ old = c
    BY <1>0, <1>1, <2>1, NoneIs
  <2>3. x > 0 /\ v.counts = Append(<<>>, [type |-> c, n |-> x - 1])
    BY <1>0, <2>1, <2>2
  <2>4. v.counts = one(x - 1)
    BY <1>a, <2>3
  <2> QED  BY <1>4, <1>c, <2>1, <2>2, <2>3, <2>4
<1>6. CASE VisitRetypes(e, acc, s, v)
  <2> DEFINE rest == Without(acc.counts, old)
  <2>1. /\ CountOf(acc.counts, old) = 0 /\ rest # <<>>
        /\ v.counts = IF Last(rest).n > 1
                      THEN Append(Front(rest), [type |-> Last(rest).type, n |-> Last(rest).n - 1])
                      ELSE Front(rest)
        /\ v.seat = [acc.seat EXCEPT ![s] = [type |-> Last(rest).type, to |-> acc.seat[s].to]]
    BY <1>6 DEF VisitRetypes
  <2>2. acc.counts = one(x) /\ old # c /\ rest = one(x)
    BY <1>0, <1>1, <2>1, NoneIs
  <2>3. Last(rest) = [type |-> c, n |-> x] /\ Front(rest) = <<>>
    BY <1>0, <2>2
  <2> HIDE DEF rest
  <2>4. x > 0
    BY <1>0, <1>b, <2>2
  <2>5. v.seat = [acc.seat EXCEPT ![s] = [type |-> c, to |-> acc.seat[s].to]]
    BY <2>1, <2>3
  <2>6. v.seat[s].type = c /\ \A r \in Seats \ {s} : v.seat[r] = acc.seat[r]
    BY <2>5
  <2>7. CASE x > 1
    <3>1. v.counts = Append(<<>>, [type |-> c, n |-> x - 1])
      BY <2>1, <2>3, <2>7
    <3>2. v.counts = one(x - 1) /\ x - 1 > 0
      BY <1>a, <2>7, <3>1
    <3> QED  BY <1>4, <1>c, <2>4, <2>6, <2>7, <3>2
  <2>8. CASE ~ (x > 1)
    <3>1. v.counts = <<>>
      BY <2>1, <2>3, <2>8
    <3>2. x - 1 = 0
      BY <2>4, <2>8
    <3> QED  BY <2>4, <2>6, <3>1, <3>2 DEF OneLeft
  <2> QED  BY <2>7, <2>8
<1>7. CASE VisitDrops(e, acc, s, v)
  <2>1. /\ CountOf(acc.counts, old) = 0 /\ Without(acc.counts, old) = <<>>
        /\ v.counts = <<>> /\ v.seat = [acc.seat EXCEPT ![s] = NoSeat]
    BY <1>7 DEF VisitDrops
  <2>2. x = 0
    <3>1. CASE acc.counts = <<>>
      BY <1>0, <1>b, <3>1 DEF OneLeft
    <3>2. CASE acc.counts = one(x)
      BY <1>0, <2>1, <3>2
    <3> QED  BY <1>1, <3>1, <3>2
  <2>3. v.seat[s].type = NoType /\ \A r \in Seats \ {s} : v.seat[r] = acc.seat[r]
    BY <2>1 DEF NoSeat
  <2> QED  BY <2>1, <2>2, <2>3
<1> QED  BY <1>3, <1>5, <1>6, <1>7

\* The seats that the passes up to the k-th have visited, and what they made of them.
Visited(i, k) == {s \in Rows(hooks[i].seen) : Place(hooks[i].seen, s) \in 1 .. k}

Counted(i, c, old, n, k) ==
    LET acc == Passes(i)[k] IN
    /\ \A s \in Visited(i, k) : acc.seat[s].type \in {c, NoType}
    /\ \E x \in Nat : /\ OneLeft(acc.counts, c, x, old)
                      /\ Cardinality({s \in Visited(i, k) : acc.seat[s].type = c}) + x = n

LEMMA CountedStep ==
    ASSUME RowTypes, IdInv, NEW i \in DOMAIN hooks, NEW c \in Types, NEW old \in Types,
           NEW n \in Nat,
           \A s \in Rows(hooks[i].seen) : hooks[i].seen[s].type = old /\ seat[s].type = old,
           NEW k \in 1 .. Cardinality(Rows(hooks[i].seen)), Counted(i, c, old, n, k - 1)
    PROVE  Counted(i, c, old, n, k)
<1> DEFINE S == Rows(hooks[i].seen)
           s == AtPlace(hooks[i].seen, k)
           acc == Passes(i)[k - 1]
           v == Passes(i)[k]
           A == {r \in Visited(i, k - 1) : acc.seat[r].type = c}
           B == {r \in Visited(i, k) : v.seat[r].type = c}
<1>1. IsFiniteSet(S) /\ Cardinality(S) \in Nat
  BY PlaceIs, Zenon
<1>2. k \in Nat \ {0} /\ k - 1 \in 0 .. Cardinality(S) /\ k > k - 1 /\ k \in 1 .. k /\ k \notin 1 .. k - 1
  BY <1>1
<1>3. s \in S /\ Place(hooks[i].seen, s) = k
  BY PlaceOnto, Zenon
<1>4. \A r \in S : Place(hooks[i].seen, r) = k => r = s
  <2>1. \A q, r \in S : Place(hooks[i].seen, q) = Place(hooks[i].seen, r) => q = r
    BY PlaceIs, Zenon
  <2> QED  BY <1>3, <2>1
<1>5. Visited(i, k) = Visited(i, k - 1) \cup {s} /\ s \notin Visited(i, k - 1)
  <2>1. \A j : j \in 1 .. k <=> j \in 1 .. k - 1 \/ j = k
    BY <1>2
  <2> HIDE DEF s
  <2>2. \A r \in S : r \in Visited(i, k) <=> r \in Visited(i, k - 1) \/ r = s
    BY <1>3, <1>4, <2>1 DEF Visited
  <2> QED  BY <1>2, <1>3, <2>2 DEF Visited
<1>6. LoopState(i, acc) /\ Untouched(i, k - 1, acc)
  BY <1>2, PassKeeps, Zenon
<1>7. acc.seat \in [Seats -> SeatRow] /\ s \in Seats /\ S \subseteq Seats
  BY <1>3, <1>6 DEF LoopState, Rows
<1>8. acc.seat[s].type = old /\ hooks[i].seen[s].type = old
  <2>1. Stays(acc, s)
    BY <1>2, <1>3, <1>6, <1>7 DEF Untouched
  <2> QED  BY <1>3, <2>1 DEF Stays
<1>9. v = Visit(hooks[i], acc, s)
  BY <1>1, PassesAre, Zenon
<1> HIDE DEF acc, s, v, S
<1>10. /\ \A r \in Visited(i, k - 1) : acc.seat[r].type \in {c, NoType}
       /\ \E x \in Nat : OneLeft(acc.counts, c, x, old) /\ Cardinality(A) + x = n
  BY DEF Counted, acc
<1>11. PICK x \in Nat : OneLeft(acc.counts, c, x, old) /\ Cardinality(A) + x = n
  BY <1>10
<1>12. /\ \A r \in Seats \ {s} : v.seat[r] = acc.seat[r]
       /\ \/ x > 0 /\ v.seat[s].type = c /\ OneLeft(v.counts, c, x - 1, old)
          \/ x = 0 /\ v.seat[s].type = NoType /\ v.counts = <<>>
  <2>1. hooks[i].seen[s].type = old /\ acc.seat[s].type = old /\ s \in Seats
    BY <1>7, <1>8
  <2>2. LET w == Visit(hooks[i], acc, s) IN
        /\ \A r \in Seats \ {s} : w.seat[r] = acc.seat[r]
        /\ \/ x > 0 /\ w.seat[s].type = c /\ OneLeft(w.counts, c, x - 1, old)
           \/ x = 0 /\ w.seat[s].type = NoType /\ w.counts = <<>>
    BY <1>7, <1>11, <2>1, OneVisit
  <2> QED  BY <1>9, <2>2
<1>13. Visited(i, k - 1) \subseteq S /\ A \subseteq S
  BY DEF Visited, S
<1>14. \A r \in Visited(i, k - 1) : v.seat[r] = acc.seat[r]
  BY <1>5, <1>7, <1>12, <1>13
<1>15. \A r \in Visited(i, k) : v.seat[r].type \in {c, NoType}
  BY <1>5, <1>10, <1>12, <1>14
<1>16. IsFiniteSet(A) /\ Cardinality(A) \in Nat /\ s \notin A
  BY <1>1, <1>5, <1>13, FS_Subset, FS_CardinalityType
<1>17. CASE x > 0 /\ v.seat[s].type = c /\ OneLeft(v.counts, c, x - 1, old)
  <2>1. B = A \cup {s}
    BY <1>5, <1>14, <1>17
  <2> HIDE DEF A, B
  <2>2. Cardinality(B) = Cardinality(A) + 1
    BY <1>16, <2>1, FS_AddElement
  <2>3. x - 1 \in Nat /\ Cardinality(B) + (x - 1) = n
    BY <1>11, <1>16, <1>17, <2>2
  <2> QED  BY <1>15, <1>17, <2>3 DEF Counted, v, B
<1>18. CASE x = 0 /\ v.seat[s].type = NoType /\ v.counts = <<>>
  <2>1. c # NoType
    BY TeamAssumption
  <2>2. B = A
    BY <1>5, <1>14, <1>18, <2>1
  <2>3. 0 \in Nat /\ OneLeft(v.counts, c, 0, old) /\ Cardinality(B) + 0 = n
    BY <1>11, <1>18, <2>2 DEF OneLeft
  <2> QED  BY <1>15, <2>3 DEF Counted, v
<1> QED  BY <1>12, <1>17, <1>18

\* After the loop there are as many seats of the one type as are billed, but for the
\* count that is left.
LEMMA LoopMatch ==
    ASSUME RowTypes, IdInv, NEW i \in DOMAIN hooks, NEW c \in Types, NEW old \in Types,
           NEW n \in Nat, OneLeft(hooks[i].items, c, n, old),
           \A s \in Seats : hooks[i].seen[s].type = seat[s].type /\ seat[s].type \in {old, NoType}
    PROVE  /\ \A s \in Seats : Loop(i).seat[s].type \in {c, NoType}
           /\ \E x \in Nat :
                 /\ OneLeft(Loop(i).counts, c, x, old)
                 /\ Cardinality({s \in Seats : Loop(i).seat[s].type = c}) + x = n
<1> DEFINE S == Rows(hooks[i].seen)
           m == Cardinality(S)
           Good(k) == Counted(i, c, old, n, k)
           Bad == {k \in 0 .. m : ~ Good(k)}
<1>1. m \in Nat /\ \A s \in S : Place(hooks[i].seen, s) \in 1 .. m
  BY PlaceIs, Zenon
<1>2. \A s \in S : hooks[i].seen[s].type = old /\ seat[s].type = old
  BY DEF Rows
<1>3. Good(0)
  <2>1. Passes(i)[0] = FirstPass(i)
    BY <1>1, PassesAre, Zenon
  <2>2. Visited(i, 0) = {}
    BY DEF Visited
  <2>3. {s \in Visited(i, 0) : Passes(i)[0].seat[s].type = c} = {}
    BY <2>2
  <2>4. Cardinality({s \in Visited(i, 0) : Passes(i)[0].seat[s].type = c}) + n = n
    <3> DEFINE A == {s \in Visited(i, 0) : Passes(i)[0].seat[s].type = c}
    <3> HIDE DEF A
    <3>1. Cardinality(A) = 0
      BY <2>3, FS_EmptySet DEF A
    <3>2. Cardinality(A) + n = n
      BY <3>1
    <3> QED  BY <3>2 DEF A
  <2>5. OneLeft(Passes(i)[0].counts, c, n, old)
    BY <2>1 DEF FirstPass
  <2> QED  BY <2>2, <2>4, <2>5 DEF Counted
<1>4. ASSUME NEW k \in 1 .. m, Good(k - 1) PROVE Good(k)
  BY <1>2, <1>4, CountedStep, Zenon
<1> HIDE DEF m, Good
<1>5. Bad = {}
  <2> SUFFICES ASSUME Bad # {} PROVE FALSE
    OBVIOUS
  <2>1. Bad \in SUBSET Nat
    BY <1>1
  <2>2. PICK k \in Bad : \A j \in Bad : k <= j
    BY <2>1, LeastOf
  <2>3. k \in 0 .. m /\ ~ Good(k)
    BY <2>2
  <2>4. k # 0
    BY <1>3, <2>3
  <2>5. k \in 1 .. m /\ k - 1 \in 0 .. m /\ ~ (k <= k - 1)
    BY <1>1, <2>3, <2>4
  <2>6. Good(k - 1)
    BY <2>2, <2>5
  <2> QED  BY <1>4, <2>3, <2>5, <2>6
<1>6. Good(m)
  BY <1>1, <1>5
<1>7. Visited(i, m) = S
  BY <1>1 DEF Visited
<1>8. /\ \A s \in S : Loop(i).seat[s].type \in {c, NoType}
      /\ \E x \in Nat : /\ OneLeft(Loop(i).counts, c, x, old)
                        /\ Cardinality({s \in S : Loop(i).seat[s].type = c}) + x = n
  <2>1. Passes(i)[m] = Loop(i)
    BY DEF Loop, m
  <2> QED  BY <1>6, <1>7, <2>1 DEF Good, Counted
<1>9. \A s \in Seats \ S : Loop(i).seat[s].type = NoType
  <2>1. \A s \in Seats : s \notin S => Stays(Loop(i), s)
    BY LoopSeats, Zenon
  <2>2. \A s \in Seats : s \notin S => seat[s].type = NoType
    BY DEF Rows
  <2> QED  BY <2>1, <2>2 DEF Stays
<1>10. S \subseteq Seats /\ c # NoType
  BY TeamAssumption DEF Rows
<1> HIDE DEF S
<1>11. {s \in S : Loop(i).seat[s].type = c} = {s \in Seats : Loop(i).seat[s].type = c}
  BY <1>9, <1>10
<1> QED  BY <1>8, <1>9, <1>10, <1>11
LEMMA OneCount ==
    ASSUME NEW c \in Types, NEW x \in Nat, NEW t
    PROVE  CountOf(<<[type |-> c, n |-> x]>>, t) = IF t = c THEN x ELSE 0
<1> DEFINE one == <<[type |-> c, n |-> x]>>
<1>1. /\ t = c => CountOf(one, t) = x
      /\ t # c => CountOf(one, t) = 0
  BY SingleIs, SMTT(30)
<1> QED  BY <1>1

\* A bill of one type.
Billed(items, c, n) ==
    /\ OneLeft(items, c, n, c) /\ (n > 0 \/ items = <<>>)
    /\ \A d \in Types : CountOf(items, d) = IF d = c THEN n ELSE 0

LEMMA BillIs ==
    ASSUME NEW items, OneItem(items), NEW t \in Types
    PROVE  \E c \in Types, n \in Nat : Billed(items, c, n)
<1>1. CASE items = <<>>
  <2>1. \A d \in Types : CountOf(items, d) = 0
    BY <1>1, NoneIs
  <2> QED  BY <1>1, <2>1 DEF Billed, OneLeft
<1>2. CASE items # <<>>
  <2>1. PICK c \in Types, n \in Nat \ {0} : items = <<[type |-> c, n |-> n]>>
    BY <1>2 DEF OneItem
  <2>2. n \in Nat /\ n > 0
    OBVIOUS
  <2>3. \A d \in Types : CountOf(items, d) = IF d = c THEN n ELSE 0
    <3> SUFFICES ASSUME NEW d \in Types PROVE CountOf(items, d) = IF d = c THEN n ELSE 0
      OBVIOUS
    <3> QED  BY <2>1, <2>2, OneCount
  <2>4. OneLeft(items, c, n, c)
    BY <2>1 DEF OneLeft
  <2> QED  BY <1>2, <2>2, <2>3, <2>4 DEF Billed
<1> QED  BY <1>1, <1>2

\* The seats that are left and those that are created are as many as are billed.
LEMMA SetMatches ==
    ASSUME TypeInv, NEW i \in DOMAIN hooks, Fresh(i), SetSeats(i),
           OneItem(hooks[i].items), OneTypeOfSeat, NEW t \in Types
    PROVE  Cardinality({s \in Seats : seat'[s].type = t}) = CountOf(hooks[i].items, t)
<1> DEFINE items == hooks[i].items
           acc == Loop(i)
           new == CHOOSE f \in Fillings(acc) : TRUE
           A == {s \in Seats : acc.seat[s].type = t}
           B == {s \in Seats : new[s] = t}
<1>1. RowTypes /\ IdInv /\ t # NoType
  BY TeamAssumption DEF TypeInv
<1>2. /\ i \in Reading /\ Fillings(acc) # {}
      /\ \A s \in Seats : seat'[s].type = SeatsOf(i)[s].type
  BY <1>1, SetSeatsIs
<1>3. PICK old \in Types : \A s \in Seats : seat[s].type \in {old, NoType}
  BY DEF OneTypeOfSeat
<1>4. PICK c \in Types, n \in Nat : Billed(items, c, n)
  BY BillIs
<1>5. OneLeft(hooks[i].items, c, n, old)
  <2>1. <<[type |-> c, n |-> n]>> # <<>>
    OBVIOUS
  <2> QED  BY <1>4, <2>1 DEF OneLeft, Billed
<1>6. \A s \in Seats : hooks[i].seen[s].type = seat[s].type /\ seat[s].type \in {old, NoType}
  BY <1>2, <1>3 DEF Fresh
<1>7. /\ \A s \in Seats : acc.seat[s].type \in {c, NoType}
      /\ \E x \in Nat : /\ OneLeft(acc.counts, c, x, old)
                        /\ Cardinality({s \in Seats : acc.seat[s].type = c}) + x = n
  BY <1>1, <1>5, <1>6, LoopMatch, ZenonT(60)
<1>8. PICK x \in Nat : /\ OneLeft(acc.counts, c, x, old)
                       /\ Cardinality({s \in Seats : acc.seat[s].type = c}) + x = n
  BY <1>7
<1>9. new \in Fillings(acc)
  BY <1>2
<1>10. \A s \in Seats : SeatsOf(i)[s] = IF new[s] # NoType THEN [type |-> new[s], to |-> 0]
                                        ELSE acc.seat[s]
  BY DEF SeatsOf, Created
<1> HIDE DEF acc, new
<1>11. /\ \A s \in Seats : new[s] # NoType => acc.seat[s].type = NoType
       /\ Cardinality(B) = CountOf(acc.counts, t)
  <2>1. /\ \A s \in Seats : new[s] # NoType => s \in FreeSlots(acc)
        /\ \A d \in Types : Cardinality({s \in Seats : new[s] = d}) = CountOf(acc.counts, d)
    BY <1>9 DEF Fillings
  <2> QED  BY <2>1 DEF FreeSlots
<1>12. {s \in Seats : seat'[s].type = t} = A \cup B /\ A \cap B = {}
  <2>1. \A s \in Seats : seat'[s].type = IF new[s] # NoType THEN new[s] ELSE acc.seat[s].type
    <3> SUFFICES ASSUME NEW s \in Seats
                 PROVE  seat'[s].type = IF new[s] # NoType THEN new[s] ELSE acc.seat[s].type
      OBVIOUS
    <3>1. seat'[s].type = SeatsOf(i)[s].type
      BY <1>2
    <3>2. CASE new[s] # NoType
      <4>1. SeatsOf(i)[s] = [type |-> new[s], to |-> 0]
        BY <1>10, <3>2
      <4>2. SeatsOf(i)[s].type = new[s]
        BY <4>1
      <4> QED  BY <3>1, <3>2, <4>2
    <3>3. CASE new[s] = NoType
      <4>1. SeatsOf(i)[s] = acc.seat[s]
        BY <1>10, <3>3
      <4> QED  BY <3>1, <3>3, <4>1
    <3> QED  BY <3>2, <3>3
  <2>2. \A s \in Seats : seat'[s].type = t <=> new[s] = t \/ acc.seat[s].type = t
    BY <1>1, <1>11, <2>1
  <2>3. \A s \in Seats : ~ (new[s] = t /\ acc.seat[s].type = t)
    BY <1>1, <1>11
  <2> QED  BY <2>2, <2>3
<1>13. IsFiniteSet(A) /\ IsFiniteSet(B) /\ Cardinality(A) \in Nat /\ Cardinality(B) \in Nat
  BY TeamAssumption, FS_Subset, FS_CardinalityType
<1>14. CountOf(acc.counts, t) = IF t = c THEN x ELSE 0
  <2>1. CASE acc.counts = <<>>
    <3>1. x = 0
      <4>1. <<[type |-> c, n |-> x]>> # <<>>
        OBVIOUS
      <4> QED  BY <1>8, <2>1, <4>1 DEF OneLeft
    <3> QED  BY <2>1, <3>1, NoneIs
  <2>2. CASE acc.counts = <<[type |-> c, n |-> x]>>
    BY <2>2, OneCount
  <2> QED  BY <1>8, <2>1, <2>2 DEF OneLeft
<1>15. Cardinality(A) = IF t = c THEN n - x ELSE 0
  <2>1. CASE t = c
    <3>1. Cardinality(A) + x = n
      BY <1>8, <2>1
    <3> HIDE DEF A
    <3> QED  BY <1>13, <2>1, <3>1
  <2>2. CASE t # c
    <3>1. A = {}
      BY <1>1, <1>7, <2>2
    <3> HIDE DEF A
    <3> QED  BY <2>2, <3>1, FS_EmptySet
  <2> QED  BY <2>1, <2>2
<1> HIDE DEF A, B
<1>16. Cardinality(A \cup B) = Cardinality(A) + Cardinality(B)
  <2>1. Cardinality(A \cup B) = Cardinality(A) + Cardinality(B) - Cardinality(A \cap B)
    BY <1>13, FS_Union
  <2>2. Cardinality(A \cap B) = 0
    BY <1>12, FS_EmptySet
  <2> QED  BY <1>13, <2>1, <2>2
<1>17. Cardinality(A \cup B) = IF t = c THEN n ELSE 0
  BY <1>11, <1>14, <1>15, <1>16
<1> QED  BY <1>4, <1>12, <1>17 DEF Billed


\* A handler that writes while what it has read is still so leaves exactly the seats of the
\* items that it was told of, however many of them were kept, changed, dropped or created
\* and whoever joined, left or was assigned meanwhile, if the subscription had and has one
\* type of seat (payments/webhooks.py, set_subscription_seats_from_stripe_sub).
THEOREM SeatsAreThoseBilled ==
    TeamSpec =>
        [][\A i \in DOMAIN hooks :
              SetSeats(i) /\ Fresh(i) /\ OneItem(hooks[i].items) /\ OneTypeOfSeat =>
                  \A t \in Types :
                      Cardinality({s \in Seats : seat'[s].type = t}) = CountOf(hooks[i].items, t)]_team
<1>1. TypeInv /\ [TeamNext]_team =>
        [\A i \in DOMAIN hooks :
              SetSeats(i) /\ Fresh(i) /\ OneItem(hooks[i].items) /\ OneTypeOfSeat =>
                  \A t \in Types :
                      Cardinality({s \in Seats : seat'[s].type = t}) = CountOf(hooks[i].items, t)]_team
  BY SetMatches
<1> QED  BY <1>1, TeamKeepsTypeInv, PTL DEF TeamSpec
=============================================================================
