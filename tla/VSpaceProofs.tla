---------------------------- MODULE VSpaceProofs ----------------------------
(***************************************************************************)
(* Address spaces, for any number of spaces, ranges of any length and any  *)
(* memory: the page tables of one address space form a tree, of which a    *)
(* turn of the loop of vspace_map changes one translation or none; the     *)
(* loops of vspace_map and vspace_unmap, the invariant of all page tables, *)
(* and what they implement.                                                *)
(***************************************************************************)
EXTENDS VSpace, WellFoundedInduction, TLAPS

(***************************************************************************)
(* Numbers.  CommonLemmas has these facts too; with the theorems on finite *)
(* sets that come with it every obligation below would carry three times   *)
(* as much.                                                                *)
(***************************************************************************)

\* Division with remainder.
LEMMA DivMod ==
  ASSUME NEW q \in Nat \ {0}, NEW x \in Int
  PROVE  /\ x \div q \in Int
         /\ x % q \in 0 .. (q - 1)
         /\ x = q * (x \div q) + (x % q)
BY Z3

\* A non-empty set of numbers has a least element.
LEMMA LeastNumber ==
  ASSUME NEW T \in SUBSET Nat, T # {}
  PROVE  \E x \in T : \A y \in T : x <= y
<1> DEFINE R == OpToRel(<, Nat)
<1>1. PICK x \in T : \A y \in T : ~(<<y, x>> \in R)
  <2>1. IsWellFoundedOn(R, Nat)
    BY NatLessThanWellFounded, Zenon
  <2> HIDE DEF R
  <2> QED BY <2>1, WFMin, Zenon
<1>2. ASSUME NEW y \in T PROVE x <= y
  <2>1. <<y, x>> \in Nat \X Nat => ~(y < x)
    BY <1>1 DEF OpToRel
  <2> QED BY <2>1
<1> QED BY <1>2

-----------------------------------------------------------------------------
\* Page numbers and the indices of a walk.

\* Quotient and remainder are the only numbers that do.
LEMMA DivUnique ==
  ASSUME NEW q \in Nat \ {0}, NEW d \in Int, NEW r \in 0 .. (q - 1), NEW x, x = q * d + r
  PROVE  x \div q = d /\ x % q = r
<1>0. x \in Int /\ q * d \in Int
  OBVIOUS
<1> DEFINE e == x \div q
           t == x % q
<1>1. e \in Int /\ t \in 0 .. (q - 1) /\ x = q * e + t
  BY <1>0, DivMod
<1> HIDE DEF e, t
<1>2. q * (d - e) = t - r
  BY <1>1
<1>3. d - e \in Int /\ (d - e >= 1 => q * (d - e) >= q) /\ (d - e <= -1 => q * (d - e) <= -q)
  BY <1>1
<1>4. d - e = 0
  BY <1>1, <1>2, <1>3
<1>5. e = d /\ t = r
  BY <1>1, <1>4
<1> QED BY <1>5 DEF e, t

\* A number below the modulus is its own remainder.
LEMMA SmallMod ==
  ASSUME NEW q \in Nat \ {0}, NEW i \in 0 .. (q - 1)
  PROVE  i % q = i
<1>1. i = q * 0 + i
  OBVIOUS
<1> QED BY <1>1, DivUnique

\* The number with digits a, b and c to the base F.
Num(F, a, b, c) == F * F * a + (F * b + c)

\* Three digits and the number they make.
LEMMA DigitsOf ==
  ASSUME NEW F \in Nat \ {0},
         NEW a \in 0 .. (F - 1), NEW b \in 0 .. (F - 1), NEW c \in 0 .. (F - 1)
  PROVE  /\ F * F * a + (F * b + c) \in 0 .. (F * F * F - 1)
         /\ ((F * F * a + (F * b + c)) \div (F * F)) % F = a
         /\ ((F * F * a + (F * b + c)) \div F) % F = b
         /\ (F * F * a + (F * b + c)) % F = c
<1> DEFINE S == F * F
           P == F * F * F
           x == F * F * a + (F * b + c)
<1>0. S = F * F /\ P = S * F /\ x = S * a + (F * b + c)
  OBVIOUS
<1> SUFFICES /\ x \in 0 .. (P - 1) /\ (x \div S) % F = a
             /\ (x \div F) % F = b /\ x % F = c
  OBVIOUS
<1> HIDE DEF S, P, x
<1>1. S \in Nat \ {0} /\ P \in Nat \ {0} /\ a \in Int /\ b \in Int /\ c \in Int
  BY <1>0
<1>2. F * b + c \in 0 .. (S - 1)
  <2>1. F * b <= F * (F - 1) /\ F * b \in Nat /\ F * (F - 1) = S - F
    BY <1>0
  <2> QED BY <1>1, <2>1
<1>3. x \in 0 .. (P - 1)
  <2>1. S * a <= S * (F - 1) /\ S * a \in Nat /\ S * (F - 1) = P - S
    BY <1>0, <1>1
  <2> QED BY <1>0, <1>1, <1>2, <2>1
<1>4. x \div S = a
  BY <1>0, <1>1, <1>2, DivUnique, Zenon
<1> DEFINE y == F * a + b
<1>5. y \in Int /\ x = F * y + c
  BY <1>0, <1>1
<1>6. y % F = b
  BY <1>1, DivUnique, Zenon
<1> HIDE DEF y
<1>7. x \div F = y /\ x % F = c
  <2>1. (F * y + c) \div F = y /\ (F * y + c) % F = c
    BY <1>5, DivUnique, Zenon
  <2> QED BY <1>5, <2>1, Zenon
<1>8. a % F = a
  BY SmallMod
<1> QED BY <1>3, <1>4, <1>6, <1>7, <1>8

\* Every number is cut to its last three digits by the remainder.
LEMMA DigitsCut ==
  ASSUME NEW F \in Nat \ {0}, NEW va \in Nat
  PROVE  /\ (va \div (F * F)) % F \in 0 .. (F - 1)
         /\ (va \div F) % F \in 0 .. (F - 1)
         /\ va % F \in 0 .. (F - 1)
         /\ va % (F * F * F) = Num(F, (va \div (F * F)) % F, (va \div F) % F, va % F)
<1> DEFINE S == F * F
           P == F * F * F
<1>z. S = F * F /\ P = S * F
  OBVIOUS
<1> SUFFICES /\ (va \div S) % F \in 0 .. (F - 1)
             /\ (va \div F) % F \in 0 .. (F - 1)
             /\ va % F \in 0 .. (F - 1)
             /\ va % P = Num(F, (va \div S) % F, (va \div F) % F, va % F)
  OBVIOUS
<1> HIDE DEF S, P
<1>0. va \in Int /\ S \in Nat \ {0} /\ P \in Nat \ {0}
  BY <1>z
<1> DEFINE q == va \div F
           c == va % F
           b == q % F
           t == q \div F
           a == t % F
           h == t \div F
<1>1. q \in Int /\ c \in 0 .. (F - 1) /\ va = F * q + c
  BY <1>0, DivMod, Zenon
<1>2. t \in Int /\ b \in 0 .. (F - 1) /\ q = F * t + b
  BY <1>1, DivMod, Zenon
<1>3. h \in Int /\ a \in 0 .. (F - 1) /\ t = F * h + a
  BY <1>2, DivMod, Zenon
<1> DEFINE n == S * a + (F * b + c)
<1> HIDE DEF a, b, c, q, t, h
<1>4. n \in 0 .. (P - 1)
  BY <1>1, <1>2, <1>3, DigitsOf, Zenon DEF S, P
<1>5. F * b + c \in 0 .. (S - 1)
  <2>1. F * b <= F * (F - 1) /\ F * b \in Nat /\ F * (F - 1) = S - F
    BY <1>z, <1>2
  <2> QED BY <1>0, <1>1, <2>1
<1>6. va = S * t + (F * b + c)
  BY <1>z, <1>1, <1>2
<1>7. va \div S = t
  BY <1>0, <1>2, <1>5, <1>6, DivUnique, Zenon
<1>8. va = P * h + n
  <2>1. S * t = P * h + S * a
    BY <1>z, <1>3
  <2>2. P * h \in Int /\ S * a \in Int /\ F * b + c \in Int
    BY <1>0, <1>3, <1>5
  <2> QED BY <1>6, <2>1, <2>2
<1>9. va % P = n
  <2> HIDE DEF n
  <2>1. (P * h + n) % P = n
    BY <1>0, <1>3, <1>4, DivUnique, Zenon
  <2> QED BY <1>8, <2>1, Zenon
<1>10. /\ (va \div S) % F = a /\ (va \div F) % F = b /\ va % F = c
  BY <1>7, Zenon DEF a, b, c, q
<1> HIDE DEF n
<1>11. va % P = Num(F, (va \div S) % F, (va \div F) % F, va % F)
  <2>1. n = Num(F, a, b, c)
    BY DEF n, Num, S
  <2> QED BY <1>9, <1>10, <2>1
<1> QED BY <1>1, <1>2, <1>3, <1>10, <1>11, Zenon

\* The virtual page with the given index at every level.
Number(a, b, c) == Num(Fan, a, b, c)

\* A walk for it uses these indices.
LEMMA Digits ==
  ASSUME NEW a \in Entries, NEW b \in Entries, NEW c \in Entries
  PROVE  /\ Number(a, b, c) \in 0 .. (VPages - 1)
         /\ vpn2(Number(a, b, c)) = a /\ vpn1(Number(a, b, c)) = b /\ vpn0(Number(a, b, c)) = c
<1>1. Fan \in Nat \ {0}
  BY VSpaceAssumption
<1>2. a \in 0 .. (Fan - 1) /\ b \in 0 .. (Fan - 1) /\ c \in 0 .. (Fan - 1)
  BY DEF Entries
<1>3. \A x \in 0 .. (Fan - 1), y \in 0 .. (Fan - 1), z \in 0 .. (Fan - 1) :
        /\ Number(x, y, z) \in 0 .. (VPages - 1)
        /\ (Number(x, y, z) \div (Fan * Fan)) % Fan = x
        /\ (Number(x, y, z) \div Fan) % Fan = y
        /\ Number(x, y, z) % Fan = z
  BY <1>1, DigitsOf, Zenon DEF Number, Num, VPages
<1> QED BY <1>2, <1>3 DEF vpn2, vpn1, vpn0

\* A page number is cut to the three indices that a walk uses.
LEMMA Cut ==
  ASSUME NEW va \in Nat
  PROVE  /\ vpn2(va) \in Entries /\ vpn1(va) \in Entries /\ vpn0(va) \in Entries
         /\ va % VPages = Number(vpn2(va), vpn1(va), vpn0(va))
<1>1. Fan \in Nat \ {0}
  BY VSpaceAssumption
<1>2. vpn2(va) \in Entries /\ vpn1(va) \in Entries /\ vpn0(va) \in Entries
  BY <1>1, DigitsCut, Zenon DEF vpn2, vpn1, vpn0, Entries
<1>3. va % VPages = Number(vpn2(va), vpn1(va), vpn0(va))
  BY <1>1, DigitsCut, Zenon DEF vpn2, vpn1, vpn0, Number, VPages
<1> QED BY <1>2, <1>3

\* The page that is offset k behind va, within what the tables cover.
Cell(va, k) == (va + k) % VPages

\* Two pages take the same way through the tables if they are the same page, after
\* the cut.
LEMMA SameWay ==
  ASSUME NEW va \in Nat
  PROVE  /\ va % VPages \in 0 .. (VPages - 1)
         /\ vpn2(va % VPages) = vpn2(va) /\ vpn1(va % VPages) = vpn1(va) /\ vpn0(va % VPages) = vpn0(va)
         /\ \A w \in 0 .. (VPages - 1) :
              vpn2(w) = vpn2(va) /\ vpn1(w) = vpn1(va) /\ vpn0(w) = vpn0(va) => w = va % VPages
<1>1. VPages \in Nat \ {0}
  BY VSpaceAssumption DEF VPages
<1>2. va % VPages = Number(vpn2(va), vpn1(va), vpn0(va))
  BY Cut
<1>3. \A w \in 0 .. (VPages - 1) : w = Number(vpn2(w), vpn1(w), vpn0(w))
  <2> SUFFICES ASSUME NEW w \in 0 .. (VPages - 1) PROVE w = Number(vpn2(w), vpn1(w), vpn0(w))
    OBVIOUS
  <2>1. w \in Nat /\ w % VPages = w
    BY <1>1, SmallMod
  <2> QED BY <2>1, Cut
<1>4. vpn2(va) \in Entries /\ vpn1(va) \in Entries /\ vpn0(va) \in Entries
  BY Cut
<1> DEFINE x == Number(vpn2(va), vpn1(va), vpn0(va))
<1>5. x \in 0 .. (VPages - 1) /\ vpn2(x) = vpn2(va) /\ vpn1(x) = vpn1(va) /\ vpn0(x) = vpn0(va)
  BY <1>4, Digits, Zenon
<1>6. ASSUME NEW w \in 0 .. (VPages - 1), vpn2(w) = vpn2(va), vpn1(w) = vpn1(va), vpn0(w) = vpn0(va)
      PROVE  w = va % VPages
  BY <1>2, <1>3, <1>6, Zenon
<1> QED BY <1>2, <1>5, <1>6, Zenon

\* A cut page number can be cut before or after an offset is added.
LEMMA CellOfCut ==
  ASSUME NEW va \in Nat, NEW k \in Nat
  PROVE  ((va % VPages) + k) % VPages = Cell(va, k) /\ Cell(va, k) \in 0 .. (VPages - 1)
<1>1. VPages \in Nat \ {0}
  BY VSpaceAssumption DEF VPages
<1> DEFINE P == VPages
           d == va \div P
           a == va % P
           e == (a + k) \div P
           r == (a + k) % P
<1>2. d \in Int /\ a \in 0 .. (P - 1) /\ va = P * d + a
  BY <1>1, DivMod
<1>3. e \in Int /\ r \in 0 .. (P - 1) /\ a + k = P * e + r
  <2>1. va % P \in 0 .. (P - 1)
    BY <1>2
  <2>2. a + k \in Int
    BY <1>1, <2>1
  <2> HIDE DEF a
  <2> QED BY <1>1, <2>2, DivMod, Zenon
<1> HIDE DEF P, d, a, e, r
<1>4. P \in Nat \ {0}
  BY <1>1 DEF P
<1>5. va + k = P * (d + e) + r /\ d + e \in Int
  BY <1>2, <1>3, <1>4
<1>6. (va + k) % P = r
  <2>1. (P * (d + e) + r) % P = r
    BY <1>3, <1>4, <1>5, DivUnique, Zenon
  <2> QED BY <1>5, <2>1, Zenon
<1> QED BY <1>3, <1>6 DEF Cell, r, a, P

-----------------------------------------------------------------------------
\* The tables of one space.

MemT == [0 .. (Top - 1) -> [Entries -> PteRec \cup {NoPte}]]

\* S are the pages of the tables that a walk from r meets, and they form a tree.
SpaceOK(m, r, S) ==
  /\ m \in MemT
  /\ S \subseteq 0 .. (Top - 1)
  /\ S = {r} \cup Below1(m, r) \cup Below2(m, r)
  /\ Tree(m, r)

\* What a walk from r finds by the indices a, b and c.
Walk(m, r, a, b, c) ==
  IF m[r][a] = NoPte THEN NoPte
  ELSE IF m[m[r][a].ppn][b] = NoPte THEN NoPte
  ELSE m[m[m[r][a].ppn][b].ppn][c]

\* The tables of all levels are there for the indices a and b.
HasT(m, r, a, b) == m[r][a] # NoPte /\ m[m[r][a].ppn][b] # NoPte

\* The page of the last table.
Leaf(m, r, a, b) == m[m[r][a].ppn][b].ppn

\* Two sets of pages and the entries between them.
TreeParts(m, r, A, B) ==
  /\ m \in MemT
  /\ {r} \cup A \cup B \subseteq 0 .. (Top - 1)
  /\ r \notin A /\ r \notin B
  /\ \A x \in A : x \notin B
  /\ \A j \in Entries : m[r][j] # NoPte => m[r][j].ppn \in A
  /\ \A x \in A : \E j \in Entries : m[r][j] # NoPte /\ m[r][j].ppn = x
  /\ \A x \in A, j \in Entries : m[x][j] # NoPte => m[x][j].ppn \in B
  /\ \A y \in B : \E x \in A, j \in Entries : m[x][j] # NoPte /\ m[x][j].ppn = y
  /\ \A j, k \in Entries : m[r][j] # NoPte /\ m[r][k] # NoPte /\ m[r][j].ppn = m[r][k].ppn => j = k
  /\ \A x, y \in A, j, k \in Entries :
       m[x][j] # NoPte /\ m[y][k] # NoPte /\ m[x][j].ppn = m[y][k].ppn => x = y /\ j = k

\* A walk ends in the last table, if there is one.
LEMMA WalkByLeaf ==
  ASSUME NEW m, NEW r, NEW a, NEW b, NEW c
  PROVE  Walk(m, r, a, b, c) = IF HasT(m, r, a, b) THEN m[Leaf(m, r, a, b)][c] ELSE NoPte
BY Zenon DEF Walk, HasT, Leaf

\* The tree, said entry by entry.
LEMMA TreeFacts ==
  ASSUME NEW m, NEW r, NEW S, SpaceOK(m, r, S)
  PROVE  /\ TreeParts(m, r, Below1(m, r), Below2(m, r))
         /\ S = {r} \cup Below1(m, r) \cup Below2(m, r)
         /\ r \in S /\ S \subseteq 0 .. (Top - 1) /\ m \in MemT
         /\ \A x \in S, i \in Entries : m[x][i] \in PteRec \cup {NoPte}
<1>1. m \in MemT /\ S \subseteq 0 .. (Top - 1) /\ S = {r} \cup Below1(m, r) \cup Below2(m, r) /\ Tree(m, r)
  BY DEF SpaceOK
<1>2. \A x \in S, i \in Entries : m[x][i] \in PteRec \cup {NoPte}
  BY <1>1 DEF MemT
<1>3. \A i \in Entries : m[r][i] # NoPte => m[r][i].ppn \in Below1(m, r)
  BY DEF Below1, Links
<1>4. \A x \in Below1(m, r) : \E i \in Entries : m[r][i] # NoPte /\ m[r][i].ppn = x
  BY DEF Below1, Links
<1>5. \A x \in Below1(m, r), i \in Entries : m[x][i] # NoPte => m[x][i].ppn \in Below2(m, r)
  BY DEF Below2, Links
<1>6. \A y \in Below2(m, r) : \E x \in Below1(m, r), i \in Entries : m[x][i] # NoPte /\ m[x][i].ppn = y
  BY DEF Below2, Links
<1>7. r \notin Below1(m, r) /\ r \notin Below2(m, r) /\ \A x \in S : ~(x \in Below1(m, r) /\ x \in Below2(m, r))
  BY <1>1 DEF Tree
<1>8. \A x, y \in {r} \cup Below1(m, r) : \A i, j \in Entries :
        m[x][i] # NoPte /\ m[y][j] # NoPte /\ m[x][i].ppn = m[y][j].ppn => x = y /\ i = j
  BY <1>1 DEF Tree, Links
<1>9. TreeParts(m, r, Below1(m, r), Below2(m, r))
  BY <1>1, <1>3, <1>4, <1>5, <1>6, <1>7, <1>8 DEF TreeParts
<1> QED BY <1>1, <1>2, <1>9

\* They make a tree.
LEMMA TreeMade ==
  ASSUME NEW m, NEW r, NEW A, NEW B, TreeParts(m, r, A, B)
  PROVE  SpaceOK(m, r, {r} \cup A \cup B) /\ Below1(m, r) = A /\ Below2(m, r) = B
<1> USE DEF TreeParts
<1>1. Below1(m, r) = A
  BY DEF Below1, Links
<1>2. Below2(m, r) = B
  <2>1. \A y : y \in Below2(m, r) <=> \E x \in A, i \in Entries : m[x][i] # NoPte /\ m[x][i].ppn = y
    BY <1>1 DEF Below2, Links
  <2>2. \A y : y \in B <=> \E x \in A, i \in Entries : m[x][i] # NoPte /\ m[x][i].ppn = y
    OBVIOUS
  <2> HIDE DEF TreeParts
  <2> QED BY <2>1, <2>2, Zenon
<1>3. Tree(m, r)
  <2>1. \A x, y \in {r} \cup A : \A i \in Links(m, x), j \in Links(m, y) :
           m[x][i].ppn = m[y][j].ppn => x = y /\ i = j
    BY DEF Links
  <2> QED BY <1>1, <1>2, <2>1, Zenon DEF Tree
<1> QED BY <1>1, <1>2, <1>3, Zenon DEF SpaceOK

SameSpace(m, m2, r, S) ==
  /\ SpaceOK(m2, r, S)
  /\ \A a, b, c \in Entries : Walk(m2, r, a, b, c) = Walk(m, r, a, b, c)
  /\ \A a, b \in Entries : HasT(m2, r, a, b) = HasT(m, r, a, b)

\* Walks see only what is in the tables of the space.
LEMMA FrameSpace ==
  ASSUME NEW m, NEW m2 \in MemT, NEW r, NEW S, SpaceOK(m, r, S),
         \A x \in S : m2[x] = m[x]
  PROVE  SameSpace(m, m2, r, S)
<1> USE DEF SameSpace
<1> DEFINE A == Below1(m, r)
           B == Below2(m, r)
<1>1. TreeParts(m, r, A, B) /\ S = {r} \cup A \cup B
  BY TreeFacts
<1> HIDE DEF A, B
<1>2. TreeParts(m2, r, A, B)
  BY <1>1 DEF TreeParts
<1>3. SpaceOK(m2, r, S)
  BY <1>1, <1>2, TreeMade
<1>4. \A a, b \in Entries : HasT(m2, r, a, b) = HasT(m, r, a, b)
  BY <1>1 DEF HasT, TreeParts
<1>5. \A a, b \in Entries : HasT(m, r, a, b) => m2[m[r][a].ppn] = m[m[r][a].ppn] /\ m2[Leaf(m, r, a, b)] = m[Leaf(m, r, a, b)]
  BY <1>1, ZenonT(60) DEF HasT, Leaf, TreeParts
<1>6. m2[r] = m[r]
  BY <1>1, Zenon
<1>7. \A a, b, c \in Entries : Walk(m2, r, a, b, c) = Walk(m, r, a, b, c)
  BY <1>4, <1>5, <1>6, WalkByLeaf, Zenon DEF Leaf
<1> QED BY <1>3, <1>4, <1>7

\* The memory after a new table is put under entry i of table t.
Hung(m, page, t, i) == [[m EXCEPT ![page] = EmptyTable] EXCEPT ![t][i] = Pte(page, {})]

\* What it holds, table by table.
LEMMA HungFacts ==
  ASSUME NEW m \in MemT, NEW page \in 0 .. (Top - 1), NEW t \in 0 .. (Top - 1), t # page,
         NEW i \in Entries
  PROVE  /\ Hung(m, page, t, i) \in MemT
         /\ \A x \in 0 .. (Top - 1) : x # page /\ x # t => Hung(m, page, t, i)[x] = m[x]
         /\ \A j \in Entries : Hung(m, page, t, i)[page][j] = NoPte
         /\ \A j \in Entries : j # i => Hung(m, page, t, i)[t][j] = m[t][j]
         /\ Hung(m, page, t, i)[t][i] # NoPte
         /\ Hung(m, page, t, i)[t][i].ppn = page
<1>1. page \in Nat /\ Pte(page, {}) \in PteRec /\ Pte(page, {}) # NoPte /\ Pte(page, {}).ppn = page
  <2>1. page \in Nat
    BY VSpaceAssumption
  <2>2. Pte(page, {}) \in PteRec
    BY <2>1 DEF Pte, PteRec
  <2> QED BY <2>1, <2>2, VSpaceAssumption, Zenon DEF Pte
<1>2. EmptyTable \in [Entries -> PteRec \cup {NoPte}] /\ \A j \in Entries : EmptyTable[j] = NoPte
  BY DEF EmptyTable
<1> DEFINE m1 == [m EXCEPT ![page] = EmptyTable]
<1>3. m1 \in MemT /\ m1[page] = EmptyTable /\ \A x \in 0 .. (Top - 1) : x # page => m1[x] = m[x]
  BY <1>2 DEF MemT
<1> HIDE DEF m1
<1> DEFINE e == Pte(page, {})
           m2 == [m1 EXCEPT ![t][i] = e]
<1> HIDE DEF e
<1>4. e \in PteRec
  BY <1>1 DEF e
<1>5. m2 \in MemT /\ m2[t][i] = e /\ (\A j \in Entries : j # i => m2[t][j] = m1[t][j])
      /\ \A x \in 0 .. (Top - 1) : x # t => m2[x] = m1[x]
  BY <1>3, <1>4 DEF MemT
<1>6. m2 = Hung(m, page, t, i)
  BY DEF Hung, m1, e
<1> HIDE DEF m2
<1>7. m2[t][i] # NoPte /\ m2[t][i].ppn = page
  BY <1>1, <1>5 DEF e
<1>8. \A j \in Entries : m2[page][j] = NoPte
  BY <1>2, <1>3, <1>5
<1>9. \A j \in Entries : j # i => m2[t][j] = m[t][j]
  BY <1>3, <1>5
<1> QED BY <1>3, <1>5, <1>6, <1>7, <1>8, <1>9, Zenon

\* One page was added to the tables, and no walk ends elsewhere.
GrowsTo(m, m2, r, S, page) ==
  /\ SpaceOK(m2, r, S \cup {page})
  /\ \A x \in Below1(m, r) : x \in Below1(m2, r)
  /\ \A a, b, c \in Entries : Walk(m2, r, a, b, c) = Walk(m, r, a, b, c)
  /\ \A a, b \in Entries : HasT(m, r, a, b) => HasT(m2, r, a, b)

\* A new table under an empty entry of a table that is not of the last level: the
\* tables stay a tree, and no translation changes.
LEMMA GrowSpace ==
  ASSUME NEW m, NEW r, NEW S, SpaceOK(m, r, S),
         NEW t, t \in {r} \cup Below1(m, r), NEW i \in Entries, m[t][i] = NoPte,
         NEW page \in 0 .. (Top - 1), page \notin S,
         NEW m2, m2 = Hung(m, page, t, i)
  PROVE  GrowsTo(m, m2, r, S, page)
<1> USE DEF GrowsTo
<1> DEFINE A == Below1(m, r)
           B == Below2(m, r)
<1>0. TreeParts(m, r, A, B) /\ S = {r} \cup A \cup B
  BY TreeFacts
<1> HIDE DEF A, B
<1>1. /\ m \in MemT /\ r \in S /\ S \subseteq 0 .. (Top - 1) /\ S = {r} \cup A \cup B
      /\ r \notin A /\ r \notin B
      /\ \A x \in A : x \notin B
      /\ \A j \in Entries : m[r][j] # NoPte => m[r][j].ppn \in A
      /\ \A x \in A : \E j \in Entries : m[r][j] # NoPte /\ m[r][j].ppn = x
      /\ \A x \in A, j \in Entries : m[x][j] # NoPte => m[x][j].ppn \in B
      /\ \A y \in B : \E x \in A, j \in Entries : m[x][j] # NoPte /\ m[x][j].ppn = y
      /\ \A j, k \in Entries : m[r][j] # NoPte /\ m[r][k] # NoPte /\ m[r][j].ppn = m[r][k].ppn => j = k
      /\ \A x, y \in A, j, k \in Entries :
              m[x][j] # NoPte /\ m[y][k] # NoPte /\ m[x][j].ppn = m[y][k].ppn => x = y /\ j = k
  BY <1>0, Zenon DEF TreeParts
<1>t. t = r \/ t \in A
  BY DEF A
<1>2. t \in S /\ t # page /\ page \notin A /\ page \notin B /\ page # r
  BY <1>1, <1>t
<1>3. /\ m2 \in MemT
      /\ \A x \in S : x # t => m2[x] = m[x]
      /\ \A j \in Entries : m2[page][j] = NoPte
      /\ \A j \in Entries : j # i => m2[t][j] = m[t][j]
      /\ m2[t][i] # NoPte /\ m2[t][i].ppn = page
  <2>1. page \in 0 .. (Top - 1) /\ t \in 0 .. (Top - 1) /\ \A x \in S : x # page /\ x \in 0 .. (Top - 1)
    BY <1>1, <1>2
  <2> DEFINE h == Hung(m, page, t, i)
  <2>2. /\ h \in MemT
        /\ \A x \in 0 .. (Top - 1) : x # page /\ x # t => h[x] = m[x]
        /\ \A j \in Entries : h[page][j] = NoPte
        /\ \A j \in Entries : j # i => h[t][j] = m[t][j]
        /\ h[t][i] # NoPte
        /\ h[t][i].ppn = page
    <3>1. m \in MemT /\ t # page /\ page \in 0 .. (Top - 1) /\ t \in 0 .. (Top - 1)
      BY <1>1, <1>2, <2>1
    <3> QED BY <3>1, HungFacts
  <2>3. m2 = h
    OBVIOUS
  <2> HIDE DEF h
  <2> QED BY <2>1, <2>2, <2>3
<1>4. ASSUME NEW a \in Entries, NEW b \in Entries, NEW c \in Entries
      PROVE  Walk(m2, r, a, b, c) = Walk(m, r, a, b, c)
  <2>1. CASE t = r
    <3>1. \A x \in A \cup B : m2[x] = m[x]
      BY <1>1, <1>3, <2>1
    <3>2. CASE m[r][a] # NoPte
      <4>1. m2[r][a] = m[r][a] /\ m[r][a].ppn \in A
        BY <1>1, <1>3, <2>1, <3>2
      <4> DEFINE x == m[r][a].ppn
      <4>2. m2[x][b] = m[x][b] /\ (m[x][b] # NoPte => m[x][b].ppn \in B)
        BY <1>1, <3>1, <4>1, Zenon
      <4> QED BY <3>1, <4>1, <4>2, Zenon DEF Walk
    <3>3. CASE m[r][a] = NoPte
      <4>1. m2[r][a] = NoPte \/ (m2[r][a] # NoPte /\ m2[r][a].ppn = page /\ m2[page][b] = NoPte)
        BY <1>3, <2>1, <3>3
      <4> QED BY <3>3, <4>1, Zenon DEF Walk
    <3> QED BY <3>2, <3>3
  <2>2. CASE t \in A
    <3>1. m2[r] = m[r] /\ \A x \in B : m2[x] = m[x]
      BY <1>1, <1>3, <2>2
    <3>2. CASE m[r][a] # NoPte
      <4> DEFINE x == m[r][a].ppn
      <4>1. m2[r][a] = m[r][a] /\ x \in A /\ x \in S
        BY <1>1, <3>1, <3>2
      <4>2. CASE m[x][b] # NoPte
        <5>1. m2[x][b] = m[x][b] /\ m[x][b].ppn \in B
          BY <1>1, <1>3, <4>1, <4>2, ZenonT(60)
        <5> QED BY <3>1, <4>1, <5>1, Zenon DEF Walk
      <4>3. CASE m[x][b] = NoPte
        <5>1. m2[x][b] = NoPte \/ (m2[x][b] # NoPte /\ m2[x][b].ppn = page /\ m2[page][c] = NoPte)
          BY <1>3, <4>1, <4>3
        <5> QED BY <4>1, <4>3, <5>1, Zenon DEF Walk
      <4> QED BY <4>2, <4>3
    <3>3. CASE m[r][a] = NoPte
      BY <3>1, <3>3 DEF Walk
    <3> QED BY <3>2, <3>3
  <2> QED BY <1>t, <2>1, <2>2
<1>5. \A a, b \in Entries : HasT(m, r, a, b) => HasT(m2, r, a, b)
  <2>1. CASE t = r
    BY <1>1, <1>2, <1>3, <2>1 DEF HasT
  <2>2. CASE t \in A
    BY <1>1, <1>2, <1>3, <2>2 DEF HasT
  <2> QED BY <1>t, <2>1, <2>2
<1>6. CASE t = r
  <2> DEFINE A2 == A \cup {page}
  <2>1. /\ {r} \cup A2 \cup B \subseteq 0 .. (Top - 1)
        /\ r \notin A2 /\ r \notin B
        /\ \A x \in A2 : x \notin B
    BY <1>1, <1>2
  <2>2. \A j \in Entries : m2[r][j] # NoPte => m2[r][j].ppn \in A2
    BY <1>1, <1>3, <1>6
  <2>3. \A x \in A2 : \E j \in Entries : m2[r][j] # NoPte /\ m2[r][j].ppn = x
    BY <1>1, <1>2, <1>3, <1>6
  <2>4. \A x \in A : m2[x] = m[x]
    BY <1>1, <1>3, <1>6
  <2>5. \A x \in A2, j \in Entries : m2[x][j] # NoPte => m2[x][j].ppn \in B
    BY <1>1, <1>3, <2>4
  <2>6. \A y \in B : \E x \in A2, j \in Entries : m2[x][j] # NoPte /\ m2[x][j].ppn = y
    BY <1>1, <2>4
  <2>7. \A j, k \in Entries : m2[r][j] # NoPte /\ m2[r][k] # NoPte /\ m2[r][j].ppn = m2[r][k].ppn => j = k
    BY <1>1, <1>2, <1>3, <1>6
  <2>8. \A x, y \in A2, j, k \in Entries :
              m2[x][j] # NoPte /\ m2[y][k] # NoPte /\ m2[x][j].ppn = m2[y][k].ppn => x = y /\ j = k
    BY <1>1, <1>3, <2>4
  <2> HIDE DEF A2
  <2>9. SpaceOK(m2, r, {r} \cup A2 \cup B) /\ Below1(m2, r) = A2
    <3>1. TreeParts(m2, r, A2, B)
      BY <1>3, <2>1, <2>2, <2>3, <2>5, <2>6, <2>7, <2>8, Zenon DEF TreeParts
    <3> QED BY <3>1, TreeMade
  <2>10. {r} \cup A2 \cup B = S \cup {page} /\ page \in A2 /\ \A x \in A : x \in A2
    BY <1>1 DEF A2
  <2>11. SpaceOK(m2, r, S \cup {page}) /\ page \in Below1(m2, r) /\ \A x \in A : x \in Below1(m2, r)
    BY <2>9, <2>10
  <2> QED BY <1>4, <1>5, <2>11 DEF A
<1>7. CASE t \in A
  <2> DEFINE B2 == B \cup {page}
  <2>0. t # r
    BY <1>1, <1>7
  <2>1. /\ {r} \cup A \cup B2 \subseteq 0 .. (Top - 1)
        /\ r \notin A /\ r \notin B2
        /\ \A x \in A : x \notin B2
    BY <1>1, <1>2
  <2>2. m2[r] = m[r]
    BY <1>1, <1>3, <2>0
  <2>3. /\ \A j \in Entries : m2[r][j] # NoPte => m2[r][j].ppn \in A
        /\ \A x \in A : \E j \in Entries : m2[r][j] # NoPte /\ m2[r][j].ppn = x
    BY <1>1, <2>2
  <2>4. \A x \in A : x # t => m2[x] = m[x]
    BY <1>1, <1>3
  <2>5. \A x \in A, j \in Entries : m2[x][j] # NoPte => m2[x][j].ppn \in B2
    BY <1>1, <1>3, <2>4
  <2>6. \A y \in B2 : \E x \in A, j \in Entries : m2[x][j] # NoPte /\ m2[x][j].ppn = y
    <3> SUFFICES ASSUME NEW y \in B2 PROVE \E x \in A, j \in Entries : m2[x][j] # NoPte /\ m2[x][j].ppn = y
      OBVIOUS
    <3>1. CASE y = page
      BY <1>3, <1>7, <3>1
    <3>2. CASE y \in B
      <4>1. PICK x \in A, j \in Entries : m[x][j] # NoPte /\ m[x][j].ppn = y
        BY <1>1, <3>2
      <4>2. m2[x][j] = m[x][j]
        BY <1>3, <2>4, <4>1
      <4> QED BY <4>1, <4>2
    <3> QED BY <3>1, <3>2
  <2>7. \A j, k \in Entries : m2[r][j] # NoPte /\ m2[r][k] # NoPte /\ m2[r][j].ppn = m2[r][k].ppn => j = k
    BY <1>1, <2>2
  <2>8. \A x, y \in A, j, k \in Entries :
              m2[x][j] # NoPte /\ m2[y][k] # NoPte /\ m2[x][j].ppn = m2[y][k].ppn => x = y /\ j = k
    <3>1. \A x \in A, j \in Entries : ~(x = t /\ j = i) => m2[x][j] = m[x][j]
      BY <1>3, <2>4
    <3>2. \A x \in A, j \in Entries : ~(x = t /\ j = i) /\ m2[x][j] # NoPte => m2[x][j].ppn # page
      BY <1>1, <1>2, <3>1
    <3>3. \A x, y \in A, j, k \in Entries :
            /\ ~(x = t /\ j = i) /\ ~(y = t /\ k = i)
            /\ m2[x][j] # NoPte /\ m2[y][k] # NoPte /\ m2[x][j].ppn = m2[y][k].ppn
            => x = y /\ j = k
      <4>1. \A x, y \in A, j, k \in Entries :
              m[x][j] # NoPte /\ m[y][k] # NoPte /\ m[x][j].ppn = m[y][k].ppn => x = y /\ j = k
        BY <1>1, Zenon
      <4> SUFFICES ASSUME NEW x \in A, NEW y \in A, NEW j \in Entries, NEW k \in Entries,
                          ~(x = t /\ j = i), ~(y = t /\ k = i),
                          m2[x][j] # NoPte, m2[y][k] # NoPte, m2[x][j].ppn = m2[y][k].ppn
                   PROVE  x = y /\ j = k
        OBVIOUS
      <4>2. m2[x][j] = m[x][j] /\ m2[y][k] = m[y][k]
        BY <3>1, Zenon
      <4> QED BY <4>1, <4>2
    <3> QED BY <1>3, <3>2, <3>3
  <2> HIDE DEF B2
  <2>9. SpaceOK(m2, r, {r} \cup A \cup B2) /\ Below1(m2, r) = A
    <3>1. TreeParts(m2, r, A, B2)
      BY <1>3, <2>1, <2>3, <2>5, <2>6, <2>7, <2>8, Zenon DEF TreeParts
    <3> QED BY <3>1, TreeMade, Zenon
  <2>10. {r} \cup A \cup B2 = S \cup {page}
    BY <1>1, Zenon DEF B2
  <2>11. SpaceOK(m2, r, S \cup {page}) /\ \A x \in A : x \in Below1(m2, r)
    BY <2>9, <2>10, Zenon
  <2> QED BY <1>4, <1>5, <2>0, <2>11 DEF A
<1> QED BY <1>t, <1>6, <1>7

\* Only the walk by a, b and c ends elsewhere, at e.
OneWalk(m, m2, r, a, b, c, e) ==
  \A a2, b2, c2 \in Entries :
    Walk(m2, r, a2, b2, c2) = IF a2 = a /\ b2 = b /\ c2 = c THEN e ELSE Walk(m, r, a2, b2, c2)

\* The memory of a space with one translation written.
LeafWritten(m, m2, r, S, a, b, c, e) ==
  /\ SpaceOK(m2, r, S)
  /\ \A x \in 0 .. (Top - 1) : x \notin S => m2[x] = m[x]
  /\ OneWalk(m, m2, r, a, b, c, e)
  /\ \A a2, b2 \in Entries : HasT(m2, r, a2, b2) <=> HasT(m, r, a2, b2)

\* An entry of a last table is written: the tree is as before, and one translation
\* changes.
LEMMA WriteLeaf ==
  ASSUME NEW m, NEW r, NEW S, SpaceOK(m, r, S),
         NEW a \in Entries, NEW b \in Entries, NEW c \in Entries, HasT(m, r, a, b),
         NEW e \in PteRec \cup {NoPte},
         NEW m2, m2 = [m EXCEPT ![Leaf(m, r, a, b)][c] = e]
  PROVE  LeafWritten(m, m2, r, S, a, b, c, e)
<1> DEFINE A == Below1(m, r)
           B == Below2(m, r)
           z == Leaf(m, r, a, b)
<1>0. TreeParts(m, r, A, B) /\ S = {r} \cup A \cup B /\ S \subseteq 0 .. (Top - 1) /\ m \in MemT
  BY TreeFacts
<1> HIDE DEF A, B
<1>1. z \in B /\ \A a2, b2 \in Entries : HasT(m, r, a2, b2) => m[r][a2].ppn \in A /\ Leaf(m, r, a2, b2) \in B
  BY <1>0, Zenon DEF TreeParts, HasT, Leaf
<1>2. z \notin A /\ z # r /\ z \in 0 .. (Top - 1)
  BY <1>0, <1>1 DEF TreeParts
<1>2a. m2 = [m EXCEPT ![z][c] = e]
  OBVIOUS
<1> HIDE DEF z
<1>3. /\ m2 \in MemT /\ m2[z][c] = e
      /\ \A x \in 0 .. (Top - 1) : x # z => m2[x] = m[x]
      /\ \A j \in Entries : j # c => m2[z][j] = m[z][j]
  <2>1. m[z] \in [Entries -> PteRec \cup {NoPte}] /\ m \in MemT
    BY <1>0, <1>2 DEF MemT
  <2> DEFINE tab == [m[z] EXCEPT ![c] = e]
  <2>2. tab \in [Entries -> PteRec \cup {NoPte}] /\ tab[c] = e /\ \A j \in Entries : j # c => tab[j] = m[z][j]
    BY <2>1
  <2>3. m2 = [m EXCEPT ![z] = tab]
    BY <1>2a, Zenon
  <2> HIDE DEF tab
  <2> QED BY <1>2, <2>1, <2>2, <2>3, ZenonT(60) DEF MemT
<1>4. m2[r] = m[r] /\ \A x \in A : m2[x] = m[x]
  BY <1>0, <1>2, <1>3
<1>5. TreeParts(m2, r, A, B)
  <2>1. /\ \A j \in Entries : m2[r][j] # NoPte => m2[r][j].ppn \in A
        /\ \A x \in A : \E j \in Entries : m2[r][j] # NoPte /\ m2[r][j].ppn = x
        /\ \A j, k \in Entries : m2[r][j] # NoPte /\ m2[r][k] # NoPte /\ m2[r][j].ppn = m2[r][k].ppn => j = k
    BY <1>0, <1>4 DEF TreeParts
  <2>2. \A x \in A, j \in Entries : m2[x][j] # NoPte => m2[x][j].ppn \in B
    BY <1>0, <1>4 DEF TreeParts
  <2>3. \A y \in B : \E x \in A, j \in Entries : m2[x][j] # NoPte /\ m2[x][j].ppn = y
    <3> SUFFICES ASSUME NEW y \in B PROVE \E x \in A, j \in Entries : m2[x][j] # NoPte /\ m2[x][j].ppn = y
      OBVIOUS
    <3>1. PICK x \in A, j \in Entries : m[x][j] # NoPte /\ m[x][j].ppn = y
      BY <1>0, Zenon DEF TreeParts
    <3> QED BY <1>4, <3>1, Zenon
  <2>4. \A x, y \in A, j, k \in Entries :
          m2[x][j] # NoPte /\ m2[y][k] # NoPte /\ m2[x][j].ppn = m2[y][k].ppn => x = y /\ j = k
    <3> SUFFICES ASSUME NEW x \in A, NEW y \in A, NEW j \in Entries, NEW k \in Entries,
                        m2[x][j] # NoPte, m2[y][k] # NoPte, m2[x][j].ppn = m2[y][k].ppn
                 PROVE  x = y /\ j = k
      OBVIOUS
    <3>1. m2[x] = m[x] /\ m2[y] = m[y]
      BY <1>4, Zenon
    <3> QED BY <1>0, <3>1 DEF TreeParts
  <2> QED BY <1>0, <1>3, <2>1, <2>2, <2>3, <2>4, Zenon DEF TreeParts
<1>6. SpaceOK(m2, r, S)
  BY <1>0, <1>5, TreeMade
<1>7. \A a2, b2 \in Entries : HasT(m2, r, a2, b2) = HasT(m, r, a2, b2)
  <2> SUFFICES ASSUME NEW a2 \in Entries, NEW b2 \in Entries PROVE HasT(m2, r, a2, b2) = HasT(m, r, a2, b2)
    BY Zenon
  <2>1. m[r][a2] # NoPte => m2[m[r][a2].ppn] = m[m[r][a2].ppn]
    BY <1>0, <1>4, Zenon DEF TreeParts
  <2>2. HasT(m2, r, a2, b2) <=> HasT(m, r, a2, b2)
    BY <1>4, <2>1, Zenon DEF HasT
  <2>3. HasT(m2, r, a2, b2) \in BOOLEAN /\ HasT(m, r, a2, b2) \in BOOLEAN
    BY Zenon DEF HasT
  <2> QED BY <2>2, <2>3, Zenon
<1>8. \A a2, b2 \in Entries : HasT(m, r, a2, b2) => Leaf(m2, r, a2, b2) = Leaf(m, r, a2, b2)
  BY <1>1, <1>4, Zenon DEF Leaf
<1>9. \A a2, b2 \in Entries : HasT(m, r, a2, b2) /\ Leaf(m, r, a2, b2) = z => a2 = a /\ b2 = b
  <2> SUFFICES ASSUME NEW a2 \in Entries, NEW b2 \in Entries, HasT(m, r, a2, b2), Leaf(m, r, a2, b2) = z
               PROVE  a2 = a /\ b2 = b
    OBVIOUS
  <2> DEFINE x == m[r][a].ppn
             y == m[r][a2].ppn
  <2>1. x \in A /\ y \in A /\ m[x][b] # NoPte /\ m[y][b2] # NoPte /\ m[x][b].ppn = m[y][b2].ppn
    BY <1>1, Zenon DEF HasT, Leaf, z
  <2>2. x = y /\ b2 = b
    <3> HIDE DEF x, y
    <3> QED BY <1>0, <2>1 DEF TreeParts
  <2>3. m[r][a] # NoPte /\ m[r][a2] # NoPte
    BY Zenon DEF HasT
  <2> QED BY <1>0, <2>2, <2>3, Zenon DEF TreeParts
<1>10. ASSUME NEW a2 \in Entries, NEW b2 \in Entries, NEW c2 \in Entries
       PROVE  Walk(m2, r, a2, b2, c2) = IF a2 = a /\ b2 = b /\ c2 = c THEN e ELSE Walk(m, r, a2, b2, c2)
  <2>1. CASE ~HasT(m, r, a2, b2)
    BY <1>7, <2>1, WalkByLeaf, Zenon
  <2>2. CASE HasT(m, r, a2, b2)
    <3> DEFINE y == Leaf(m, r, a2, b2)
    <3>1. Walk(m, r, a2, b2, c2) = m[y][c2] /\ Walk(m2, r, a2, b2, c2) = m2[y][c2]
      BY <1>7, <1>8, <2>2, WalkByLeaf, Zenon
    <3>2. y \in 0 .. (Top - 1) /\ (y = z <=> a2 = a /\ b2 = b)
      BY <1>0, <1>1, <1>9, <2>2 DEF z
    <3> HIDE DEF y
    <3>3. CASE y = z
      BY <1>3, <3>1, <3>2, <3>3
    <3>4. CASE y # z
      BY <1>3, <3>1, <3>2, <3>4
    <3> QED BY <3>3, <3>4
  <2> QED BY <2>1, <2>2, Zenon
<1>11. \A x \in 0 .. (Top - 1) : x \notin S => m2[x] = m[x]
  BY <1>0, <1>1, <1>3
<1> QED BY <1>6, <1>7, <1>10, <1>11, Zenon DEF LeafWritten, OneWalk

NewRoot(m, m2, page) ==
  /\ m2 \in MemT /\ SpaceOK(m2, page, {page})
  /\ \A x \in 0 .. (Top - 1) : x # page => m2[x] = m[x]
  /\ \A a, b, c \in Entries : Walk(m2, page, a, b, c) = NoPte

\* A new root: its table is empty.
LEMMA NewSpace ==
  ASSUME NEW m \in MemT, NEW page \in 0 .. (Top - 1),
         NEW m2, m2 = [m EXCEPT ![page] = EmptyTable]
  PROVE  NewRoot(m, m2, page)
<1> USE DEF NewRoot
<1>1. EmptyTable \in [Entries -> PteRec \cup {NoPte}] /\ \A j \in Entries : EmptyTable[j] = NoPte
  BY DEF EmptyTable
<1>2. m2 \in MemT /\ m2[page] = EmptyTable /\ \A x \in 0 .. (Top - 1) : x # page => m2[x] = m[x]
  BY <1>1 DEF MemT
<1>3. \A j \in Entries : m2[page][j] = NoPte
  BY <1>1, <1>2
<1>4. TreeParts(m2, page, {}, {})
  BY <1>2, <1>3 DEF TreeParts
<1>5. SpaceOK(m2, page, {page} \cup {} \cup {})
  BY <1>4, TreeMade
<1>6. {page} \cup {} \cup {} = {page}
  OBVIOUS
<1>7. SpaceOK(m2, page, {page})
  BY <1>5, <1>6
<1> QED BY <1>2, <1>3, <1>7, Zenon DEF Walk

-----------------------------------------------------------------------------
\* A walk that may add tables.

StRec == [mem : MemT, next : 0 .. Top, root : 0 .. (Top - 1), pt : Seq(0 .. (Top - 1)), p : Nat,
          err : BOOLEAN]

PtSet(pt) == {pt[k] : k \in 1 .. Len(pt)}

NoTwice(pt) == \A j, k \in 1 .. Len(pt) : pt[j] = pt[k] => j = k

\* The state of a walk accounts for all tables of its space, and they lie below
\* the pages that are still free.
StInv(st) ==
  /\ st \in StRec
  /\ Len(st.pt) <= MaxPt
  /\ NoTwice(st.pt)
  /\ SpaceOK(st.mem, st.root, PtSet(st.pt))
  /\ \A x \in PtSet(st.pt) : x < st.next /\ alloc_color_is_valid(st.p, x % NumColors)

\* What a walk may do: new tables are made of free pages, nothing else is written.
Extended(s, t) ==
  /\ t.root = s.root /\ t.p = s.p /\ s.next <= t.next
  /\ \A x \in PtSet(s.pt) : x \in PtSet(t.pt)
  /\ \A x \in PtSet(t.pt) : x \notin PtSet(s.pt) => x >= s.next
  /\ \A x \in 0 .. (Top - 1) : x \notin PtSet(t.pt) => t.mem[x] = s.mem[x]
  /\ \A a, b \in Entries : HasT(s.mem, s.root, a, b) => HasT(t.mem, t.root, a, b)

SameWalks(s, t) ==
  \A a, b, c \in Entries : Walk(t.mem, t.root, a, b, c) = Walk(s.mem, s.root, a, b, c)

\* A sequence with a new last page.
LEMMA AppendPage ==
  ASSUME NEW pt \in Seq(0 .. (Top - 1)), NEW x \in 0 .. (Top - 1)
  PROVE  /\ Append(pt, x) \in Seq(0 .. (Top - 1)) /\ Len(Append(pt, x)) = Len(pt) + 1
         /\ PtSet(Append(pt, x)) = PtSet(pt) \cup {x}
         /\ NoTwice(pt) /\ x \notin PtSet(pt) => NoTwice(Append(pt, x))
<1> DEFINE q == Append(pt, x)
<1>1. /\ q \in Seq(0 .. (Top - 1)) /\ Len(pt) \in Nat /\ Len(q) = Len(pt) + 1 /\ q[Len(pt) + 1] = x
      /\ \A k \in 1 .. Len(pt) : q[k] = pt[k]
  OBVIOUS
<1> HIDE DEF q
<1>2. PtSet(q) = PtSet(pt) \cup {x}
  <2>1. \A y \in PtSet(q) : y \in PtSet(pt) \cup {x}
    BY <1>1 DEF PtSet
  <2>2. \A y \in PtSet(pt) : y \in PtSet(q)
    BY <1>1 DEF PtSet
  <2>3. Len(q) \in 1 .. Len(q)
    BY <1>1
  <2>4. x \in PtSet(q)
    BY <1>1, <2>3 DEF PtSet
  <2> QED BY <2>1, <2>2, <2>4, Zenon
<1>3. NoTwice(pt) /\ x \notin PtSet(pt) => NoTwice(q)
  <2>1. \A k \in 1 .. Len(pt) : pt[k] \in PtSet(pt)
    BY DEF PtSet
  <2>2. \A k \in 1 .. Len(q) : k \in 1 .. Len(pt) \/ k = Len(pt) + 1
    BY <1>1
  <2> QED BY <1>1, <2>1, <2>2 DEF NoTwice
<1> QED BY <1>1, <1>2, <1>3 DEF q

\* The allocator's next page for a partition.
LEMMA ColourFound ==
  ASSUME NEW n \in Nat, NEW p \in Nat
  PROVE  /\ FrameFor(n, p) \in n .. (n + NumColors - 1)
         /\ FrameFor(n, p) % NumColors = alloc_color_for_partition(p)
<1> DEFINE c == alloc_color_for_partition(p)
           N == NumColors
           d == n \div N
           r == n % N
           x == N * d + c
           y == N * (d + 1) + c
<1>1. N \in Nat \ {0} /\ n \in Int
  BY AllocAssumption
<1>2. c \in 0 .. (N - 1)
  <2>1. p * ColorsPerPartition \in Int
    BY AllocAssumption
  <2> QED BY <1>1, <2>1, DivMod, Zenon DEF alloc_color_for_partition
<1>3. d \in Int /\ r \in 0 .. (N - 1) /\ n = N * d + r
  BY <1>1, DivMod, Zenon
<1> HIDE DEF c, d, r
<1>4. x % N = c /\ y % N = c
  <2>1. d + 1 \in Int
    BY <1>3
  <2>2. x % N = c
    BY <1>1, <1>2, <1>3, DivUnique
  <2>3. y % N = c
    BY <1>1, <1>2, <2>1, DivUnique
  <2> QED BY <2>2, <2>3
<1>5. y = x + N /\ x \in Int /\ x = n - r + c
  BY <1>1, <1>2, <1>3
<1> HIDE DEF x, y
<1>6. \E z \in n .. (n + N - 1) : z % N = c
  <2>1. CASE c >= r
    <3>1. x \in n .. (n + N - 1)
      BY <1>1, <1>2, <1>3, <1>5, <2>1
    <3> QED BY <1>4, <3>1
  <2>2. CASE c < r
    <3>1. y \in n .. (n + N - 1)
      BY <1>1, <1>2, <1>3, <1>5, <2>2
    <3> QED BY <1>4, <3>1
  <2> QED BY <1>2, <1>3, <2>1, <2>2
<1> QED BY <1>6 DEF FrameFor, c

\* A page for a table: it is free, and of the colour of the partition.
LEMMA PageFound ==
  ASSUME NEW n \in 0 .. Top, NEW p \in Nat, NEW k \in Nat, CanAlloc(n, Top, p, k)
  PROVE  /\ FrameFor(n, p) \in Nat /\ n <= FrameFor(n, p) /\ FrameFor(n, p) + k \in 0 .. Top
         /\ alloc_color_is_valid(p, FrameFor(n, p) % NumColors)
<1>1. n \in Nat /\ Top \in Nat /\ NumColors \in Nat
  BY VSpaceAssumption, AllocAssumption
<1>2. FrameFor(n, p) \in n .. (n + NumColors - 1) /\ FrameFor(n, p) % NumColors = alloc_color_for_partition(p)
  BY <1>1, ColourFound
<1> QED BY <1>1, <1>2 DEF CanAlloc, alloc_color_is_valid

\* The fields after a new table was hung.
LEMMA GrownFields ==
  ASSUME NEW st \in StRec, NEW t \in 0 .. (Top - 1), NEW i \in Entries,
         NewPage(st) \in 0 .. (Top - 1), t # NewPage(st)
  PROVE  LET g == Grown(st, t, i)
         IN  /\ g \in StRec
             /\ g.mem = Hung(st.mem, NewPage(st), t, i)
             /\ g.next = NewPage(st) + 1
             /\ g.pt = Append(st.pt, NewPage(st))
             /\ g.root = st.root /\ g.p = st.p /\ g.err = st.err
<1> DEFINE x == NewPage(st)
           g1 == alloc_pt_page(st)
           g == Grown(st, t, i)
<1>0. x \in 0 .. (Top - 1) /\ t # x
  OBVIOUS
<1>1. g1 = [st EXCEPT !.mem[x] = EmptyTable, !.next = x + 1, !.pt = Append(@, x)]
  BY DEF alloc_pt_page
<1>2. g = [g1 EXCEPT !.mem[t][i] = Pte(x, {})]
  BY DEF Grown
<1> HIDE DEF x, g1, g
<1>3. /\ g1.mem = [st.mem EXCEPT ![x] = EmptyTable]
      /\ g1.next = x + 1 /\ g1.pt = Append(st.pt, x)
      /\ g1.root = st.root /\ g1.p = st.p /\ g1.err = st.err
      /\ g1 = [mem |-> g1.mem, next |-> g1.next, root |-> g1.root, pt |-> g1.pt, p |-> g1.p, err |-> g1.err]
  BY <1>1, Zenon DEF StRec
<1>4. /\ g.mem = [g1.mem EXCEPT ![t][i] = Pte(x, {})]
      /\ g.next = g1.next /\ g.pt = g1.pt /\ g.root = g1.root /\ g.p = g1.p /\ g.err = g1.err
      /\ g = [mem |-> g.mem, next |-> g.next, root |-> g.root, pt |-> g.pt, p |-> g.p, err |-> g.err]
  BY <1>2, <1>3, Zenon
<1>5. g.mem = Hung(st.mem, x, t, i)
  BY <1>3, <1>4, Zenon DEF Hung
<1>6. st.mem \in MemT /\ st.root \in 0 .. (Top - 1) /\ st.pt \in Seq(0 .. (Top - 1)) /\ st.p \in Nat /\ st.err \in BOOLEAN
  BY DEF StRec
<1>7. g.mem \in MemT
  BY <1>0, <1>5, <1>6, HungFacts
<1>8. g.pt \in Seq(0 .. (Top - 1))
  BY <1>0, <1>3, <1>4, <1>6, AppendPage
<1>9. g.next \in 0 .. Top
  <2>1. g.next = x + 1
    BY <1>3, <1>4, Zenon
  <2>2. x \in 0 .. (Top - 1)
    BY <1>0, Zenon
  <2> HIDE DEF x, g
  <2> QED BY <2>1, <2>2, VSpaceAssumption
<1>10. g \in StRec
  BY <1>3, <1>4, <1>6, <1>7, <1>8, <1>9, Zenon DEF StRec
<1> QED BY <1>3, <1>4, <1>5, <1>10, Zenon DEF x, g

\* Nothing is changed by a walk that does nothing.
LEMMA ExtendedSelf ==
  ASSUME NEW s, s.next \in Int
  PROVE  Extended(s, s)
BY DEF Extended

\* Two walks are one.
LEMMA ExtendedOnce ==
  ASSUME NEW s, NEW t, NEW u, s.next \in Int, t.next \in Int, u.next \in Int,
         PtSet(u.pt) \subseteq Int, Extended(s, t), Extended(t, u)
  PROVE  Extended(s, u)
<1>1. u.root = s.root /\ u.p = s.p /\ s.next <= u.next
  BY DEF Extended
<1>2. \A x \in PtSet(s.pt) : x \in PtSet(u.pt)
  BY DEF Extended
<1>3. \A x \in PtSet(u.pt) : x \notin PtSet(s.pt) => x >= s.next
  <2> SUFFICES ASSUME NEW x \in PtSet(u.pt), x \notin PtSet(s.pt) PROVE x >= s.next
    OBVIOUS
  <2>1. CASE x \in PtSet(t.pt)
    BY <2>1 DEF Extended
  <2>2. CASE x \notin PtSet(t.pt)
    <3>1. x >= t.next /\ s.next <= t.next /\ x \in Int
      BY <2>2 DEF Extended
    <3> QED BY <3>1
  <2> QED BY <2>1, <2>2
<1>4. \A x \in 0 .. (Top - 1) : x \notin PtSet(u.pt) => u.mem[x] = s.mem[x]
  BY DEF Extended
<1>5. \A a, b \in Entries : HasT(s.mem, s.root, a, b) => HasT(u.mem, u.root, a, b)
  BY DEF Extended
<1> QED BY <1>1, <1>2, <1>3, <1>4, <1>5, Zenon DEF Extended

\* The same for the states of walks.
LEMMA ExtendedTwice ==
  ASSUME NEW s, NEW t, NEW u, StInv(s), StInv(t), StInv(u), Extended(s, t), Extended(t, u)
  PROVE  Extended(s, u)
<1>1. s.next \in Int /\ t.next \in Int /\ u.next \in Int
  BY VSpaceAssumption DEF StInv, StRec
<1>2. PtSet(u.pt) \subseteq Int
  <2>1. PtSet(u.pt) \subseteq 0 .. (Top - 1)
    BY TreeFacts DEF StInv
  <2> QED BY <2>1, VSpaceAssumption
<1> QED BY <1>1, <1>2, ExtendedOnce

\* A walk with another result.
LEMMA ErrFields ==
  ASSUME NEW st, StInv(st), NEW s, s = [st EXCEPT !.err = TRUE]
  PROVE  StInv(s) /\ Extended(st, s) /\ SameWalks(st, s) /\ s.err /\ s.mem = st.mem /\ s.root = st.root
<1>1. st \in StRec
  BY DEF StInv
<1>2. /\ s.mem = st.mem /\ s.next = st.next /\ s.root = st.root /\ s.pt = st.pt /\ s.p = st.p
      /\ s.err = TRUE /\ s \in StRec
  BY <1>1, Zenon DEF StRec
<1>3. StInv(s)
  BY <1>2 DEF StInv
<1>4. st.next \in Int
  BY <1>1, VSpaceAssumption DEF StRec
<1>5. Extended(st, s) /\ SameWalks(st, s)
  BY <1>2, <1>4 DEF Extended, SameWalks
<1> QED BY <1>2, <1>3, <1>5

\* The step from one level to the next: the table is there afterwards unless memory
\* or the array of capabilities is full, and no translation has changed.
LEMMA EnsureFacts ==
  ASSUME NEW st, StInv(st), NEW t, t \in {st.root} \cup Below1(st.mem, st.root), NEW i \in Entries,
         NEW s, s = Ensure(st, t, i)
  PROVE  /\ StInv(s) /\ Extended(st, s) /\ SameWalks(st, s)
         /\ t \in {s.root} \cup Below1(s.mem, s.root)
         /\ ~s.err => s.mem[t][i] # NoPte
         /\ st.err => s = st
         /\ st.mem[t][i] # NoPte => s = st
         /\ \A y \in PtSet(st.pt), j \in Entries : st.mem[y][j] # NoPte => s.mem[y][j] = st.mem[y][j]
<1> DEFINE S == PtSet(st.pt)
           x == NewPage(st)
<1>1. /\ st \in StRec /\ SpaceOK(st.mem, st.root, S) /\ Len(st.pt) <= MaxPt /\ NoTwice(st.pt)
      /\ \A y \in S : y < st.next /\ alloc_color_is_valid(st.p, y % NumColors)
  BY DEF StInv
<1>2. /\ st.mem \in MemT /\ st.next \in 0 .. Top /\ st.root \in 0 .. (Top - 1) /\ st.pt \in Seq(0 .. (Top - 1))
      /\ st.p \in Nat /\ st.err \in BOOLEAN
  BY <1>1 DEF StRec
<1>3. st.next \in Int /\ Top \in Nat /\ MaxPt \in Nat
  BY <1>2, VSpaceAssumption
<1>4. CASE st.err \/ st.mem[t][i] # NoPte
  <2>1. s = st
    BY <1>4 DEF Ensure
  <2>2. Extended(st, st) /\ SameWalks(st, st)
    BY <1>3, ExtendedSelf DEF SameWalks
  <2> QED BY <1>4, <2>1, <2>2
<1>5. CASE ~(st.err \/ st.mem[t][i] # NoPte) /\ ~CanGrow(st)
  <2>1. s = [st EXCEPT !.err = TRUE]
    BY <1>5 DEF Ensure
  <2> QED BY <1>5, <2>1, ErrFields
<1>6. CASE ~(st.err \/ st.mem[t][i] # NoPte) /\ CanGrow(st)
  <2>1. s = Grown(st, t, i) /\ Len(st.pt) < MaxPt /\ CanAlloc(st.next, Top, st.p, 1)
    BY <1>6 DEF Ensure, CanGrow
  <2>2. x \in 0 .. (Top - 1) /\ st.next <= x /\ alloc_color_is_valid(st.p, x % NumColors)
    <3>1. x \in Nat /\ st.next <= x /\ x + 1 \in 0 .. Top /\ alloc_color_is_valid(st.p, x % NumColors)
      BY <1>2, <2>1, PageFound DEF NewPage
    <3> QED BY <1>3, <3>1
  <2>3. S \subseteq 0 .. (Top - 1) /\ S = {st.root} \cup Below1(st.mem, st.root) \cup Below2(st.mem, st.root)
    BY <1>1, TreeFacts, Zenon
  <2>4. x \notin S /\ t \in S /\ t # x /\ t \in 0 .. (Top - 1)
    BY <1>1, <1>3, <2>2, <2>3
  <2>5. /\ s \in StRec /\ s.mem = Hung(st.mem, x, t, i) /\ s.next = x + 1 /\ s.pt = Append(st.pt, x)
        /\ s.root = st.root /\ s.p = st.p /\ s.err = st.err
    BY <1>1, <2>1, <2>2, <2>4, GrownFields
  <2> HIDE DEF x
  <2>5a. /\ \A y \in 0 .. (Top - 1) : y # x /\ y # t => s.mem[y] = st.mem[y]
         /\ \A j \in Entries : j # i => s.mem[t][j] = st.mem[t][j]
         /\ s.mem[t][i] # NoPte
    <3>1. s.mem = Hung(st.mem, x, t, i) /\ st.mem \in MemT /\ x \in 0 .. (Top - 1) /\ t \in 0 .. (Top - 1) /\ t # x
      BY <1>2, <2>2, <2>4, <2>5, Zenon
    <3> QED BY <3>1, HungFacts
  <2>6. /\ Len(s.pt) = Len(st.pt) + 1 /\ Len(st.pt) \in Nat
        /\ PtSet(s.pt) = S \cup {x} /\ NoTwice(s.pt)
    <3>1. /\ Len(Append(st.pt, x)) = Len(st.pt) + 1
          /\ PtSet(Append(st.pt, x)) = PtSet(st.pt) \cup {x}
          /\ NoTwice(st.pt) /\ x \notin PtSet(st.pt) => NoTwice(Append(st.pt, x))
      BY <1>2, <2>2, AppendPage
    <3>2. Len(st.pt) \in Nat
      BY <1>2
    <3> QED BY <1>1, <2>4, <2>5, <3>1, <3>2
  <2> HIDE DEF S
  <2>7. /\ SpaceOK(s.mem, s.root, S \cup {x})
        /\ \A y \in Below1(st.mem, st.root) : y \in Below1(s.mem, s.root)
        /\ \A a, b, c \in Entries : Walk(s.mem, s.root, a, b, c) = Walk(st.mem, st.root, a, b, c)
        /\ \A a, b \in Entries : HasT(st.mem, st.root, a, b) => HasT(s.mem, s.root, a, b)
    <3>1. x \in 0 .. (Top - 1) /\ x \notin S
      BY <2>2, <2>4
    <3> DEFINE m == st.mem
               r == st.root
               m2 == Hung(m, x, t, i)
    <3>2. SpaceOK(m, r, S) /\ t \in {r} \cup Below1(m, r) /\ m[t][i] = NoPte
      BY <1>1, <1>6, Zenon DEF S
    <3>3. s.mem = m2 /\ s.root = r
      BY <2>5
    <3>4. m2 = Hung(m, x, t, i)
      OBVIOUS
    <3> HIDE DEF m, r, m2
    <3>5. GrowsTo(m, m2, r, S, x)
      BY <3>1, <3>2, <3>4, GrowSpace, Zenon
    <3> QED BY <3>3, <3>5 DEF m, r, GrowsTo
  <2>8. s.mem[t][i] # NoPte /\ \A y \in 0 .. (Top - 1) : y \notin S \cup {x} => s.mem[y] = st.mem[y]
    <3>1. \A y \in 0 .. (Top - 1) : y \notin S \cup {x} => y # x /\ y # t
      BY <2>4, Zenon
    <3> QED BY <2>5a, <3>1, Zenon
  <2>8a. \A y \in S, j \in Entries : st.mem[y][j] # NoPte => s.mem[y][j] = st.mem[y][j]
    <3>1. /\ \A y \in 0 .. (Top - 1) : y # x /\ y # t => s.mem[y] = st.mem[y]
          /\ \A j \in Entries : j # i => s.mem[t][j] = st.mem[t][j]
      BY <2>5a, Zenon
    <3>2. \A y \in S : y \in 0 .. (Top - 1) /\ y # x
      BY <2>3, <2>4
    <3> QED BY <1>6, <3>1, <3>2, Zenon
  <2>9. StInv(s)
    <3>1. \A y \in PtSet(s.pt) : y < s.next /\ alloc_color_is_valid(s.p, y % NumColors)
      <4> SUFFICES ASSUME NEW y \in S \cup {x} PROVE y < s.next /\ alloc_color_is_valid(s.p, y % NumColors)
        BY <2>6
      <4>1. CASE y = x
        BY <2>2, <2>5, <4>1
      <4>2. CASE y \in S
        <5>1. y \in Int /\ y < st.next
          BY <1>1, <2>3, <4>2 DEF S
        <5> QED BY <1>1, <1>3, <2>2, <2>5, <4>2, <5>1 DEF S
      <4> QED BY <4>1, <4>2
    <3>2. Len(s.pt) <= MaxPt
      BY <1>3, <2>1, <2>6
    <3> QED BY <2>5, <2>6, <2>7, <3>1, <3>2 DEF StInv
  <2>10. Extended(st, s)
    <3>1. s.root = st.root /\ s.p = st.p /\ st.next <= s.next
      BY <1>3, <2>2, <2>5
    <3>2. \A y \in PtSet(s.pt) : y \notin PtSet(st.pt) => y >= st.next
      BY <1>3, <2>2, <2>6 DEF S
    <3> QED BY <2>6, <2>7, <2>8, <3>1, <3>2, Zenon DEF Extended, S
  <2> QED BY <1>6, <2>5, <2>7, <2>8, <2>8a, <2>9, <2>10, Zenon DEF SameWalks, S
<1> QED BY <1>2, <1>4, <1>5, <1>6, Zenon

WalkTo(m, r, va) == Walk(m, r, vpn2(va), vpn1(va), vpn0(va))

HasTables(m, r, va) == HasT(m, r, vpn2(va), vpn1(va))

\* What mapping one page does.
Mapping(st, g, va, e) ==
  /\ StInv(g) /\ Extended(st, g)
  /\ st.err => g.err
  /\ g.err => SameWalks(st, g)
  /\ ~g.err => WalkTo(st.mem, st.root, va) = NoPte /\ OneWalk(st.mem, g.mem, st.root, vpn2(va), vpn1(va), vpn0(va), e)
  /\ ~st.err /\ HasTables(st.mem, st.root, va) /\ WalkTo(st.mem, st.root, va) = NoPte => ~g.err

\* One turn of the loop of vspace_map either maps its page, which was free, or
\* leaves all translations as they are.
LEMMA MapPageFacts ==
  ASSUME NEW st, StInv(st), NEW va \in Nat, NEW ppn, NEW flags, Pte(ppn, flags) \in PteRec
  PROVE  Mapping(st, MapPage(st, va, ppn, flags), va, Pte(ppn, flags))
<1> DEFINE a == vpn2(va)
           b == vpn1(va)
           c == vpn0(va)
           e == Pte(ppn, flags)
           r == st.root
           s1 == Ensure(st, r, a)
           l1 == s1.mem[r][a].ppn
           s2 == Ensure(s1, l1, b)
           l0 == s2.mem[l1][b].ppn
           g == MapPage(st, va, ppn, flags)
<1>1. a \in Entries /\ b \in Entries /\ c \in Entries
  BY Cut
<1>2. e \in PteRec
  OBVIOUS
<1>3. g = IF s2.err THEN s2
          ELSE IF s2.mem[l0][c] # NoPte THEN [s2 EXCEPT !.err = TRUE]
          ELSE [s2 EXCEPT !.mem[l0][c] = e]
  BY DEF MapPage
<1>4. WalkTo(st.mem, r, va) = Walk(st.mem, r, a, b, c) /\ (HasTables(st.mem, r, va) <=> HasT(st.mem, r, a, b))
  BY DEF WalkTo, HasTables
<1>5. st \in StRec /\ st.err \in BOOLEAN /\ st.next \in Int
  BY VSpaceAssumption DEF StInv, StRec
<1> SUFFICES Mapping(st, g, va, e)
  OBVIOUS
<1> HIDE DEF e, g
<1>6. /\ StInv(s1) /\ Extended(st, s1) /\ SameWalks(st, s1)
      /\ ~s1.err => s1.mem[r][a] # NoPte
      /\ st.err => s1 = st
      /\ st.mem[r][a] # NoPte => s1 = st
  <2>1. r \in {st.root} \cup Below1(st.mem, st.root)
    OBVIOUS
  <2> HIDE DEF r, a
  <2>2. s1 = Ensure(st, r, a) /\ StInv(st) /\ a \in Entries
    BY <1>1, Zenon
  <2>3. r = st.root
    BY Zenon DEF r
  <2> HIDE DEF s1
  <2> QED BY <2>1, <2>2, EnsureFacts
<1>7. s1.root = r
  BY <1>6, Zenon DEF Extended
<1>8. CASE s1.err
  <2>1. s2 = s1
    BY <1>8, Zenon DEF Ensure
  <2>2. g = s1
    BY <1>3, <1>8, <2>1, Zenon
  <2>3. ~st.err => ~HasT(st.mem, r, a, b)
    BY <1>6, <1>8, Zenon DEF HasT
  <2> HIDE DEF s1
  <2> QED BY <1>4, <1>6, <1>8, <2>2, <2>3, Zenon DEF Mapping
<1>9. CASE ~s1.err
  <2>0. s1.mem[r][a] # NoPte /\ SpaceOK(s1.mem, r, PtSet(s1.pt))
    BY <1>6, <1>7, <1>9, Zenon DEF StInv
  <2>1. l1 \in Below1(s1.mem, s1.root)
    <3>1. TreeParts(s1.mem, r, Below1(s1.mem, r), Below2(s1.mem, r))
      BY <2>0, TreeFacts, Zenon
    <3> QED BY <1>1, <1>7, <2>0, <3>1, Zenon DEF TreeParts
  <2> HIDE DEF s1
  <2>2. /\ StInv(s2) /\ Extended(s1, s2) /\ SameWalks(s1, s2)
        /\ ~s2.err => s2.mem[l1][b] # NoPte
        /\ s1.mem[l1][b] # NoPte => s2 = s1
        /\ \A y \in PtSet(s1.pt), j \in Entries : s1.mem[y][j] # NoPte => s2.mem[y][j] = s1.mem[y][j]
    <3>1. l1 \in {s1.root} \cup Below1(s1.mem, s1.root)
      BY <2>1
    <3> HIDE DEF l1, b
    <3>2. s2 = Ensure(s1, l1, b) /\ StInv(s1) /\ b \in Entries
      BY <1>1, <1>6, Zenon
    <3> HIDE DEF s2
    <3> QED BY <3>1, <3>2, EnsureFacts
  <2> HIDE DEF l1
  <2>3. Extended(st, s2) /\ SameWalks(st, s2) /\ s2.root = r /\ s1.err \in BOOLEAN /\ s2.err \in BOOLEAN
    <3>1. Extended(st, s2)
      BY <1>6, <2>2, ExtendedTwice, Zenon
    <3>2. s2.root = r /\ s1.err \in BOOLEAN /\ s2.err \in BOOLEAN
      BY <1>6, <2>2, <3>1, Zenon DEF Extended, StInv, StRec
    <3>3. SameWalks(st, s2)
      <4>1. SameWalks(st, s1) /\ SameWalks(s1, s2)
        BY <1>6, <2>2, Zenon
      <4> HIDE DEF s2
      <4> QED BY <4>1 DEF SameWalks
    <3> QED BY <3>1, <3>2, <3>3, Zenon
  <2>4. st.err => s2.err
    BY <1>6, <1>9
  <2>5. s2.mem[r][a] = s1.mem[r][a]
    <3>1. r \in PtSet(s1.pt)
      BY <2>0, TreeFacts, Zenon
    <3> QED BY <1>1, <2>0, <2>2, <3>1, Zenon
  <2>6. s2.mem[r][a].ppn = l1 /\ s2.mem[r][a] # NoPte
    BY <2>0, <2>5, Zenon DEF l1
  <2>7. ~st.err /\ HasT(st.mem, r, a, b) => s2 = st
    <3>1. HasT(st.mem, r, a, b) => s1 = st /\ st.mem[st.mem[r][a].ppn][b] # NoPte
      BY <1>6, Zenon DEF HasT
    <3> QED BY <2>2, <3>1, Zenon DEF l1
  <2> HIDE DEF s2
  <2>8. CASE s2.err
    <3>1. g = s2
      BY <1>3, <2>8
    <3>2. ~st.err => ~HasT(st.mem, r, a, b)
      BY <2>7, <2>8
    <3> QED BY <1>4, <2>2, <2>3, <2>8, <3>1, <3>2 DEF Mapping
  <2>9. CASE ~s2.err
    <3>1. HasT(s2.mem, r, a, b) /\ l0 = Leaf(s2.mem, r, a, b) /\ SpaceOK(s2.mem, r, PtSet(s2.pt)) /\ ~st.err
      BY <2>2, <2>3, <2>4, <2>6, <2>9, Zenon DEF HasT, Leaf, StInv
    <3>2. Walk(s2.mem, r, a, b, c) = s2.mem[l0][c] /\ Walk(st.mem, r, a, b, c) = Walk(s2.mem, r, a, b, c)
      BY <1>1, <2>3, <3>1, WalkByLeaf, Zenon DEF SameWalks
    <3> HIDE DEF l0
    <3>3. CASE s2.mem[l0][c] # NoPte
      <4>1. g = [s2 EXCEPT !.err = TRUE]
        BY <1>3, <2>9, <3>3
      <4>2. StInv(g) /\ Extended(s2, g) /\ SameWalks(s2, g) /\ g.err
        BY <2>2, <4>1, ErrFields
      <4>3. Extended(st, g)
        BY <2>2, <2>3, <4>2, ExtendedTwice
      <4>4. SameWalks(st, g)
        BY <2>3, <4>2 DEF SameWalks
      <4> QED BY <1>4, <3>2, <3>3, <4>2, <4>3, <4>4, Zenon DEF Mapping
    <3>4. CASE s2.mem[l0][c] = NoPte
      <4> DEFINE m2 == [s2.mem EXCEPT ![l0][c] = e]
                 S == PtSet(s2.pt)
      <4>1. g = [s2 EXCEPT !.mem[l0][c] = e]
        BY <1>3, <2>9, <3>4
      <4>2. LeafWritten(s2.mem, m2, r, S, a, b, c, e)
        <5>1. m2 = [s2.mem EXCEPT ![Leaf(s2.mem, r, a, b)][c] = e]
          BY <3>1, Zenon
        <5> HIDE DEF m2, S, a, b, c
        <5> QED BY <1>1, <1>2, <3>1, <5>1, WriteLeaf DEF S
      <4>3. s2 \in StRec
        BY <2>2, Zenon DEF StInv
      <4>4. /\ g.mem = m2 /\ g.next = s2.next /\ g.root = s2.root /\ g.pt = s2.pt /\ g.p = s2.p /\ g.err = s2.err
            /\ g = [mem |-> g.mem, next |-> g.next, root |-> g.root, pt |-> g.pt, p |-> g.p, err |-> g.err]
        BY <4>1, <4>3, Zenon DEF StRec
      <4> HIDE DEF m2
      <4>5. m2 \in MemT /\ SpaceOK(m2, r, S)
        BY <4>2, Zenon DEF LeafWritten, SpaceOK
      <4>6. g \in StRec
        BY <4>3, <4>4, <4>5 DEF StRec
      <4>7. StInv(g)
        BY <2>2, <2>3, <4>4, <4>5, <4>6, Zenon DEF StInv
      <4>8. Extended(s2, g)
        <5>1. s2.next \in Int
          BY <4>3, VSpaceAssumption DEF StRec
        <5> QED BY <2>3, <4>2, <4>4, <5>1 DEF Extended, LeafWritten
      <4>9. Extended(st, g)
        BY <2>2, <2>3, <4>7, <4>8, ExtendedTwice
      <4>10. OneWalk(st.mem, g.mem, r, a, b, c, e)
        BY <2>3, <4>2, <4>4 DEF LeafWritten, OneWalk, SameWalks
      <4>11. ~g.err
        BY <2>9, <4>4
      <4>12. WalkTo(st.mem, st.root, va) = NoPte
        BY <1>4, <3>2, <3>4, Zenon
      <4> QED BY <3>1, <4>7, <4>9, <4>10, <4>11, <4>12 DEF Mapping
    <3> QED BY <3>3, <3>4
  <2> QED BY <2>3, <2>8, <2>9, Zenon
<1>10. s1.err \in BOOLEAN
  BY <1>6, Zenon DEF StInv, StRec
<1> HIDE DEF s1
<1> QED BY <1>8, <1>9, <1>10

-----------------------------------------------------------------------------
\* The loops.

\* One turn of the recursion of vspace_map, or else of vspace_unmap.
Turn(map, s, va, f, r, G, k) ==
  IF k = 0 THEN s
  ELSE IF map THEN MapPage(G[k - 1], va + k - 1, f.ppn + k - 1, Flags(s.p, f.perms))
  ELSE UnmapPage(G[k - 1], r, va + k - 1)

TurnsEnd(map, s, va, f, r, n) == \E G : G = [k \in 0 .. n |-> Turn(map, s, va, f, r, G, k)]

\* The recursion has a solution.
LEMMA TurnSolution ==
  ASSUME NEW map \in BOOLEAN, NEW s, NEW va, NEW f, NEW r, NEW n \in Nat
  PROVE  TurnsEnd(map, s, va, f, r, n)
<1> USE DEF TurnsEnd
<1> DEFINE Good(m) == \E G : G = [k \in 0 .. m |-> Turn(map, s, va, f, r, G, k)]
           Bad == {m \in Nat : ~Good(m)}
<1>1. Good(0)
  <2> DEFINE G == [k \in 0 .. 0 |-> s]
  <2>1. \A k \in 0 .. 0 : k = 0
    OBVIOUS
  <2>2. G = [k \in 0 .. 0 |-> Turn(map, s, va, f, r, G, k)]
    BY <2>1 DEF Turn
  <2> QED BY <2>2
<1>2. ASSUME NEW m \in Nat, Good(m) PROVE Good(m + 1)
  <2>1. PICK G : G = [k \in 0 .. m |-> Turn(map, s, va, f, r, G, k)]
    BY <1>2
  <2> DEFINE H == [k \in 0 .. (m + 1) |-> IF k \in 0 .. m THEN G[k] ELSE Turn(map, s, va, f, r, G, k)]
  <2>2. ASSUME NEW k \in 0 .. (m + 1) PROVE H[k] = Turn(map, s, va, f, r, H, k)
    <3>1. H[k] = Turn(map, s, va, f, r, G, k)
      BY <2>1
    <3>2. CASE k = 0
      BY <3>1, <3>2, Zenon DEF Turn
    <3>3. CASE k # 0
      <4>1. k - 1 \in 0 .. m /\ k - 1 \in 0 .. (m + 1)
        BY <3>3
      <4>2. H[k - 1] = G[k - 1]
        BY <4>1
      <4> HIDE DEF H
      <4> QED BY <3>1, <3>3, <4>2 DEF Turn
    <3> QED BY <3>2, <3>3
  <2>3. H = [k \in 0 .. (m + 1) |-> Turn(map, s, va, f, r, H, k)]
    BY <2>2
  <2> QED BY <2>3, Zenon
<1> HIDE DEF Good
<1>3. ASSUME Bad # {} PROVE FALSE
  <2>1. PICK k \in Bad : \A m \in Bad : k <= m
    BY <1>3, LeastNumber, Zenon
  <2>2. k \in Nat /\ ~Good(k) /\ k # 0
    BY <1>1
  <2>3. k - 1 \in Nat /\ ~(k <= k - 1) /\ (k - 1) + 1 = k
    BY <2>2
  <2>4. Good(k - 1)
    BY <2>1, <2>3
  <2>5. Good((k - 1) + 1)
    BY <1>2, <2>3, <2>4, SMTT(60)
  <2> QED BY <2>2, <2>3, <2>5
<1> QED BY <1>3 DEF Good

\* G holds the state after each turn of the loop of vspace_map.
MapRun(G, s, va, n, f) ==
  /\ vspace_map(s, va, n, f) = G[n] /\ G[0] = s
  /\ \A k \in 1 .. n : G[k] = MapPage(G[k - 1], va + k - 1, f.ppn + k - 1, Flags(s.p, f.perms))

\* The turns of vspace_map.
LEMMA MapTurns ==
  ASSUME NEW s, NEW va \in Nat, NEW f, NEW n \in Nat
  PROVE  \E G : MapRun(G, s, va, n, f)
<1> DEFINE G == CHOOSE g : g = [k \in 0 .. n |-> Turn(TRUE, s, va, f, 0, g, k)]
<1>0. \E g : g = [k \in 0 .. n |-> Turn(TRUE, s, va, f, 0, g, k)]
  <2>1. TurnsEnd(TRUE, s, va, f, 0, n)
    BY TurnSolution, Zenon
  <2> QED BY <2>1, Zenon DEF TurnsEnd
<1>1. G = [k \in 0 .. n |-> Turn(TRUE, s, va, f, 0, G, k)]
  BY <1>0, Zenon
<1>2. vspace_map(s, va, n, f) = G[n]
  BY DEF vspace_map, Turn
<1>3. \A k \in 0 .. n : G[k] = Turn(TRUE, s, va, f, 0, G, k)
  BY <1>1, ZenonT(60)
<1> HIDE DEF G
<1>4. G[0] = s
  BY <1>3 DEF Turn
<1>5. \A k \in 1 .. n : G[k] = MapPage(G[k - 1], va + k - 1, f.ppn + k - 1, Flags(s.p, f.perms))
  BY <1>3, SMTT(60) DEF Turn
<1>6. MapRun(G, s, va, n, f)
  BY <1>2, <1>4, <1>5, Zenon DEF MapRun
<1> QED BY <1>6, Zenon

\* G holds the memory after each turn of the loop of vspace_unmap.
UnmapRun(G, m, r, va, n) ==
  /\ vspace_unmap(m, r, va, n) = G[n] /\ G[0] = m
  /\ \A k \in 1 .. n : G[k] = UnmapPage(G[k - 1], r, va + k - 1)

\* The turns of vspace_unmap.
LEMMA UnmapTurns ==
  ASSUME NEW m, NEW r, NEW va \in Nat, NEW n \in Nat
  PROVE  \E G : UnmapRun(G, m, r, va, n)
<1> DEFINE G == CHOOSE g : g = [k \in 0 .. n |-> Turn(FALSE, m, va, 0, r, g, k)]
<1>0. \E g : g = [k \in 0 .. n |-> Turn(FALSE, m, va, 0, r, g, k)]
  <2>1. TurnsEnd(FALSE, m, va, 0, r, n)
    BY TurnSolution, Zenon
  <2> QED BY <2>1, Zenon DEF TurnsEnd
<1>1. G = [k \in 0 .. n |-> Turn(FALSE, m, va, 0, r, G, k)]
  BY <1>0, ZenonT(60)
<1>2. vspace_unmap(m, r, va, n) = G[n]
  BY DEF vspace_unmap, Turn
<1>3. \A k \in 0 .. n : G[k] = Turn(FALSE, m, va, 0, r, G, k)
  BY <1>1, ZenonT(60)
<1> HIDE DEF G
<1>4. G[0] = m
  BY <1>3 DEF Turn
<1>5. \A k \in 1 .. n : G[k] = UnmapPage(G[k - 1], r, va + k - 1)
  BY <1>3, SMTT(60) DEF Turn
<1> QED BY <1>2, <1>4, <1>5, SMTT(60) DEF UnmapRun

\* A write to one last table, said by pages.
LEMMA OneWalkPage ==
  ASSUME NEW m, NEW m2, NEW r, NEW va \in Nat, NEW e,
         OneWalk(m, m2, r, vpn2(va), vpn1(va), vpn0(va), e)
  PROVE  \A w \in 0 .. (VPages - 1) :
           WalkTo(m2, r, w) = IF w = va % VPages THEN e ELSE WalkTo(m, r, w)
<1> SUFFICES ASSUME NEW w \in 0 .. (VPages - 1)
             PROVE  WalkTo(m2, r, w) = IF w = va % VPages THEN e ELSE WalkTo(m, r, w)
  OBVIOUS
<1>0. w \in Nat
  OBVIOUS
<1>1. vpn2(w) \in Entries /\ vpn1(w) \in Entries /\ vpn0(w) \in Entries
  BY <1>0, Cut, SMTT(60)
<1>2. (vpn2(w) = vpn2(va) /\ vpn1(w) = vpn1(va) /\ vpn0(w) = vpn0(va)) <=> w = va % VPages
  BY SameWay, SMTT(60)
<1>3. WalkTo(m2, r, w) = IF vpn2(w) = vpn2(va) /\ vpn1(w) = vpn1(va) /\ vpn0(w) = vpn0(va)
                         THEN e ELSE WalkTo(m, r, w)
  BY <1>1, SMTT(60) DEF OneWalk, WalkTo
<1> QED BY <1>2, <1>3, SMTT(60)

\* A page and its cut have the same translation.
LEMMA WalkCut ==
  ASSUME NEW m, NEW r, NEW va \in Nat
  PROVE  /\ WalkTo(m, r, va) = WalkTo(m, r, va % VPages)
         /\ HasTables(m, r, va) <=> HasTables(m, r, va % VPages)
         /\ vspace_resolve(m, r, va) = WalkTo(m, r, va)
<1>1. vpn2(va % VPages) = vpn2(va) /\ vpn1(va % VPages) = vpn1(va) /\ vpn0(va % VPages) = vpn0(va)
  BY SameWay, SMTT(60)
<1> QED BY <1>1, ZenonT(60) DEF WalkTo, HasTables, vspace_resolve, Walk

\* The first c pages from va on were free in m and are mapped in m2, to pages from
\* ppn on; the other pages are as they were.
Prefix(m, m2, r, va, ppn, flags, c) ==
  /\ \A j \in 0 .. (c - 1) : WalkTo(m, r, Cell(va, j)) = NoPte /\ WalkTo(m2, r, Cell(va, j)) = Pte(ppn + j, flags)
  /\ \A w \in 0 .. (VPages - 1) :
       (\A j \in 0 .. (c - 1) : w # Cell(va, j)) => WalkTo(m2, r, w) = WalkTo(m, r, w)

\* Where the loop of vspace_map is after k turns.
LoopInv(st, h, va, ppn, flags, k) ==
  /\ StInv(h) /\ Extended(st, h)
  /\ \E c \in 0 .. k : Prefix(st.mem, h.mem, st.root, va, ppn, flags, c) /\ (h.err \/ c = k)

\* Translations that do not change.
LEMMA PrefixKept ==
  ASSUME NEW m, NEW m2, NEW m3, NEW r, NEW va, NEW ppn, NEW flags, NEW c,
         Prefix(m, m2, r, va, ppn, flags, c),
         \A w \in 0 .. (VPages - 1) : WalkTo(m3, r, w) = WalkTo(m2, r, w),
         \A j \in 0 .. (c - 1) : Cell(va, j) \in 0 .. (VPages - 1)
  PROVE  Prefix(m, m3, r, va, ppn, flags, c)
BY DEF Prefix

\* One more page.
LEMMA PrefixGrows ==
  ASSUME NEW m, NEW m2, NEW m3, NEW r, NEW va \in Nat, NEW ppn \in Nat, NEW flags, NEW c \in Nat,
         Prefix(m, m2, r, va, ppn, flags, c),
         \A j \in Nat : Pte(ppn + j, flags) # NoPte,
         WalkTo(m2, r, Cell(va, c)) = NoPte,
         \A w \in 0 .. (VPages - 1) :
            WalkTo(m3, r, w) = IF w = Cell(va, c) THEN Pte(ppn + c, flags) ELSE WalkTo(m2, r, w)
  PROVE  Prefix(m, m3, r, va, ppn, flags, c + 1)
<1>1. \A j \in Nat : Cell(va, j) \in 0 .. (VPages - 1)
  BY CellOfCut, Zenon
<1>2. \A j \in 0 .. (c - 1) : j \in Nat /\ Cell(va, j) # Cell(va, c)
  BY DEF Prefix
<1>3. WalkTo(m, r, Cell(va, c)) = NoPte
  BY <1>1, <1>2 DEF Prefix
<1>4. \A j \in 0 .. ((c + 1) - 1) : j = c \/ j \in 0 .. (c - 1)
  OBVIOUS
<1>5. \A j \in 0 .. (c - 1) : WalkTo(m, r, Cell(va, j)) = NoPte /\ WalkTo(m3, r, Cell(va, j)) = Pte(ppn + j, flags)
  BY <1>1, <1>2 DEF Prefix
<1>6. WalkTo(m3, r, Cell(va, c)) = Pte(ppn + c, flags)
  BY <1>1
<1>7. c \in 0 .. ((c + 1) - 1) /\ \A j \in 0 .. (c - 1) : j \in 0 .. ((c + 1) - 1)
  OBVIOUS
<1>8. ASSUME NEW w \in 0 .. (VPages - 1), \A j \in 0 .. ((c + 1) - 1) : w # Cell(va, j)
      PROVE  WalkTo(m3, r, w) = WalkTo(m, r, w)
  <2>1. w # Cell(va, c) /\ \A j \in 0 .. (c - 1) : w # Cell(va, j)
    BY <1>7, <1>8
  <2> QED BY <2>1 DEF Prefix
<1> QED BY <1>3, <1>4, <1>5, <1>6, <1>8, SMTT(60) DEF Prefix

\* A turn of the loop.
LEMMA LoopTurn ==
  ASSUME NEW st, StInv(st), NEW va \in Nat, NEW ppn \in Nat, NEW flags \in SUBSET {"R", "W", "X", "U"},
         NEW k \in Nat, NEW h, LoopInv(st, h, va, ppn, flags, k),
         NEW g, g = MapPage(h, va + k, ppn + k, flags)
  PROVE  LoopInv(st, g, va, ppn, flags, k + 1)
<1>1. /\ StInv(h) /\ Extended(st, h)
      /\ \E c \in 0 .. k : Prefix(st.mem, h.mem, st.root, va, ppn, flags, c) /\ (h.err \/ c = k)
  BY DEF LoopInv
<1>2. PICK c \in 0 .. k : Prefix(st.mem, h.mem, st.root, va, ppn, flags, c) /\ (h.err \/ c = k)
  BY <1>1
<1> DEFINE r == st.root
           e == Pte(ppn + k, flags)
<1>3. h.root = r
  BY <1>1, Zenon DEF Extended
<1>4. \A j \in Nat : Pte(ppn + j, flags) \in PteRec /\ Pte(ppn + j, flags) # NoPte
  <2>1. \A j \in Nat : Pte(ppn + j, flags) \in PteRec
    BY DEF Pte, PteRec
  <2> QED BY <2>1, VSpaceAssumption
<1>5. Mapping(h, g, va + k, e)
  BY <1>1, <1>4, MapPageFacts, SMTT(60)
<1>6. StInv(g) /\ Extended(st, g)
  <2>1. StInv(g) /\ Extended(h, g)
    BY <1>5 DEF Mapping
  <2> QED BY <1>1, <2>1, ExtendedTwice, SMTT(60)
<1>7. \A j \in Nat : Cell(va, j) \in 0 .. (VPages - 1) /\ Cell(va, j) = (va + j) % VPages
  BY CellOfCut, ZenonT(60) DEF Cell
<1>8. \A w \in 0 .. (VPages - 1) : w \in Nat /\ vpn2(w) \in Entries /\ vpn1(w) \in Entries /\ vpn0(w) \in Entries
  BY Cut
<1>9. CASE g.err
  <2>1. \A w \in 0 .. (VPages - 1) : WalkTo(g.mem, r, w) = WalkTo(h.mem, r, w)
    <3>1. SameWalks(h, g) /\ g.root = r
      BY <1>5, <1>6, <1>9, Zenon DEF Mapping, Extended
    <3>2. h.root = r
      BY <1>3, Zenon
    <3> SUFFICES ASSUME NEW w \in 0 .. (VPages - 1) PROVE WalkTo(g.mem, r, w) = WalkTo(h.mem, r, w)
      OBVIOUS
    <3>3. vpn2(w) \in Entries /\ vpn1(w) \in Entries /\ vpn0(w) \in Entries
      BY <1>8, Zenon
    <3> QED BY <3>1, <3>2, <3>3 DEF SameWalks, WalkTo
  <2>2. \A j \in 0 .. (c - 1) : Cell(va, j) \in 0 .. (VPages - 1)
    BY <1>7, SMTT(60)
  <2>3. Prefix(st.mem, g.mem, r, va, ppn, flags, c)
    BY <1>2, <2>1, <2>2, PrefixKept, Zenon
  <2>4. c \in 0 .. (k + 1)
    OBVIOUS
  <2> QED BY <1>6, <1>9, <2>3, <2>4 DEF LoopInv
<1>10. CASE ~g.err
  <2>1. /\ ~h.err /\ WalkTo(h.mem, r, va + k) = NoPte
        /\ OneWalk(h.mem, g.mem, r, vpn2(va + k), vpn1(va + k), vpn0(va + k), e)
    BY <1>3, <1>5, <1>10, Zenon DEF Mapping
  <2>2. c = k
    BY <1>2, <2>1
  <2>3. va + k \in Nat
    OBVIOUS
  <2>4. \A w \in 0 .. (VPages - 1) : WalkTo(g.mem, r, w) = IF w = (va + k) % VPages THEN e ELSE WalkTo(h.mem, r, w)
    <3> HIDE DEF r, e
    <3> QED BY <2>1, <2>3, OneWalkPage
  <2>5. WalkTo(h.mem, r, Cell(va, k)) = NoPte
    BY <2>1, <2>3, WalkCut, SMTT(60) DEF Cell
  <2>6. Prefix(st.mem, g.mem, r, va, ppn, flags, k + 1)
    <3>1. \A w \in 0 .. (VPages - 1) : WalkTo(g.mem, r, w) = IF w = Cell(va, k) THEN Pte(ppn + k, flags) ELSE WalkTo(h.mem, r, w)
      BY <2>4, Zenon DEF Cell
    <3>2. Prefix(st.mem, h.mem, r, va, ppn, flags, k)
      BY <1>2, <2>2, SMTT(60)
    <3> HIDE DEF r
    <3> QED BY <1>4, <2>5, <3>1, <3>2, PrefixGrows, ZenonT(60)
  <2>7. k + 1 \in 0 .. (k + 1)
    OBVIOUS
  <2> QED BY <1>6, <2>6, <2>7, SMTT(60) DEF LoopInv
<1>11. g.err \in BOOLEAN
  BY <1>6, SMTT(60) DEF StInv, StRec
<1> QED BY <1>9, <1>10, <1>11

\* A call of vspace_map leaves a beginning of its range mapped.
LEMMA MapLoop ==
  ASSUME NEW st, StInv(st), NEW va \in Nat, NEW n \in Nat, NEW f \in Frames
  PROVE  LoopInv(st, vspace_map(st, va, n, f), va, f.ppn, Flags(st.p, f.perms), n)
<1> DEFINE fl == Flags(st.p, f.perms)
<1>1. f.ppn \in Nat /\ fl \in SUBSET {"R", "W", "X", "U"}
  BY VSpaceAssumption, SMTT(60) DEF Flags
<1>g. PICK G : MapRun(G, st, va, n, f)
  BY MapTurns, Zenon
<1>2. /\ vspace_map(st, va, n, f) = G[n] /\ G[0] = st
      /\ \A k \in 1 .. n : G[k] = MapPage(G[k - 1], va + k - 1, f.ppn + k - 1, fl)
  BY <1>g, Zenon DEF MapRun
<1> HIDE DEF fl
<1> DEFINE Good(k) == LoopInv(st, G[k], va, f.ppn, fl, k)
           Bad == {k \in 0 .. n : ~Good(k)}
<1>3. Good(0)
  <2>1. Extended(st, st)
    <3>1. st.next \in Int
      BY VSpaceAssumption DEF StInv, StRec
    <3> QED BY <3>1, ExtendedSelf
  <2>2. Prefix(st.mem, st.mem, st.root, va, f.ppn, fl, 0) /\ 0 \in 0 .. 0
    BY DEF Prefix
  <2> QED BY <1>2, <2>1, <2>2, Zenon DEF LoopInv
<1>4. ASSUME NEW k \in Nat, k + 1 \in 0 .. n, Good(k) PROVE Good(k + 1)
  <2>1. k + 1 \in 1 .. n /\ (k + 1) - 1 = k /\ va + (k + 1) - 1 = va + k /\ f.ppn + (k + 1) - 1 = f.ppn + k
    BY <1>1, <1>4, SMTT(60)
  <2>2. G[k + 1] = MapPage(G[k], va + k, f.ppn + k, fl)
    BY <1>2, <2>1, SMTT(60)
  <2> QED BY <1>1, <1>4, <2>2, LoopTurn, SMTT(60)
<1> HIDE DEF Good
<1>5. ASSUME Bad # {} PROVE FALSE
  <2>0. Bad \in SUBSET Nat
    OBVIOUS
  <2>1. PICK k \in Bad : \A m \in Bad : k <= m
    BY <1>5, <2>0, LeastNumber, Zenon
  <2>2. k \in 0 .. n /\ ~Good(k) /\ k # 0
    BY <1>3
  <2>3. k - 1 \in Nat /\ k - 1 \in 0 .. n /\ ~(k <= k - 1) /\ (k - 1) + 1 = k
    BY <2>2, SMTT(60)
  <2>4. Good(k - 1)
    BY <2>1, <2>3, SMTT(60)
  <2>5. Good((k - 1) + 1)
    BY <1>4, <2>2, <2>3, <2>4, SMTT(60)
  <2> QED BY <2>2, <2>3, <2>5, SMTT(60)
<1>6. n \in 0 .. n
  OBVIOUS
<1>7. Good(n)
  BY <1>5, <1>6
<1> QED BY <1>2, <1>7, SMTT(60) DEF Good, fl

\* Pages were unmapped: what is in ps has no translation, the other pages are as
\* they were, and so are the tables.
Unmapped(m, m2, r, S, ps) ==
  /\ SpaceOK(m2, r, S)
  /\ \A x \in 0 .. (Top - 1) : x \notin S => m2[x] = m[x]
  /\ \A a, b \in Entries : HasT(m2, r, a, b) <=> HasT(m, r, a, b)
  /\ \A w \in 0 .. (VPages - 1) : WalkTo(m2, r, w) = IF w \in ps THEN NoPte ELSE WalkTo(m, r, w)

\* A turn of the loop of vspace_unmap.
LEMMA UnmapPageFacts ==
  ASSUME NEW m, NEW r, NEW S, SpaceOK(m, r, S), NEW va \in Nat
  PROVE  Unmapped(m, UnmapPage(m, r, va), r, S, {va % VPages})
<1> DEFINE a == vpn2(va)
           b == vpn1(va)
           c == vpn0(va)
           m2 == UnmapPage(m, r, va)
<1>1. a \in Entries /\ b \in Entries /\ c \in Entries
  BY Cut, SMTT(60)
<1>2. m2 = IF HasT(m, r, a, b) THEN [m EXCEPT ![Leaf(m, r, a, b)][c] = NoPte] ELSE m
  BY Zenon DEF UnmapPage, HasT, Leaf
<1> SUFFICES Unmapped(m, m2, r, S, {va % VPages})
  OBVIOUS
<1>3. CASE ~HasT(m, r, a, b)
  <2>1. m2 = m
    BY <1>2, <1>3
  <2>2. WalkTo(m, r, va) = NoPte
    BY <1>3, WalkByLeaf DEF WalkTo
  <2>3. WalkTo(m, r, va % VPages) = NoPte
    BY <2>2, WalkCut
  <2> HIDE DEF m2
  <2> QED BY <2>1, <2>3 DEF Unmapped
<1>4. CASE HasT(m, r, a, b)
  <2> HIDE DEF m2, a, b, c
  <2>1. LeafWritten(m, m2, r, S, a, b, c, NoPte)
    BY <1>1, <1>2, <1>4, WriteLeaf, ZenonT(60)
  <2>2. OneWalk(m, m2, r, vpn2(va), vpn1(va), vpn0(va), NoPte)
    BY <2>1 DEF LeafWritten, a, b, c
  <2>3. \A w \in 0 .. (VPages - 1) : WalkTo(m2, r, w) = IF w = va % VPages THEN NoPte ELSE WalkTo(m, r, w)
    BY <2>2, OneWalkPage
  <2> QED BY <2>1, <2>3 DEF Unmapped, LeafWritten
<1> QED BY <1>3, <1>4

\* A call of vspace_unmap leaves no page of its range mapped.
LEMMA UnmapLoop ==
  ASSUME NEW m, NEW r, NEW S, SpaceOK(m, r, S), NEW va \in Nat, NEW n \in Nat
  PROVE  Unmapped(m, vspace_unmap(m, r, va, n), r, S, {Cell(va, j) : j \in 0 .. (n - 1)})
<1>1. PICK G : UnmapRun(G, m, r, va, n)
  BY UnmapTurns, ZenonT(60)
<1>2. /\ vspace_unmap(m, r, va, n) = G[n] /\ G[0] = m
      /\ \A k \in 1 .. n : G[k] = UnmapPage(G[k - 1], r, va + k - 1)
  BY <1>1 DEF UnmapRun
<1> DEFINE Ps(k) == {Cell(va, j) : j \in 0 .. (k - 1)}
           Good(k) == Unmapped(m, G[k], r, S, Ps(k))
           Bad == {k \in 0 .. n : ~Good(k)}
<1>3. Good(0)
  BY <1>2, SMTT(60) DEF Unmapped
<1>4. ASSUME NEW k \in Nat, k + 1 \in 0 .. n, Good(k) PROVE Good(k + 1)
  <2>1. k + 1 \in 1 .. n /\ (k + 1) - 1 = k /\ va + (k + 1) - 1 = va + k /\ va + k \in Nat
    BY <1>4, SMTT(60)
  <2>2. G[k + 1] = UnmapPage(G[k], r, va + k)
    BY <1>2, <2>1, SMTT(60)
  <2>3. Unmapped(m, G[k], r, S, Ps(k))
    BY <1>4, SMTT(60)
  <2>4. Unmapped(G[k], G[k + 1], r, S, {(va + k) % VPages})
    <3>1. SpaceOK(G[k], r, S)
      BY <2>3, SMTT(60) DEF Unmapped
    <3> QED BY <2>1, <2>2, <3>1, UnmapPageFacts, SMTT(60)
  <2>5. \A w : w \in Ps(k + 1) <=> w \in Ps(k) \/ w = (va + k) % VPages
    <3>1. \A j : j \in 0 .. ((k + 1) - 1) <=> j \in 0 .. (k - 1) \/ j = k
      OBVIOUS
    <3> QED BY <3>1, ZenonT(60) DEF Cell
  <2> HIDE DEF Ps
  <2> QED BY <2>3, <2>4, <2>5, Zenon DEF Unmapped
<1> HIDE DEF Good
<1>5. ASSUME Bad # {} PROVE FALSE
  <2>0. Bad \in SUBSET Nat
    OBVIOUS
  <2>1. PICK k \in Bad : \A l \in Bad : k <= l
    BY <1>5, <2>0, LeastNumber, ZenonT(60)
  <2>2. k \in 0 .. n /\ ~Good(k) /\ k # 0
    BY <1>3
  <2>3. k - 1 \in Nat /\ k - 1 \in 0 .. n /\ ~(k <= k - 1) /\ (k - 1) + 1 = k
    BY <2>2, SMTT(60)
  <2>4. Good(k - 1)
    BY <2>1, <2>3, SMTT(60)
  <2>5. Good((k - 1) + 1)
    BY <1>4, <2>2, <2>3, <2>4, SMTT(60)
  <2> QED BY <2>2, <2>3, <2>5
<1>6. n \in 0 .. n
  OBVIOUS
<1>7. Good(n)
  BY <1>5, <1>6, SMTT(60)
<1> QED BY <1>2, <1>7, SMTT(60) DEF Good

-----------------------------------------------------------------------------
\* All spaces.

\* The tables of a space are accounted for, lie below what the allocator still
\* has, and are no other's; what was mapped once has all its tables.
SpaceInv(v) ==
  /\ NoTwice(vs[v].pt)
  /\ vs[v].root = Null => vs[v].pt = <<>> /\ ever[v] = {}
  /\ vs[v].root # Null => SpaceOK(mem, vs[v].root, PtSet(vs[v].pt))
  /\ \A x \in PtSet(vs[v].pt) :
       /\ x < next /\ alloc_color_is_valid(Partition[v], x % NumColors) /\ x \notin stacks
       /\ \A w \in Spaces \ {v} : x \notin PtSet(vs[w].pt)
  /\ \A va \in ever[v] : HasTables(mem, vs[v].root, va)

\* The inductive invariant of the page tables.
VInv ==
  /\ VTypeOK
  /\ \A v \in Spaces : SpaceInv(v)
  /\ \A x \in stacks : x < next

\* The pages of tables are pages that the allocator has handed out.
LEMMA PagesTyped ==
  ASSUME VInv
  PROVE  \A w \in Spaces : \A y \in PtSet(vs[w].pt) : y \in 0 .. (Top - 1) /\ y < next
<1> SUFFICES ASSUME NEW w \in Spaces, NEW y \in PtSet(vs[w].pt) PROVE y \in 0 .. (Top - 1) /\ y < next
  BY SMTT(60)
<1>1. vs[w].pt \in Seq(0 .. (Top - 1)) /\ SpaceInv(w)
  BY SMTT(60) DEF VInv, VTypeOK
<1>2. y \in 0 .. (Top - 1)
  <2>1. PICK k \in 1 .. Len(vs[w].pt) : y = vs[w].pt[k]
    BY DEF PtSet
  <2> DEFINE q == vs[w].pt
             T == 0 .. (Top - 1)
  <2>2. q \in Seq(T) /\ k \in 1 .. Len(q)
    BY <1>1, SMTT(60)
  <2> HIDE DEF q, T
  <2>3. q[k] \in T
    BY <2>2, SMTT(60)
  <2> QED BY <2>1, <2>3, SMTT(60) DEF q, T
<1> QED BY <1>1, <1>2, SMTT(60) DEF SpaceInv

\* The translations by walks.
LEMMA XlateIsWalk ==
  ASSUME NEW v \in Spaces
  PROVE  /\ vs[v].root # Null => \A p \in 0 .. (VPages - 1) : Xlate(v)[p] = WalkTo(mem, vs[v].root, p)
         /\ vs[v].root = Null => \A p \in 0 .. (VPages - 1) : Xlate(v)[p] = NoPte
         /\ Xlate(v) = [p \in 0 .. (VPages - 1) |-> Xlate(v)[p]]
<1>1. \A p \in 0 .. (VPages - 1) : p \in Nat /\ vspace_resolve(mem, vs[v].root, p) = WalkTo(mem, vs[v].root, p)
  BY WalkCut, SMTT(60)
<1> QED BY <1>1, SMTT(60) DEF Xlate

\* A space whose tables are not written.
LEMMA OtherKept ==
  ASSUME VInv, NEW w \in Spaces, vs'[w] = vs[w], mem' \in MemT, VTypeOK',
         \A x \in PtSet(vs[w].pt) : mem'[x] = mem[x]
  PROVE  /\ vs'[w].root # Null => SpaceOK(mem', vs'[w].root, PtSet(vs'[w].pt))
         /\ vs[w].root # Null => \A va \in ever[w] : HasTables(mem', vs[w].root, va)
         /\ Xlate(w)' = Xlate(w)
<1> DEFINE r == vs[w].root
           S == PtSet(vs[w].pt)
<1>1. SpaceInv(w) /\ ever[w] \subseteq 0 .. (VPages - 1)
  BY DEF VInv, VTypeOK
<1>2. CASE r = Null
  <2>1. Xlate(w)' = Xlate(w)
    BY <1>2, SMTT(60) DEF Xlate
  <2> QED BY <1>2, <2>1, Zenon
<1>3. CASE r # Null
  <2>1. SpaceOK(mem, r, S)
    BY <1>1, <1>3, Zenon DEF SpaceInv
  <2>2. /\ SpaceOK(mem', r, S)
        /\ \A a, b, c \in Entries : Walk(mem', r, a, b, c) = Walk(mem, r, a, b, c)
        /\ \A a, b \in Entries : HasT(mem', r, a, b) = HasT(mem, r, a, b)
    <3> HIDE DEF r
    <3>1. \A x \in S : mem'[x] = mem[x]
      BY Zenon
    <3> HIDE DEF S
    <3>2. SameSpace(mem, mem', r, S)
      BY <2>1, <3>1, FrameSpace, SMTT(60)
    <3> QED BY <3>2, Zenon DEF SameSpace
  <2>3. \A p \in 0 .. (VPages - 1) : p \in Nat /\ vpn2(p) \in Entries /\ vpn1(p) \in Entries /\ vpn0(p) \in Entries
    BY Cut, SMTT(60)
  <2>4. \A va \in ever[w] : HasTables(mem', r, va)
    BY <1>1, <2>2, <2>3, Zenon DEF SpaceInv, HasTables
  <2>5. \A p \in 0 .. (VPages - 1) : vspace_resolve(mem', r, p) = vspace_resolve(mem, r, p)
    <3>1. \A p \in 0 .. (VPages - 1) : WalkTo(mem', r, p) = WalkTo(mem, r, p)
      BY <2>2, <2>3, Zenon DEF WalkTo
    <3>2. \A m, p : p \in 0 .. (VPages - 1) => vspace_resolve(m, r, p) = WalkTo(m, r, p)
      BY <2>3, WalkCut, Zenon
    <3> QED BY <3>1, <3>2, Zenon
  <2>6. Xlate(w)' = Xlate(w)
    BY <1>3, <2>5, Zenon DEF Xlate
  <2> QED BY <2>2, <2>4, <2>6, Zenon
<1> QED BY <1>2, <1>3, Zenon

\* Nothing is mapped at first.
LEMMA VInvInit == VInit => VInv
<1> SUFFICES ASSUME VInit PROVE VInv
  OBVIOUS
<1>1. Top \in Nat /\ MaxPt \in Nat
  BY VSpaceAssumption
<1>2. VTypeOK
  <2>1. EmptyTable \in [Entries -> PteRec \cup {NoPte}]
    BY DEF EmptyTable
  <2>2. mem \in [0 .. (Top - 1) -> [Entries -> PteRec \cup {NoPte}]]
    BY <2>1 DEF VInit
  <2>3. vs \in [Spaces -> [root : 0 .. Top, pt : Seq(0 .. (Top - 1))]] /\ \A v \in Spaces : Len(vs[v].pt) <= MaxPt
    BY <1>1 DEF VInit, Null
  <2> QED BY <1>1, <2>2, <2>3 DEF VInit, VTypeOK
<1>3. ASSUME NEW v \in Spaces PROVE SpaceInv(v)
  <2>1. vs[v].pt = <<>> /\ vs[v].root = Null /\ ever[v] = {}
    BY DEF VInit
  <2>2. PtSet(vs[v].pt) = {} /\ NoTwice(vs[v].pt)
    BY <2>1 DEF PtSet, NoTwice
  <2> QED BY <2>1, <2>2, Zenon DEF SpaceInv
<1> QED BY <1>2, <1>3 DEF VInv, VInit

\* A new root.
LEMMA SpaceInitStep ==
  ASSUME VInv, NEW v \in Spaces, SpaceInit(v)
  PROVE  VInv' /\ \A w \in Spaces : Xlate(w)' = Xlate(w)
<1> DEFINE st == State(v)
           x == NewPage(st)
<1>1. /\ VTypeOK /\ SpaceInv(v) /\ vs[v].root = Null /\ vs[v].pt = <<>> /\ ever[v] = {}
      /\ Top \in Nat /\ MaxPt \in Nat /\ Partition[v] \in Nat
  BY VSpaceAssumption, Zenon DEF VInv, SpaceInv, SpaceInit
<1>2. /\ st.mem = mem /\ st.next = next /\ st.pt = <<>> /\ st.p = Partition[v]
      /\ st = [mem |-> mem, next |-> next, root |-> vs[v].root, pt |-> <<>>, p |-> Partition[v], err |-> FALSE]
  BY <1>1, Zenon DEF State
<1>3. /\ x \in 0 .. (Top - 1) /\ next <= x /\ alloc_color_is_valid(Partition[v], x % NumColors)
      /\ 0 < MaxPt /\ next \in 0 .. Top
  <2>0. next \in 0 .. Top
    BY <1>1 DEF VTypeOK
  <2>1. CanAlloc(next, Top, Partition[v], 1) /\ Len(st.pt) < MaxPt
    BY <1>2, Zenon DEF SpaceInit, CanGrow
  <2>2. x = FrameFor(next, Partition[v])
    BY <1>2, Zenon DEF NewPage
  <2>3. x \in Nat /\ next <= x /\ x + 1 \in 0 .. Top /\ alloc_color_is_valid(Partition[v], x % NumColors)
    BY <1>1, <2>0, <2>1, <2>2, PageFound, Zenon
  <2>4. 0 < MaxPt
    BY <1>2, <2>1, Zenon
  <2> HIDE DEF x
  <2>5. x \in 0 .. (Top - 1)
    BY <1>1, <2>3
  <2> QED BY <2>0, <2>3, <2>4, <2>5, SMTT(60)
<1>4. /\ mem' = [mem EXCEPT ![x] = EmptyTable] /\ next' = x + 1
      /\ vs' = [vs EXCEPT ![v] = [root |-> x, pt |-> Append(<<>>, x)]]
      /\ stacks' = stacks /\ ever' = ever
  <2>1. /\ alloc_pt_page(st).mem = [mem EXCEPT ![x] = EmptyTable] /\ alloc_pt_page(st).next = x + 1
        /\ alloc_pt_page(st).pt = Append(<<>>, x)
    <3> HIDE DEF x
    <3>1. alloc_pt_page(st) = [st EXCEPT !.mem[x] = EmptyTable, !.next = x + 1, !.pt = Append(@, x)]
      BY DEF alloc_pt_page, x
    <3> HIDE DEF st
    <3> QED BY <1>2, <3>1, ZenonT(60)
  <2> QED BY <2>1, Zenon DEF SpaceInit
<1> HIDE DEF x, st
<1>4a. next \in 0 .. Top /\ next <= x /\ x \in 0 .. (Top - 1) /\ next' = x + 1 /\ Top \in Nat
  BY <1>1, <1>3, <1>4, Zenon
<1>5. mem \in MemT /\ vs \in [Spaces -> [root : 0 .. Top, pt : Seq(0 .. (Top - 1))]]
  BY <1>1, Zenon DEF VTypeOK, MemT
<1>6. /\ mem' \in MemT /\ SpaceOK(mem', x, {x})
      /\ \A y \in 0 .. (Top - 1) : y # x => mem'[y] = mem[y]
      /\ \A a, b, c \in Entries : Walk(mem', x, a, b, c) = NoPte
  <2>1. NewRoot(mem, mem', x)
    BY <1>3, <1>4, <1>5, NewSpace, ZenonT(60)
  <2> QED BY <2>1, Zenon DEF NewRoot
<1>7. vs'[v].root = x /\ vs'[v].pt = Append(<<>>, x) /\ \A w \in Spaces \ {v} : vs'[w] = vs[w]
  BY <1>4, <1>5, SMTT(60)
<1>8. /\ vs'[v].pt \in Seq(0 .. (Top - 1)) /\ Len(vs'[v].pt) = 1
      /\ PtSet(vs'[v].pt) = {x} /\ NoTwice(vs'[v].pt)
  <2> DEFINE e == << >>
  <2>1. e \in Seq(0 .. (Top - 1)) /\ Len(e) = 0 /\ PtSet(e) = {} /\ NoTwice(e)
    BY SMTT(60) DEF PtSet, NoTwice
  <2>2. vs'[v].pt = Append(e, x)
    BY <1>7, SMTT(60)
  <2> HIDE DEF e
  <2>3. /\ Append(e, x) \in Seq(0 .. (Top - 1)) /\ Len(Append(e, x)) = Len(e) + 1
        /\ PtSet(Append(e, x)) = PtSet(e) \cup {x}
        /\ NoTwice(e) /\ x \notin PtSet(e) => NoTwice(Append(e, x))
    BY <1>3, <2>1, AppendPage, ZenonT(60)
  <2> QED BY <2>1, <2>2, <2>3, SMTT(60)
<1>9. VTypeOK'
  <2>1. vs' \in [Spaces -> [root : 0 .. Top, pt : Seq(0 .. (Top - 1))]]
    <3>1. [root |-> x, pt |-> Append(<<>>, x)] \in [root : 0 .. Top, pt : Seq(0 .. (Top - 1))]
      BY <1>1, <1>3, <1>7, <1>8, SMTT(60)
    <3> QED BY <1>4, <1>5, <3>1, Zenon
  <2>2. \A w \in Spaces : Len(vs'[w].pt) <= MaxPt
    <3>1. Len(vs'[v].pt) <= MaxPt
      BY <1>1, <1>3, <1>8, SMTT(60)
    <3>2. \A w \in Spaces \ {v} : Len(vs'[w].pt) <= MaxPt
      BY <1>1, <1>7, Zenon DEF VTypeOK
    <3> QED BY <3>1, <3>2, SMTT(60)
  <2>3. next' \in 0 .. Top
    BY <1>4a
  <2> QED BY <1>1, <1>4, <1>6, <2>1, <2>2, <2>3, ZenonT(60) DEF VTypeOK, MemT
<1>10. \A w \in Spaces : \A y \in PtSet(vs[w].pt) : y \in 0 .. (Top - 1) /\ y < next /\ y # x
  <2>1. \A w \in Spaces : \A y \in PtSet(vs[w].pt) : y \in 0 .. (Top - 1) /\ y < next
    BY <1>1, PagesTyped, SMTT(60)
  <2> QED BY <1>3, <2>1, SMTT(60)
<1>11. \A y \in stacks : y \in 0 .. (Top - 1) /\ y < next /\ y < next' /\ y # x
  <2>1. \A y \in stacks : y \in 0 .. (Top - 1) /\ y < next
    BY <1>1, Zenon DEF VInv, VTypeOK
  <2> QED BY <1>4a, <2>1
<1>12. ASSUME NEW w \in Spaces PROVE SpaceInv(w)' /\ Xlate(w)' = Xlate(w)
  <2>1. CASE w = v
    <3>1. Xlate(v)' = Xlate(v)
      <4>1. \A p \in 0 .. (VPages - 1) : Xlate(v)[p] = NoPte
        BY <1>1, XlateIsWalk, SMTT(60)
      <4>2. \A p \in 0 .. (VPages - 1) : vspace_resolve(mem', x, p) = NoPte
        <5> SUFFICES ASSUME NEW p \in 0 .. (VPages - 1) PROVE vspace_resolve(mem', x, p) = NoPte
          OBVIOUS
        <5>1. p \in Nat
          OBVIOUS
        <5>2. vpn2(p) \in Entries /\ vpn1(p) \in Entries /\ vpn0(p) \in Entries
          BY <5>1, Cut, Zenon
        <5>3. vspace_resolve(mem', x, p) = Walk(mem', x, vpn2(p), vpn1(p), vpn0(p))
          BY <5>1, WalkCut, Zenon DEF WalkTo
        <5> QED BY <1>6, <5>2, <5>3, Zenon
      <4> QED BY <1>7, <4>1, <4>2, Zenon DEF Xlate
    <3>2. \A u \in Spaces \ {v} : x \notin PtSet(vs'[u].pt)
      BY <1>7, <1>10, SMTT(60)
    <3>3. x < next' /\ x \notin stacks' /\ ever'[v] = {} /\ x # Null
      <4>1. x < next' /\ x # Null
        BY <1>4a DEF Null
      <4> QED BY <1>1, <1>4, <1>11, <4>1, Zenon
    <3>4. SpaceInv(v)'
      BY <1>3, <1>6, <1>7, <1>8, <3>2, <3>3, ZenonT(60) DEF SpaceInv
    <3> QED BY <2>1, <3>1, <3>4, SMTT(60)
  <2>2. CASE w # v
    <3>1. vs'[w] = vs[w] /\ SpaceInv(w)
      BY <1>7, <2>2, SMTT(60) DEF VInv
    <3>2. \A y \in PtSet(vs[w].pt) : mem'[y] = mem[y]
      BY <1>6, <1>10, Zenon
    <3>3. /\ vs'[w].root # Null => SpaceOK(mem', vs'[w].root, PtSet(vs'[w].pt))
          /\ vs[w].root # Null => \A va \in ever[w] : HasTables(mem', vs[w].root, va)
          /\ Xlate(w)' = Xlate(w)
      BY <1>6, <1>9, <3>1, <3>2, OtherKept, ZenonT(60)
    <3>4. \A y \in PtSet(vs[w].pt) : y < next' /\ y \notin stacks'
      <4>1. \A y \in PtSet(vs[w].pt) : y \in 0 .. (Top - 1) /\ y < next /\ y \notin stacks
        BY <1>10, <3>1, Zenon DEF SpaceInv
      <4>2. \A y \in 0 .. (Top - 1) : y < next => y < next'
        BY <1>3, <1>4, SMTT(60)
      <4> QED BY <1>4, <4>1, <4>2, SMTT(60)
    <3>5. \A y \in PtSet(vs[w].pt) : \A u \in Spaces \ {w} : y \notin PtSet(vs'[u].pt)
      BY <1>7, <1>8, <1>10, <3>1, Zenon DEF SpaceInv
    <3>6. SpaceInv(w)'
      BY <1>4, <3>1, <3>3, <3>4, <3>5, ZenonT(60) DEF SpaceInv
    <3> QED BY <3>3, <3>6, ZenonT(60)
  <2> QED BY <2>1, <2>2, SMTT(60)
<1>13. VInv'
  BY <1>4, <1>9, <1>11, <1>12, SMTT(60) DEF VInv
<1> QED BY <1>12, <1>13, SMTT(60)

\* A stack is taken from pages that no table uses.
LEMMA TakeStackStep ==
  ASSUME VInv, NEW p \in Nat, TakeStack(p)
  PROVE  VInv' /\ \A w \in Spaces : Xlate(w)' = Xlate(w)
<1> DEFINE x == FrameFor(next, p)
<1>1. /\ VTypeOK /\ next \in 0 .. Top /\ Top \in Nat /\ StackPages \in Nat
      /\ mem' = mem /\ vs' = vs /\ ever' = ever
      /\ stacks' = stacks \cup (x .. (x + StackPages - 1)) /\ next' = x + StackPages
      /\ CanAlloc(next, Top, p, StackPages)
  BY VSpaceAssumption, Zenon DEF VInv, VTypeOK, TakeStack
<1>2. x \in Nat /\ next <= x /\ x + StackPages \in 0 .. Top
  BY <1>1, PageFound, SMTT(60)
<1> HIDE DEF x
<1>3. \A y \in x .. (x + StackPages - 1) : y \in 0 .. (Top - 1) /\ next <= y /\ y < next'
  BY <1>1, <1>2, SMTT(60)
<1>4. \A y \in stacks : y \in 0 .. (Top - 1) /\ y < next /\ y < next'
  BY <1>1, <1>2, SMTT(60) DEF VInv, VTypeOK
<1>5. VTypeOK'
  BY <1>1, <1>2, <1>3, <1>4, Zenon DEF VTypeOK
<1>6. ASSUME NEW w \in Spaces PROVE SpaceInv(w)'
  <2>1. SpaceInv(w) /\ \A y \in PtSet(vs[w].pt) : y \in 0 .. (Top - 1) /\ y < next
    BY PagesTyped, SMTT(60) DEF VInv
  <2>2. \A y \in PtSet(vs[w].pt) : y < next' /\ y \notin stacks'
    <3>1. \A y \in PtSet(vs[w].pt) : y \in 0 .. (Top - 1) /\ y < next /\ y \notin stacks
      BY <2>1, Zenon DEF SpaceInv
    <3>2. \A y \in 0 .. (Top - 1) : y < next => y < next' /\ y \notin x .. (x + StackPages - 1)
      BY <1>1, <1>2, SMTT(60)
    <3>3. stacks' = stacks \cup (x .. (x + StackPages - 1))
      BY <1>1
    <3> QED BY <3>1, <3>2, <3>3, SMTT(60)
  <2> QED BY <1>1, <2>1, <2>2, Zenon DEF SpaceInv
<1>7. \A w \in Spaces : Xlate(w)' = Xlate(w)
  BY <1>1 DEF Xlate
<1> QED BY <1>1, <1>3, <1>4, <1>5, <1>6, <1>7, SMTT(60) DEF VInv

\* A space whose tables were written, and the other spaces: the invariant and the
\* translations after a call.  P are the pages of its tables then.
LEMMA CallStep ==
  ASSUME VInv, NEW v \in Spaces, vs[v].root # Null,
         NEW pt \in Seq(0 .. (Top - 1)), Len(pt) <= MaxPt, NoTwice(pt),
         vs' = [vs EXCEPT ![v].pt = pt], stacks' = stacks, mem' \in MemT,
         next' \in 0 .. Top, next <= next',
         SpaceOK(mem', vs[v].root, PtSet(pt)),
         \A x \in PtSet(pt) : x < next' /\ alloc_color_is_valid(Partition[v], x % NumColors),
         \A x \in PtSet(pt) : x \notin PtSet(vs[v].pt) => x >= next,
         \A x \in 0 .. (Top - 1) : x \notin PtSet(pt) => mem'[x] = mem[x],
         NEW E \in SUBSET (0 .. (VPages - 1)), ever' = [ever EXCEPT ![v] = E],
         \A va \in E : HasTables(mem', vs[v].root, va)
  PROVE  VInv' /\ \A w \in Spaces \ {v} : Xlate(w)' = Xlate(w)
<1>1. /\ VTypeOK /\ next \in 0 .. Top /\ Top \in Nat
      /\ vs \in [Spaces -> [root : 0 .. Top, pt : Seq(0 .. (Top - 1))]]
      /\ ever \in [Spaces -> SUBSET (0 .. (VPages - 1))]
  BY VSpaceAssumption, Zenon DEF VInv, VTypeOK
<1>2. vs'[v].pt = pt /\ vs'[v].root = vs[v].root /\ \A w \in Spaces \ {v} : vs'[w] = vs[w]
  BY <1>1
<1>3. ever'[v] = E /\ \A w \in Spaces \ {v} : ever'[w] = ever[w]
  BY <1>1
<1>4. VTypeOK'
  <2>1. vs' \in [Spaces -> [root : 0 .. Top, pt : Seq(0 .. (Top - 1))]]
    BY <1>1, Zenon
  <2>2. \A w \in Spaces : Len(vs'[w].pt) <= MaxPt
    BY <1>1, <1>2 DEF VTypeOK
  <2>3. ever' \in [Spaces -> SUBSET (0 .. (VPages - 1))]
    BY <1>1
  <2> QED BY <1>1, <2>1, <2>2, <2>3, SMTT(60) DEF VTypeOK, MemT
<1>5. \A w \in Spaces : \A y \in PtSet(vs[w].pt) : y \in 0 .. (Top - 1) /\ y < next
  BY PagesTyped, SMTT(60)
<1>6. \A y \in stacks : y \in 0 .. (Top - 1) /\ y < next /\ y < next'
  BY <1>1, SMTT(60) DEF VInv, VTypeOK
<1>7. PtSet(pt) \subseteq 0 .. (Top - 1)
  BY TreeFacts
<1>8. \A x \in PtSet(pt) : x \notin stacks /\ \A w \in Spaces \ {v} : x \notin PtSet(vs[w].pt)
  <2> SUFFICES ASSUME NEW x \in PtSet(pt)
               PROVE  x \notin stacks /\ \A w \in Spaces \ {v} : x \notin PtSet(vs[w].pt)
    OBVIOUS
  <2>1. CASE x \in PtSet(vs[v].pt)
    <3>1. SpaceInv(v)
      BY DEF VInv
    <3> QED BY <2>1, <3>1, SMTT(60) DEF SpaceInv
  <2>2. CASE x \notin PtSet(vs[v].pt)
    <3>1. x >= next /\ x \in 0 .. (Top - 1)
      BY <1>7, <2>2, SMTT(60)
    <3>2. \A y \in 0 .. (Top - 1) : y < next => y # x
      BY <1>1, <3>1, SMTT(60)
    <3> QED BY <1>5, <1>6, <3>2, SMTT(60)
  <2> QED BY <2>1, <2>2, SMTT(60)
<1>9. ASSUME NEW w \in Spaces \ {v} PROVE SpaceInv(w)' /\ Xlate(w)' = Xlate(w)
  <2>1. vs'[w] = vs[w] /\ SpaceInv(w) /\ w \in Spaces
    BY <1>2, SMTT(60) DEF VInv
  <2>2. \A y \in PtSet(vs[w].pt) : mem'[y] = mem[y]
    BY <1>5, <1>8, SMTT(60)
  <2>3. /\ vs'[w].root # Null => SpaceOK(mem', vs'[w].root, PtSet(vs'[w].pt))
        /\ vs[w].root # Null => \A va \in ever[w] : HasTables(mem', vs[w].root, va)
        /\ Xlate(w)' = Xlate(w)
    BY <1>4, <2>1, <2>2, OtherKept, SMTT(60)
  <2>4. \A y \in PtSet(vs[w].pt) : y < next' /\ y \notin stacks'
    BY <1>1, <1>5, <2>1, SMTT(60) DEF SpaceInv
  <2>5. \A y \in PtSet(vs[w].pt) : \A u \in Spaces \ {w} : y \notin PtSet(vs'[u].pt)
    <3> SUFFICES ASSUME NEW y \in PtSet(vs[w].pt), NEW u \in Spaces \ {w} PROVE y \notin PtSet(vs'[u].pt)
      OBVIOUS
    <3>1. CASE u = v
      BY <1>2, <1>8, <3>1, SMTT(60)
    <3>2. CASE u # v
      BY <1>2, <2>1, <3>2, SMTT(60) DEF SpaceInv
    <3> QED BY <3>1, <3>2, SMTT(60)
  <2>6. SpaceInv(w)'
    BY <1>3, <2>1, <2>3, <2>4, <2>5, SMTT(60) DEF SpaceInv
  <2> QED BY <2>3, <2>6, SMTT(60)
<1>10. SpaceInv(v)'
  <2>1. \A x \in PtSet(vs'[v].pt) : \A w \in Spaces \ {v} : x \notin PtSet(vs'[w].pt)
    BY <1>2, <1>8, SMTT(60)
  <2> QED BY <1>2, <1>3, <1>8, <2>1, SMTT(60) DEF SpaceInv
<1>11. VInv'
  BY <1>4, <1>6, <1>9, <1>10, SMTT(60) DEF VInv
<1> QED BY <1>9, <1>11, SMTT(60)

\* Pages are unmapped.
LEMMA UnmapStep ==
  ASSUME VInv, NEW v \in Spaces, NEW va \in Nat, NEW n \in Nat, Unmap(v, va, n)
  PROVE  /\ VInv' /\ \A w \in Spaces \ {v} : Xlate(w)' = Xlate(w)
         /\ \A p \in 0 .. (VPages - 1) :
              Xlate(v)'[p] = IF p \in {Cell(va, j) : j \in 0 .. (n - 1)} THEN NoPte ELSE Xlate(v)[p]
<1> DEFINE r == vs[v].root
           S == PtSet(vs[v].pt)
           ps == {Cell(va, j) : j \in 0 .. (n - 1)}
<1>1. /\ r # Null /\ mem' = vspace_unmap(mem, r, va, n) /\ next' = next /\ vs' = vs /\ stacks' = stacks
      /\ ever' = ever
  BY SMTT(60) DEF Unmap
<1>2. SpaceOK(mem, r, S) /\ SpaceInv(v) /\ VTypeOK /\ ever[v] \in SUBSET (0 .. (VPages - 1))
  BY <1>1, ZenonT(60) DEF VInv, SpaceInv, VTypeOK
<1>3. Unmapped(mem, mem', r, S, ps)
  <2> HIDE DEF r, S
  <2> QED BY <1>1, <1>2, UnmapLoop, Zenon
<1>4. SpaceOK(mem', r, S) /\ mem' \in MemT
  BY <1>3, ZenonT(60) DEF Unmapped, SpaceOK
<1>5. \A p \in ever[v] : HasTables(mem', r, p)
  <2>1. \A p \in ever[v] : p \in Nat /\ vpn2(p) \in Entries /\ vpn1(p) \in Entries
    <3>1. \A p \in Nat : vpn2(p) \in Entries /\ vpn1(p) \in Entries
      BY Cut
    <3>2. \A p \in ever[v] : p \in Nat
      BY <1>2
    <3> QED BY <3>1, <3>2
  <2> QED BY <1>2, <1>3, <2>1, Zenon DEF SpaceInv, HasTables, Unmapped
<1>6. VInv' /\ \A w \in Spaces \ {v} : Xlate(w)' = Xlate(w)
  <2>1. /\ vs[v].pt \in Seq(0 .. (Top - 1)) /\ Len(vs[v].pt) <= MaxPt /\ NoTwice(vs[v].pt)
        /\ next' \in 0 .. Top /\ next <= next'
    <3>1. next \in 0 .. Top /\ next' = next
      BY <1>1, <1>2, Zenon DEF VTypeOK
    <3>2. next <= next'
      BY <3>1, VSpaceAssumption
    <3>3. vs[v] \in [root : 0 .. Top, pt : Seq(0 .. (Top - 1))] /\ Len(vs[v].pt) <= MaxPt /\ NoTwice(vs[v].pt)
      BY <1>2, Zenon DEF VTypeOK, SpaceInv
    <3>4. vs[v].pt \in Seq(0 .. (Top - 1))
      BY <3>3
    <3> QED BY <3>1, <3>2, <3>3, <3>4, Zenon
  <2>2. vs' = [vs EXCEPT ![v].pt = vs[v].pt] /\ ever' = [ever EXCEPT ![v] = ever[v]]
    BY <1>1, <1>2, SMTT(60) DEF VTypeOK
  <2>3. \A x \in S : x < next' /\ alloc_color_is_valid(Partition[v], x % NumColors)
    BY <1>1, <1>2, ZenonT(60) DEF SpaceInv
  <2>4. \A x \in 0 .. (Top - 1) : x \notin S => mem'[x] = mem[x]
    BY <1>3, SMTT(60) DEF Unmapped
  <2> QED BY <1>1, <1>2, <1>4, <1>5, <2>1, <2>2, <2>3, <2>4, CallStep, ZenonT(60)
<1>7. \A p \in 0 .. (VPages - 1) : Xlate(v)'[p] = IF p \in ps THEN NoPte ELSE Xlate(v)[p]
  <2>1. \A p \in 0 .. (VPages - 1) : WalkTo(mem', r, p) = IF p \in ps THEN NoPte ELSE WalkTo(mem, r, p)
    BY <1>3, Zenon DEF Unmapped
  <2>2. \A p \in 0 .. (VPages - 1) : Xlate(v)[p] = WalkTo(mem, r, p)
    BY <1>1, XlateIsWalk, SMTT(60)
  <2>3. \A p \in 0 .. (VPages - 1) : Xlate(v)'[p] = WalkTo(mem', r, p)
    <3>1. \A p \in 0 .. (VPages - 1) : vspace_resolve(mem', r, p) = WalkTo(mem', r, p)
      BY WalkCut, SMTT(60)
    <3> QED BY <1>1, <3>1, SMTT(60) DEF Xlate
  <2> HIDE DEF ps
  <2> QED BY <2>1, <2>2, <2>3, Zenon
<1> QED BY <1>6, <1>7, SMTT(60)

\* The state in which a call for v begins.
LEMMA StateInv ==
  ASSUME VInv, NEW v \in Spaces, vs[v].root # Null
  PROVE  /\ StInv(State(v))
         /\ State(v).mem = mem /\ State(v).next = next /\ State(v).root = vs[v].root
         /\ State(v).pt = vs[v].pt /\ State(v).p = Partition[v] /\ State(v).err = FALSE
<1> DEFINE st == State(v)
<1>1. /\ st.mem = mem /\ st.next = next /\ st.root = vs[v].root
      /\ st.pt = vs[v].pt /\ st.p = Partition[v] /\ st.err = FALSE
      /\ st = [mem |-> st.mem, next |-> st.next, root |-> st.root, pt |-> st.pt, p |-> st.p, err |-> st.err]
  BY Zenon DEF State
<1>2. VTypeOK /\ SpaceInv(v) /\ Partition[v] \in Nat /\ Top \in Nat
  BY VSpaceAssumption, SMTT(60) DEF VInv
<1>3. vs[v].root \in 0 .. (Top - 1) /\ vs[v].pt \in Seq(0 .. (Top - 1)) /\ Len(vs[v].pt) <= MaxPt
  BY <1>2, SMTT(60) DEF VTypeOK, Null
<1> HIDE DEF st
<1>4. st \in StRec
  BY <1>1, <1>2, <1>3, ZenonT(60) DEF StRec, VTypeOK, MemT
<1>5. StInv(st)
  BY <1>1, <1>2, <1>3, <1>4, Zenon DEF StInv, SpaceInv
<1> QED BY <1>1, <1>5, Zenon DEF st

\* The first c pages from va on were free in x and are mapped in y.
Begun(x, y, va, ppn, flags, c) ==
  /\ \A j \in 0 .. (c - 1) : x[Cell(va, j)] = NoPte /\ y[Cell(va, j)] = Pte(ppn + j, flags)
  /\ \A p \in 0 .. (VPages - 1) : (\A j \in 0 .. (c - 1) : p # Cell(va, j)) => y[p] = x[p]

\* A beginning of the range is mapped, all of it free before.
LEMMA MapStep ==
  ASSUME VInv, NEW v \in Spaces, NEW va \in Nat, NEW n \in Nat, NEW f \in Frames, Map(v, va, n, f)
  PROVE  /\ VInv' /\ \A w \in Spaces \ {v} : Xlate(w)' = Xlate(w)
         /\ \E c \in 0 .. n : Begun(Xlate(v), Xlate(v)', va, f.ppn, Flags(Partition[v], f.perms), c)
<1> DEFINE st == State(v)
           g == vspace_map(st, va, n, f)
           r == vs[v].root
           fl == Flags(Partition[v], f.perms)
           E == ever[v] \cup Mapped(v)'
<1>1. /\ r # Null /\ mem' = g.mem /\ next' = g.next /\ vs' = [vs EXCEPT ![v].pt = g.pt]
      /\ ever' = [ever EXCEPT ![v] = @ \cup Mapped(v)'] /\ stacks' = stacks
  BY DEF Map
<1>2. /\ StInv(st) /\ st.mem = mem /\ st.next = next /\ st.root = r
      /\ st.pt = vs[v].pt /\ st.p = Partition[v] /\ st.err = FALSE
  BY <1>1, StateInv, ZenonT(60)
<1>3. LoopInv(st, g, va, f.ppn, fl, n)
  <2> HIDE DEF st
  <2> QED BY <1>2, MapLoop, ZenonT(60)
<1> HIDE DEF g, st, fl
<1>4. StInv(g) /\ Extended(st, g)
  BY <1>3, SMTT(60) DEF LoopInv
<1>5. PICK c \in 0 .. n : Prefix(mem, mem', r, va, f.ppn, fl, c)
  BY <1>1, <1>2, <1>3, SMTT(60) DEF LoopInv
<1>6. VTypeOK /\ SpaceInv(v)
  BY DEF VInv
<1>7. vs'[v].root = r
  BY <1>1, <1>6, SMTT(60) DEF VTypeOK
<1>8. \A p \in 0 .. (VPages - 1) : Xlate(v)[p] = WalkTo(mem, r, p)
  BY <1>1, XlateIsWalk, SMTT(60)
<1>9. \A p \in 0 .. (VPages - 1) : Xlate(v)'[p] = WalkTo(mem', r, p)
  <2>1. \A p \in 0 .. (VPages - 1) : vspace_resolve(mem', r, p) = WalkTo(mem', r, p)
    BY WalkCut, SMTT(60)
  <2> QED BY <1>1, <1>7, <2>1, SMTT(60) DEF Xlate
<1>10. \A j \in Nat : Cell(va, j) \in 0 .. (VPages - 1)
  BY CellOfCut, ZenonT(60)
<1>11. /\ \A j \in 0 .. (c - 1) : Xlate(v)[Cell(va, j)] = NoPte /\ Xlate(v)'[Cell(va, j)] = Pte(f.ppn + j, fl)
       /\ \A p \in 0 .. (VPages - 1) :
            (\A j \in 0 .. (c - 1) : p # Cell(va, j)) => Xlate(v)'[p] = Xlate(v)[p]
  <2>1. \A j \in 0 .. (c - 1) : Cell(va, j) \in 0 .. (VPages - 1)
    BY <1>10, SMTT(60)
  <2>2. \A j \in 0 .. (c - 1) : WalkTo(mem, r, Cell(va, j)) = NoPte /\ WalkTo(mem', r, Cell(va, j)) = Pte(f.ppn + j, fl)
    BY <1>5, Zenon DEF Prefix
  <2>3. \A p \in 0 .. (VPages - 1) :
          (\A j \in 0 .. (c - 1) : p # Cell(va, j)) => WalkTo(mem', r, p) = WalkTo(mem, r, p)
    BY <1>5, Zenon DEF Prefix
  <2> HIDE DEF r
  <2>4. \A j \in 0 .. (c - 1) : Xlate(v)[Cell(va, j)] = NoPte /\ Xlate(v)'[Cell(va, j)] = Pte(f.ppn + j, fl)
    BY <1>8, <1>9, <2>1, <2>2, Zenon
  <2>5. \A p \in 0 .. (VPages - 1) :
          (\A j \in 0 .. (c - 1) : p # Cell(va, j)) => Xlate(v)'[p] = Xlate(v)[p]
    BY <1>8, <1>9, <2>3, Zenon
  <2> QED BY <2>4, <2>5, Zenon
<1>12. Mapped(v)' = {p \in 0 .. (VPages - 1) : Xlate(v)'[p] # NoPte}
  BY DEF Mapped
<1>13. E \in SUBSET (0 .. (VPages - 1)) /\ ever' = [ever EXCEPT ![v] = E]
  BY <1>1, <1>6, <1>12, SMTT(60) DEF VTypeOK
<1>14. \A p \in E : HasTables(mem', r, p)
  <2>1. \A p \in 0 .. (VPages - 1) : p \in Nat /\ vpn2(p) \in Entries /\ vpn1(p) \in Entries
    BY Cut, SMTT(60)
  <2>2. ASSUME NEW p \in ever[v] PROVE HasTables(mem', r, p)
    <3>1. p \in 0 .. (VPages - 1) /\ HasTables(mem, r, p)
      BY <1>6, Zenon DEF VTypeOK, SpaceInv
    <3> QED BY <1>1, <1>2, <1>4, <2>1, <3>1, SMTT(60) DEF Extended, HasTables
  <2>3. ASSUME NEW p \in 0 .. (VPages - 1), Xlate(v)'[p] # NoPte PROVE HasTables(mem', r, p)
    BY <1>9, <2>3, WalkByLeaf, Zenon DEF WalkTo, HasTables
  <2> QED BY <1>12, <2>2, <2>3, ZenonT(60)
<1> HIDE DEF E
<1>15. VInv' /\ \A w \in Spaces \ {v} : Xlate(w)' = Xlate(w)
  <2>1. /\ g.pt \in Seq(0 .. (Top - 1)) /\ Len(g.pt) <= MaxPt /\ NoTwice(g.pt)
        /\ mem' \in MemT /\ next' \in 0 .. Top /\ next <= next'
    BY <1>1, <1>2, <1>4, SMTT(60) DEF StInv, StRec, Extended
  <2>2. SpaceOK(mem', r, PtSet(g.pt))
    BY <1>1, <1>2, <1>4, SMTT(60) DEF StInv, Extended
  <2>3. \A x \in PtSet(g.pt) : x < next' /\ alloc_color_is_valid(Partition[v], x % NumColors)
    BY <1>1, <1>2, <1>4, SMTT(60) DEF StInv, Extended
  <2>4. \A x \in PtSet(g.pt) : x \notin PtSet(vs[v].pt) => x >= next
    BY <1>2, <1>4, ZenonT(60) DEF Extended
  <2>5. \A x \in 0 .. (Top - 1) : x \notin PtSet(g.pt) => mem'[x] = mem[x]
    BY <1>1, <1>2, <1>4, SMTT(60) DEF Extended
  <2> QED BY <1>1, <1>13, <1>14, <2>1, <2>2, <2>3, <2>4, <2>5, CallStep, ZenonT(60)
<1>16. Begun(Xlate(v), Xlate(v)', va, f.ppn, fl, c)
  BY <1>11, ZenonT(60) DEF Begun
<1> QED BY <1>15, <1>16, SMTT(60) DEF fl

\* The translations of all spaces, as the abstract specification has them.
XlateAll == [v \in Spaces |-> Xlate(v)]

\* A step of the page tables is a step of the partial functions.
LEMMA SpaceStep ==
  ASSUME VInv, [VNext]_vars
  PROVE  VInv' /\ [AS!ANext]_XlateAll
<1>0. VPages \in Nat \ {0} /\ MaxLen \in Nat
  BY VSpaceAssumption, SMTT(60) DEF VPages
<1>1. CASE UNCHANGED vars
  <2>1. mem' = mem /\ next' = next /\ vs' = vs /\ stacks' = stacks /\ ever' = ever
    BY <1>1, SMTT(60) DEF vars
  <2>2. VInv'
    BY <2>1, ZenonT(60) DEF VInv, VTypeOK, SpaceInv
  <2>3. XlateAll' = XlateAll
    BY <2>1 DEF XlateAll, Xlate
  <2> QED BY <2>2, <2>3, SMTT(60)
<1>2. ASSUME NEW v \in Spaces, SpaceInit(v) PROVE VInv' /\ [AS!ANext]_XlateAll
  <2>1. VInv' /\ \A w \in Spaces : Xlate(w)' = Xlate(w)
    BY <1>2, SpaceInitStep, SMTT(60)
  <2> QED BY <2>1 DEF XlateAll
<1>3. ASSUME NEW v \in Spaces, TakeStack(Partition[v]) PROVE VInv' /\ [AS!ANext]_XlateAll
  <2>0. Partition[v] \in Nat
    BY VSpaceAssumption
  <2>1. VInv' /\ \A w \in Spaces : Xlate(w)' = Xlate(w)
    BY <1>3, <2>0, TakeStackStep, SMTT(60)
  <2> QED BY <2>1 DEF XlateAll
<1>4. ASSUME NEW v \in Spaces, NEW va \in Vaddrs, NEW n \in 1 .. MaxLen, Unmap(v, va, n)
      PROVE  VInv' /\ [AS!ANext]_XlateAll
  <2> DEFINE b == va % VPages
             ps == {Cell(va, j) : j \in 0 .. (n - 1)}
  <2>0. va \in Nat /\ n \in Nat
    BY VSpaceAssumption, SMTT(60)
  <2>1. /\ VInv' /\ \A w \in Spaces \ {v} : Xlate(w)' = Xlate(w)
        /\ \A p \in 0 .. (VPages - 1) : Xlate(v)'[p] = IF p \in ps THEN NoPte ELSE Xlate(v)[p]
    BY <1>4, <2>0, UnmapStep, Zenon
  <2>2. b \in 0 .. (VPages - 1) /\ AS!Named(b, n) = ps /\ ps \subseteq 0 .. (VPages - 1)
    <3>1. \A j \in Nat : (b + j) % VPages = Cell(va, j) /\ Cell(va, j) \in 0 .. (VPages - 1)
      BY <2>0, CellOfCut, Zenon
    <3>2. b \in 0 .. (VPages - 1)
      BY <2>0, SameWay
    <3> HIDE DEF b
    <3>3. \A j \in 0 .. (n - 1) : j \in Nat
      BY <2>0
    <3>4. AS!Named(b, n) = ps
      BY <3>1, <3>3, SMTT(60) DEF AS!Named, AS!At
    <3>5. ps \subseteq 0 .. (VPages - 1)
      BY <3>1, <3>3, SMTT(60)
    <3> QED BY <3>2, <3>4, <3>5, SMTT(60)
  <2> HIDE DEF b, ps
  <2>3. AS!AUnmap(v, b, n)
    <3>1. \A p \in ps : Xlate(v)'[p] = NoPte
      BY <2>1, <2>2
    <3>2. \A w \in Spaces, p \in 0 .. (VPages - 1) : w # v \/ p \notin ps => Xlate(w)'[p] = Xlate(w)[p]
      BY <2>1, SMTT(60)
    <3> QED BY <2>2, <3>1, <3>2, ZenonT(60) DEF AS!AUnmap, AS!OnlyChanges
  <2>4. AS!ANext
    BY <2>2, <2>3, SMTT(60) DEF AS!ANext
  <2> QED BY <2>1, <2>4, SMTT(60)
<1>5. ASSUME NEW v \in Spaces, NEW va \in Vaddrs, NEW n \in 1 .. MaxLen, NEW f \in Frames, Map(v, va, n, f)
      PROVE  VInv' /\ [AS!ANext]_XlateAll
  <2> DEFINE b == va % VPages
             fl == Flags(Partition[v], f.perms)
  <2>0. va \in Nat /\ n \in Nat /\ f.ppn \in Nat
    BY VSpaceAssumption, SMTT(60)
  <2>1. /\ VInv' /\ \A w \in Spaces \ {v} : Xlate(w)' = Xlate(w)
        /\ \E c \in 0 .. n : Begun(Xlate(v), Xlate(v)', va, f.ppn, fl, c)
    BY <1>5, <2>0, MapStep, SMTT(60)
  <2>1a. PICK c \in 0 .. n : Begun(Xlate(v), Xlate(v)', va, f.ppn, fl, c)
    BY <2>1, SMTT(60)
  <2>2. /\ \A j \in 0 .. (c - 1) : Xlate(v)[Cell(va, j)] = NoPte /\ Xlate(v)'[Cell(va, j)] = Pte(f.ppn + j, fl)
        /\ \A p \in 0 .. (VPages - 1) :
             (\A j \in 0 .. (c - 1) : p # Cell(va, j)) => Xlate(v)'[p] = Xlate(v)[p]
    BY <2>1a, ZenonT(60) DEF Begun
  <2> HIDE DEF fl
  <2>3. CASE c = 0
    <3>1. \A p \in 0 .. (VPages - 1) : Xlate(v)'[p] = Xlate(v)[p]
      BY <2>2, <2>3
    <3>2. Xlate(v)' = Xlate(v)
      BY <3>1, ZenonT(60) DEF Xlate
    <3> QED BY <2>1, <3>2, SMTT(60) DEF XlateAll
  <2>4. CASE c # 0
    <3> DEFINE ps == {Cell(va, j) : j \in 0 .. (c - 1)}
    <3>0. c \in 1 .. MaxLen /\ 0 \in 0 .. (c - 1)
      BY <1>0, <2>4, SMTT(60)
    <3>1. \A j \in Nat : (b + j) % VPages = Cell(va, j) /\ Cell(va, j) \in 0 .. (VPages - 1)
      BY <2>0, CellOfCut, ZenonT(60)
    <3>2. b \in 0 .. (VPages - 1) /\ b = Cell(va, 0)
      BY <2>0, SameWay, SMTT(60) DEF Cell
    <3> HIDE DEF b
    <3>3. AS!Named(b, c) = ps /\ ps \subseteq 0 .. (VPages - 1) /\ \A j \in Nat : AS!At(b, j) = Cell(va, j)
      BY <3>1, SMTT(60) DEF AS!Named, AS!At
    <3>4. \A j \in 0 .. (c - 1) : Pte(f.ppn + j, fl) # NoPte /\ Pte(f.ppn + j, fl) = [Pte(f.ppn + 0, fl) EXCEPT !.ppn = @ + j]
      <4>1. fl \in SUBSET {"R", "W", "X", "U"}
        BY VSpaceAssumption, SMTT(60) DEF fl, Flags
      <4>2. \A j \in 0 .. (c - 1) : Pte(f.ppn + j, fl) \in PteRec
        BY <2>0, <4>1, SMTT(60) DEF Pte, PteRec
      <4>3. \A j \in 0 .. (c - 1) : Pte(f.ppn + j, fl) = [Pte(f.ppn + 0, fl) EXCEPT !.ppn = @ + j]
        BY <2>0, SMTT(60) DEF Pte
      <4> QED BY <4>2, <4>3, VSpaceAssumption, SMTT(60)
    <3>5. Xlate(v)'[b] = Pte(f.ppn + 0, fl)
      BY <2>2, <3>0, <3>2, Zenon
    <3>6. \A p \in ps : Xlate(v)[p] = NoPte /\ Xlate(v)'[p] # NoPte
      <4> SUFFICES ASSUME NEW p \in ps PROVE Xlate(v)[p] = NoPte /\ Xlate(v)'[p] # NoPte
        BY SMTT(60)
      <4>1. PICK j \in 0 .. (c - 1) : p = Cell(va, j)
        BY SMTT(60)
      <4>2. Xlate(v)[p] = NoPte /\ Xlate(v)'[p] = Pte(f.ppn + j, fl)
        BY <2>2, <4>1, SMTT(60)
      <4>3. Pte(f.ppn + j, fl) # NoPte
        BY <3>4, ZenonT(60)
      <4> QED BY <4>2, <4>3, Zenon
    <3>7. \A k \in 1 .. (c - 1) : Xlate(v)'[AS!At(b, k)] = [Xlate(v)'[b] EXCEPT !.ppn = @ + k]
      <4>1. \A k \in 1 .. (c - 1) : k \in Nat /\ k \in 0 .. (c - 1)
        BY SMTT(60)
      <4> QED BY <2>2, <3>3, <3>4, <3>5, <4>1
    <3>8. \A w \in Spaces, p \in 0 .. (VPages - 1) : w # v \/ p \notin ps => Xlate(w)'[p] = Xlate(w)[p]
      BY <2>1, <2>2, ZenonT(60)
    <3> HIDE DEF ps
    <3>9. AS!AMap(v, b, c)
      BY <3>3, <3>6, <3>7, <3>8, SMTT(60) DEF AS!AMap, AS!OnlyChanges
    <3>10. AS!ANext
      BY <3>0, <3>2, <3>9, SMTT(60) DEF AS!ANext
    <3> QED BY <2>1, <3>10, SMTT(60)
  <2> QED BY <2>3, <2>4, SMTT(60)
<1> QED BY <1>1, <1>2, <1>3, <1>4, <1>5, Zenon DEF VNext

\* The invariant of the page tables holds in every reachable state.
THEOREM SpaceInvariant == VSpec => []VInv
<1>1. VInit => VInv
  BY VInvInit, SMTT(60)
<1>2. VInv /\ [VNext]_vars => VInv'
  BY SpaceStep, SMTT(60)
<1> QED BY <1>1, <1>2, PTL DEF VSpec

\* vspace_map and vspace_unmap keep the page tables well-typed, and the array of
\* capabilities never holds more than its size.
THEOREM SpacesTyped == VSpec => []VTypeOK
<1>1. VInv => VTypeOK
  BY SMTT(60) DEF VInv
<1> QED BY <1>1, SpaceInvariant, PTL

\* The tables of every space form a tree that pt_caps accounts for, of pages of the
\* partition's colour that nobody else uses, also after calls that fail half-way.
THEOREM TablesStayOwned == VSpec => []TablesOwned
<1>1. VInv => TablesOwned
  <2> SUFFICES ASSUME VInv, NEW v \in Spaces
      PROVE /\ \A j, k \in 1 .. Len(vs[v].pt) : vs[v].pt[j] = vs[v].pt[k] => j = k
            /\ vs[v].root # Null =>
                 /\ Tables(v) = {vs[v].root} \cup Below1(mem, vs[v].root) \cup Below2(mem, vs[v].root)
                 /\ Tree(mem, vs[v].root)
            /\ \A x \in Tables(v) :
                 /\ alloc_color_is_valid(Partition[v], x % NumColors)
                 /\ x \notin stacks
                 /\ \A w \in Spaces \ {v} : x \notin Tables(w)
    BY Zenon DEF TablesOwned
  <2>1. SpaceInv(v)
    BY DEF VInv
  <2>2. \A w : Tables(w) = PtSet(vs[w].pt)
    BY SMTT(60) DEF Tables, PtSet
  <2> QED BY <2>1, <2>2, ZenonT(60) DEF SpaceInv, NoTwice, SpaceOK
<1> QED BY <1>1, SpaceInvariant, PTL

\* A page that was mapped once can be mapped again without memory: its tables are
\* never given back, and vspace_map asks for memory only when one is missing.
THEOREM RemapAlwaysSucceeds == VSpec => []RemapSucceeds
<1>1. VInv => RemapSucceeds
  <2> SUFFICES ASSUME VInv, NEW v \in Spaces, NEW va \in ever[v] \ Mapped(v), NEW f \in Frames
               PROVE  ~vspace_map(State(v), va, 1, f).err
    BY Zenon DEF RemapSucceeds
  <2> DEFINE st == State(v)
             r == vs[v].root
             fl == Flags(st.p, f.perms)
  <2>1. SpaceInv(v) /\ va \in 0 .. (VPages - 1) /\ va \in Nat
    BY SMTT(60) DEF VInv, VTypeOK
  <2>2. r # Null /\ HasTables(mem, r, va)
    BY <2>1, Zenon DEF SpaceInv
  <2>3. StInv(st) /\ st.mem = mem /\ st.root = r /\ st.err = FALSE
    BY <2>2, StateInv, ZenonT(60)
  <2>4. WalkTo(mem, r, va) = NoPte
    BY <2>1, <2>2, XlateIsWalk DEF Mapped
  <2> HIDE DEF st
  <2>n. 1 \in Nat
    OBVIOUS
  <2>g. PICK G : MapRun(G, st, va, 1, f)
    BY <2>1, <2>n, MapTurns, Zenon
  <2>5. /\ vspace_map(st, va, 1, f) = G[1] /\ G[0] = st
        /\ \A k \in 1 .. 1 : G[k] = MapPage(G[k - 1], va + k - 1, f.ppn + k - 1, fl)
    BY <2>g, Zenon DEF MapRun
  <2>6. f.ppn \in Nat /\ Pte(f.ppn, fl) \in PteRec
    BY VSpaceAssumption, ZenonT(60) DEF Pte, PteRec, Flags
  <2> HIDE DEF fl
  <2>7. 1 \in 1 .. 1 /\ 1 - 1 = 0 /\ va + 1 - 1 = va /\ f.ppn + 1 - 1 = f.ppn
    BY <2>1, <2>6, SMTT(60)
  <2>8. G[1] = MapPage(st, va, f.ppn, fl)
    BY <2>5, <2>7, SMTT(60)
  <2>9. Mapping(st, G[1], va, Pte(f.ppn, fl))
    BY <2>1, <2>3, <2>6, <2>8, MapPageFacts, ZenonT(60)
  <2>10. ~G[1].err
    BY <2>2, <2>3, <2>4, <2>9, ZenonT(60) DEF Mapping
  <2> QED BY <2>5, <2>10, Zenon DEF st
<1> QED BY <1>1, SpaceInvariant, PTL

\* The page tables implement the partial functions: every call for a space maps a
\* beginning of its range, all of it free before, or unmaps its range, and changes
\* nothing else.
THEOREM ImplementsAddressSpace == VSpec => RefinesAddressSpace
<1>1. VInit => AS!AInit
  <2> SUFFICES ASSUME VInit PROVE AS!AInit
    OBVIOUS
  <2>1. \A v \in Spaces : Xlate(v) = [p \in 0 .. (VPages - 1) |-> NoPte]
    BY Zenon DEF VInit, Xlate
  <2> QED BY <2>1, SMTT(60) DEF AS!AInit
<1>2. VInv /\ [VNext]_vars => [AS!ANext]_XlateAll
  BY SpaceStep
<1> QED BY <1>1, <1>2, SpaceInvariant, PTL DEF VSpec, RefinesAddressSpace, AS!ASpec, XlateAll
=============================================================================
