--------------------------- MODULE PageWalkProofs ---------------------------
(***************************************************************************)
(* What a walk through the pages of a list can miss and repeat, for any    *)
(* table, any pages and any number of changes: the outputs of an address   *)
(* have to be fewer than 2^32.                                             *)
(*                                                                         *)
(* Everything follows the position the walk has got to. As long as pages   *)
(* are full it is the offset of the next page, and a step of the workers   *)
(* takes at most one row over it in either direction: the row it changes,  *)
(* or the one next to the position.                                        *)
(***************************************************************************)
EXTENDS PageWalk, Functions, FiniteSetTheorems, WellFoundedInduction, TLAPS

\* The position the walk has got to.
At == Offset(walk.page, walk.size)

\* The rows that the walk should have got, and will not get any more.
Behind == { r \in stable \ seen : done \/ Position(table, r) < At }

\* The rows that it will get again.
Again == { r \in seen \cap Answer(table) : ~done /\ At <= Position(table, r) }

\* The place in the answer where the walk began and the one of its next page.
From  == (walk.first - 1) * walk.size
Until == (walk.page - 1) * walk.size

WalkTypes ==
    /\ IsFiniteSet(DOMAIN table) /\ IsFiniteSet(seen)
    /\ added \in Nat /\ removed \in Nat /\ moved \in Nat /\ done \in BOOLEAN
    /\ walk \in [first : 0 .. Modulus - 1, page : 0 .. Modulus,
                 size : 0 .. Modulus - 1]
    /\ walk.first <= walk.page

FewLeftBehind == walk.first = 1 => Cardinality(Behind) <= removed + moved

FewAgain == got - Cardinality(seen) + Cardinality(Again) <= added + moved

\* As long as pages are full, offsets do not wrap.
OnTrack == ~done /\ From \in 0 .. Modulus - 1 => At = Until

WalkInv ==
    /\ TypeOK
    /\ WalkTypes
    /\ FewLeftBehind
    /\ FewAgain
    /\ OnTrack
    /\ PagesAreSlices

-----------------------------------------------------------------------------
(* Numbers.                                                                *)

\* A set of natural numbers has a least one. This stands in for induction.
LEMMA LeastNumber ==
    ASSUME NEW T \in SUBSET Nat, T # {}
    PROVE  \E n \in T : \A m \in T : n <= m
<1>1. IsWellFoundedOn(OpToRel(<, Nat), Nat)
  BY NatLessThanWellFounded
<1>2. PICK n \in T : \A m \in T : ~(<<m, n>> \in OpToRel(<, Nat))
  BY <1>1, WFMin
<1>3. \A m \in T : ~(m < n)
  BY <1>2 DEF OpToRel
<1> QED
  BY <1>3

\* Among the rows of a finite table one has the largest rowid.
LEMMA LargestRowid ==
    ASSUME NEW D, IsFiniteSet(D), D # {}, NEW f \in [D -> Nat]
    PROVE  \E x \in D : \A y \in D : f[y] <= f[x]
<1> DEFINE Top(S) == \E x \in S : \A y \in S : f[y] <= f[x]
           T == { n \in Nat : \E S \in SUBSET D :
                    S # {} /\ Cardinality(S) = n /\ ~Top(S) }
<1> SUFFICES ASSUME ~Top(D) PROVE FALSE
  OBVIOUS
<1>1. T # {}
  BY FS_CardinalityType
<1>2. PICK n \in T : \A m \in T : n <= m
  BY <1>1, LeastNumber
<1>3. PICK S \in SUBSET D : S # {} /\ Cardinality(S) = n /\ ~Top(S)
  BY <1>2
<1>4. PICK x \in S : TRUE
  BY <1>3
<1>5. /\ S \ {x} \in SUBSET D /\ IsFiniteSet(S) /\ n \in Nat
      /\ Cardinality(S \ {x}) = n - 1 /\ Cardinality(S \ {x}) \in Nat
  BY <1>2, <1>3, <1>4, FS_Subset, FS_RemoveElement, FS_CardinalityType
<1>6. S \ {x} = {} \/ Top(S \ {x})
  <2>1. n - 1 \notin T
    BY <1>2, <1>5
  <2> QED
    BY <1>5, <2>1
<1>7. CASE S \ {x} = {}
  <2>1. S = {x}
    BY <1>4, <1>7
  <2> QED
    BY <1>3, <2>1
<1>8. CASE Top(S \ {x})
  <2>1. PICK z \in S \ {x} : \A y \in S \ {x} : f[y] <= f[z]
    BY <1>8
  <2>2. f[x] \in Nat /\ f[z] \in Nat /\ \A y \in S : f[y] \in Nat
    BY <1>3, <1>4, <2>1
  <2>3. CASE f[x] <= f[z]
    BY <1>3, <2>1, <2>3
  <2>4. CASE f[z] <= f[x]
    <3>1. \A y \in S : f[y] <= f[x]
      BY <2>1, <2>2, <2>4
    <3> QED
      BY <1>3, <3>1
  <2> QED
    BY <2>2, <2>3, <2>4
<1> QED
  BY <1>6, <1>7, <1>8

\* So a new row comes after all rows of the table.
LEMMA NewRowidLast ==
    ASSUME NEW rows, IsTable(rows), IsFiniteSet(DOMAIN rows)
    PROVE  /\ NewRowid(rows) \in Nat
           /\ \A q \in DOMAIN rows : rows[q].rowid < NewRowid(rows)
<1> DEFINE R == { rows[x].rowid : x \in DOMAIN rows }
           f == [x \in DOMAIN rows |-> rows[x].rowid]
           top == CHOOSE n \in R : \A m \in R : m <= n
<1>0. \A q \in DOMAIN rows : rows[q].rowid \in Nat /\ rows[q].rowid \in R
  BY DEF IsTable
<1>1. CASE DOMAIN rows = {}
  <2>1. R = {}
    BY <1>1
  <2>2. NewRowid(rows) = 1
    BY <2>1 DEF NewRowid
  <2> QED
    BY <1>1, <2>2
<1>2. CASE DOMAIN rows # {}
  <2>1. PICK x \in DOMAIN rows : \A y \in DOMAIN rows : f[y] <= f[x]
    <3>1. f \in [DOMAIN rows -> Nat]
      BY <1>0
    <3> HIDE DEF f
    <3> QED
      BY <1>2, <3>1, LargestRowid
  <2>2. rows[x].rowid \in R /\ \A m \in R : m <= rows[x].rowid
    BY <2>1
  <2>3. top \in R /\ \A m \in R : m <= top
    BY <2>2
  <2>4. R \subseteq Nat /\ R # {}
    BY <1>0, <1>2
  <2>5. NewRowid(rows) = 1 + top
    BY <2>4 DEF NewRowid
  <2> HIDE DEF R, top
  <2>6. 1 + top \in Nat /\ \A m \in R : m < 1 + top
    BY <2>3, <2>4
  <2> QED
    BY <1>0, <2>5, <2>6
<1> QED
  BY <1>1, <1>2

-----------------------------------------------------------------------------
(* Positions.                                                              *)

Ahead(rows, r) == { q \in Answer(rows) : Before(rows, q, r) }

\* The answer has one order.
LEMMA BeforeOrder ==
    ASSUME NEW rows, IsTable(rows)
    PROVE  /\ \A q \in Answer(rows) : ~Before(rows, q, q)
           /\ \A p, q, r \in Answer(rows) :
                Before(rows, p, q) /\ Before(rows, q, r) => Before(rows, p, r)
           /\ \A q, r \in Answer(rows) :
                q # r => Before(rows, q, r) \/ Before(rows, r, q)
<1>1. \A q \in Answer(rows) : rows[q].rowid \in Nat
                              /\ rows[q].part \in {"owner", "return"}
  BY DEF IsTable, Answer, Part
<1>2. \A q \in Answer(rows) : ~Before(rows, q, q)
  BY <1>1 DEF Before
<1>3. \A p, q, r \in Answer(rows) :
        Before(rows, p, q) /\ Before(rows, q, r) => Before(rows, p, r)
  BY <1>1 DEF Before
<1>4. ASSUME NEW q \in Answer(rows), NEW r \in Answer(rows), q # r
      PROVE  Before(rows, q, r) \/ Before(rows, r, q)
  <2>1. rows[q].rowid # rows[r].rowid
    BY <1>4 DEF IsTable, Answer
  <2> QED
    BY <1>1, <2>1 DEF Before
<1> QED
  BY <1>2, <1>3, <1>4

\* It is finite.
LEMMA AnswerFinite ==
    ASSUME NEW rows, IsFiniteSet(DOMAIN rows)
    PROVE  IsFiniteSet(Answer(rows)) /\ Cardinality(Answer(rows)) \in Nat
<1>1. Answer(rows) \in SUBSET DOMAIN rows
  BY DEF Answer
<1> QED
  BY <1>1, FS_Subset, FS_CardinalityType

\* The rows of an answer of n rows have the positions 0 to n - 1.
LEMMA Positions ==
    ASSUME NEW rows, IsTable(rows), IsFiniteSet(DOMAIN rows)
    PROVE  [r \in Answer(rows) |-> Position(rows, r)]
             \in Bijection(Answer(rows), 0 .. Cardinality(Answer(rows)) - 1)
<1> DEFINE D == Answer(rows)
           n == Cardinality(D)
           f == [r \in D |-> Position(rows, r)]
<1>0. n \in Nat
  BY AnswerFinite
<1>1. \A r \in D : /\ IsFiniteSet(Ahead(rows, r))
                   /\ Position(rows, r) = Cardinality(Ahead(rows, r))
                   /\ Position(rows, r) \in Nat
  <2> SUFFICES ASSUME NEW r \in D
               PROVE  /\ IsFiniteSet(Ahead(rows, r))
                      /\ Position(rows, r) = Cardinality(Ahead(rows, r))
                      /\ Position(rows, r) \in Nat
    OBVIOUS
  <2>1. Ahead(rows, r) \in SUBSET D
    BY DEF Ahead
  <2>2. IsFiniteSet(Ahead(rows, r))
    BY <2>1, AnswerFinite, FS_Subset
  <2> QED
    BY <2>2, FS_CardinalityType DEF Ahead, Position
<1>2. \A r \in D : Position(rows, r) \in 0 .. n - 1
  <2> SUFFICES ASSUME NEW r \in D PROVE Position(rows, r) < n
    BY <1>0, <1>1
  <2>1. Ahead(rows, r) \in SUBSET (D \ {r})
    BY BeforeOrder DEF Ahead
  <2>2. IsFiniteSet(D \ {r}) /\ Cardinality(D \ {r}) = n - 1
    BY AnswerFinite, FS_RemoveElement
  <2>3. Cardinality(Ahead(rows, r)) <= n - 1
    BY <2>1, <2>2, FS_Subset
  <2> QED
    BY <1>0, <1>1, <2>3
<1>3. ASSUME NEW q \in D, NEW r \in D, Before(rows, q, r)
      PROVE  Position(rows, q) < Position(rows, r)
  <2>1. /\ Ahead(rows, q) \in SUBSET Ahead(rows, r)
        /\ q \in Ahead(rows, r) /\ q \notin Ahead(rows, q)
    BY <1>3, BeforeOrder DEF Ahead
  <2>2. /\ Cardinality(Ahead(rows, q)) <= Cardinality(Ahead(rows, r))
        /\ Cardinality(Ahead(rows, q)) # Cardinality(Ahead(rows, r))
    BY <1>1, <2>1, FS_Subset
  <2> QED
    BY <1>1, <2>2
<1>4. ASSUME NEW q \in D, NEW r \in D, f[q] = f[r]
      PROVE  q = r
  <2>1. ~(Position(rows, q) < Position(rows, r))
        /\ ~(Position(rows, r) < Position(rows, q))
    BY <1>1, <1>4
  <2> QED
    BY <1>3, <2>1, BeforeOrder
<1>5. f \in [D -> 0 .. n - 1]
  BY <1>2
<1>6. f \in Injection(D, 0 .. n - 1)
  BY <1>4, <1>5 DEF Injection, IsInjective
<1>7. IsFiniteSet(0 .. n - 1) /\ Cardinality(0 .. n - 1) = n
  BY <1>0, FS_Interval
<1>8. f \in Surjection(D, 0 .. n - 1)
  BY <1>6, <1>7, FS_Injection
<1> QED
  BY <1>6, <1>8 DEF Bijection

\* What Positions says of one row.
LEMMA PositionType ==
    ASSUME NEW rows, IsTable(rows), IsFiniteSet(DOMAIN rows)
    PROVE  /\ Cardinality(Answer(rows)) \in Nat
           /\ \A r \in Answer(rows) :
                /\ Position(rows, r) \in Nat
                /\ Position(rows, r) < Cardinality(Answer(rows))
           /\ \A q, r \in Answer(rows) :
                Position(rows, q) = Position(rows, r) => q = r
<1> DEFINE f == [r \in Answer(rows) |-> Position(rows, r)]
<1>1. Cardinality(Answer(rows)) \in Nat
  BY AnswerFinite
<1>2. \A r \in Answer(rows) : f[r] = Position(rows, r)
  OBVIOUS
<1>3. /\ f \in [Answer(rows) -> 0 .. Cardinality(Answer(rows)) - 1]
      /\ \A q, r \in Answer(rows) : f[q] = f[r] => q = r
  BY Positions DEF Bijection, Injection, IsInjective
<1> HIDE DEF f
<1> QED
  BY <1>1, <1>2, <1>3

\* A slice has the rows there are between its ends.
LEMMA SliceSize ==
    ASSUME NEW rows, IsTable(rows), IsFiniteSet(DOMAIN rows),
           NEW from \in Nat, NEW size \in Nat
    PROVE  LET n == Cardinality(Answer(rows))
               page == Slice(rows, from, from + size)
           IN  /\ IsFiniteSet(page)
               /\ Cardinality(page) = IF from + size <= n THEN size
                                      ELSE IF from < n THEN n - from ELSE 0
<1> DEFINE n == Cardinality(Answer(rows))
           page == Slice(rows, from, from + size)
           last == IF from + size <= n THEN from + size ELSE n
           f == [r \in Answer(rows) |-> Position(rows, r)]
           g == [r \in page |-> Position(rows, r)]
<1>0. n \in Nat /\ last \in Nat
  BY AnswerFinite
<1>1. page \subseteq Answer(rows) /\ IsFiniteSet(page)
  BY AnswerFinite, FS_Subset DEF Slice
<1>2. f \in Bijection(Answer(rows), 0 .. n - 1)
  BY Positions
<1>3. /\ \A r \in Answer(rows) : Position(rows, r) \in 0 .. n - 1
      /\ \A q, r \in Answer(rows) : Position(rows, q) = Position(rows, r) => q = r
      /\ \A k \in 0 .. n - 1 : \E r \in Answer(rows) : Position(rows, r) = k
  <2>1. f \in Injection(Answer(rows), 0 .. n - 1)
        /\ f \in Surjection(Answer(rows), 0 .. n - 1)
    BY <1>2 DEF Bijection
  <2>2. \A r \in Answer(rows) : f[r] = Position(rows, r)
    OBVIOUS
  <2> QED
    BY <2>1, <2>2 DEF Injection, Surjection, IsInjective
<1>4. \A r \in Answer(rows) :
        r \in page <=> Position(rows, r) \in from .. last - 1
  BY <1>0, <1>3 DEF Slice
<1>5. g \in Bijection(page, from .. last - 1)
  <2>1. g \in [page -> from .. last - 1]
    BY <1>1, <1>4
  <2>2. \A q, r \in page : g[q] = g[r] => q = r
    BY <1>1, <1>3
  <2>3. ASSUME NEW k \in from .. last - 1
        PROVE  \E r \in page : g[r] = k
    <3>1. k \in 0 .. n - 1
      BY <1>0
    <3>2. PICK r \in Answer(rows) : Position(rows, r) = k
      BY <1>3, <3>1
    <3> QED
      BY <1>4, <3>2
  <2> HIDE DEF g
  <2> QED
    BY <2>1, <2>2, <2>3 DEF Bijection, Injection, Surjection, IsInjective
<1>6. Cardinality(from .. last - 1) = Cardinality(page)
  <2>1. ExistsBijection(page, from .. last - 1)
    BY <1>5 DEF ExistsBijection
  <2> QED
    BY <1>1, <2>1, FS_Bijection
<1>7. Cardinality(from .. last - 1)
        = IF from > last - 1 THEN 0 ELSE (last - 1) - from + 1
  <2> HIDE DEF last
  <2>1. from \in Int /\ last - 1 \in Int
    BY <1>0
  <2> QED
    BY <2>1, FS_Interval
<1>8. last = IF from + size <= n THEN from + size ELSE n
  OBVIOUS
<1> HIDE DEF n, last, page
<1>9. Cardinality(page) = IF from + size <= n THEN size
                          ELSE IF from < n THEN n - from ELSE 0
  BY <1>0, <1>6, <1>7, <1>8
<1> QED
  BY <1>1, <1>9 DEF n, page

-----------------------------------------------------------------------------
(* What changes do to positions.                                           *)

\* The tables before and after a change of row r.
Differ(rows, then, r) ==
    /\ IsTable(rows) /\ IsTable(then)
    /\ IsFiniteSet(DOMAIN rows) /\ IsFiniteSet(DOMAIN then)
    /\ \A q \in Answer(rows) \cup Answer(then) :
         q # r => /\ q \in Answer(rows) /\ q \in Answer(then)
                  /\ then[q] = rows[q]

Leads(rows, r, q) == r \in Answer(rows) /\ Before(rows, r, q)

\* Another row of the answer is pushed back by one place if r comes in front of
\* it, moves up by one if r goes from there, and stays where it is otherwise.
LEMMA Shift ==
    ASSUME NEW rows, NEW then, NEW r, Differ(rows, then, r),
           NEW q \in Answer(rows), q # r
    PROVE  \/ Position(then, q) = Position(rows, q)
           \/ Position(then, q) = Position(rows, q) + 1 /\ Leads(then, r, q)
           \/ Position(then, q) = Position(rows, q) - 1 /\ Leads(rows, r, q)
<1> DEFINE others == Ahead(rows, q) \ {r}
<1>1. /\ IsFiniteSet(Ahead(rows, q)) /\ IsFiniteSet(Ahead(then, q))
      /\ IsFiniteSet(others) /\ Cardinality(others) \in Nat
      /\ Position(then, q) = Cardinality(Ahead(then, q))
      /\ Position(rows, q) = Cardinality(Ahead(rows, q))
  <2>1. Ahead(rows, q) \in SUBSET Answer(rows) /\ Ahead(then, q) \in SUBSET Answer(then)
    BY DEF Ahead
  <2>2. IsFiniteSet(Ahead(rows, q)) /\ IsFiniteSet(Ahead(then, q))
    BY <2>1, AnswerFinite, FS_Subset DEF Differ
  <2> QED
    BY <2>2, FS_Subset, FS_CardinalityType DEF Ahead, Position
<1>2. others = Ahead(then, q) \ {r}
  <2>1. q \in Answer(then) /\ then[q] = rows[q]
    BY DEF Differ
  <2>2. \A p \in (Answer(rows) \cup Answer(then)) \ {r} :
          /\ p \in Answer(rows) /\ p \in Answer(then)
          /\ Before(then, p, q) <=> Before(rows, p, q)
    BY <2>1 DEF Differ, Before
  <2> QED
    BY <2>2 DEF Ahead
<1>3. /\ Ahead(rows, q) = IF Leads(rows, r, q) THEN others \cup {r} ELSE others
      /\ Ahead(then, q) = IF Leads(then, r, q) THEN others \cup {r} ELSE others
      /\ r \notin others
  BY <1>2 DEF Ahead, Leads
<1> HIDE DEF others
<1>4. Cardinality(others \cup {r}) = Cardinality(others) + 1
  BY <1>1, <1>3, FS_AddElement
<1> QED
  BY <1>1, <1>3, <1>4

\* A row that comes before another one has the lower position.
LEMMA PositionOrder ==
    ASSUME NEW rows, IsTable(rows), IsFiniteSet(DOMAIN rows),
           NEW q \in Answer(rows), NEW r \in Answer(rows), Before(rows, r, q)
    PROVE  Position(rows, r) < Position(rows, q)
<1>1. Ahead(rows, r) \in SUBSET (Ahead(rows, q) \ {r}) /\ r \in Ahead(rows, q)
  BY BeforeOrder DEF Ahead
<1>2. Ahead(rows, q) \in SUBSET Answer(rows)
  BY DEF Ahead
<1>3. IsFiniteSet(Ahead(rows, q)) /\ Cardinality(Ahead(rows, q)) \in Nat
  BY <1>2, AnswerFinite, FS_Subset, FS_CardinalityType
<1>4. /\ IsFiniteSet(Ahead(rows, q) \ {r})
      /\ Cardinality(Ahead(rows, q) \ {r}) = Cardinality(Ahead(rows, q)) - 1
  BY <1>1, <1>3, FS_RemoveElement
<1>5. Cardinality(Ahead(rows, r)) <= Cardinality(Ahead(rows, q)) - 1
      /\ Cardinality(Ahead(rows, r)) \in Nat
  BY <1>1, <1>4, FS_Subset, FS_CardinalityType
<1> QED
  BY <1>3, <1>5 DEF Position, Ahead

\* What an upsert makes of the table.
LEMMA Upserted ==
    ASSUME NEW rows, IsTable(rows), IsFiniteSet(DOMAIN rows),
           NEW r \in Rows, NEW part \in Part
    PROVE  LET then == Upsert(rows, r, part)
           IN  /\ Differ(rows, then, r)
               /\ PartOf(then, r) = part
               /\ r \in DOMAIN rows /\ rows[r].part = part => then = rows
<1> DEFINE then == Upsert(rows, r, part)
           n == IF r \in DOMAIN rows THEN rows[r].rowid ELSE NewRowid(rows)
<1>1. then = [s \in DOMAIN rows \cup {r} |->
                IF s = r THEN [rowid |-> n, part |-> part] ELSE rows[s]]
  BY DEF Upsert, Place
<1>2. n \in Nat /\ \A q \in DOMAIN rows : q # r => rows[q].rowid # n
  <2>1. CASE r \in DOMAIN rows
    BY <2>1 DEF IsTable
  <2>2. CASE r \notin DOMAIN rows
    <3>1. NewRowid(rows) \in Nat
          /\ \A q \in DOMAIN rows : rows[q].rowid < NewRowid(rows)
      BY NewRowidLast
    <3> QED
      BY <2>2, <3>1 DEF IsTable
  <2> QED
    BY <2>1, <2>2
<1>3. ASSUME r \in DOMAIN rows, rows[r].part = part
      PROVE  then = rows
  <2>1. rows[r] = [rowid |-> rows[r].rowid, part |-> rows[r].part]
        /\ rows = [s \in DOMAIN rows |-> rows[s]]
    BY <1>3 DEF IsTable
  <2>2. n = rows[r].rowid /\ DOMAIN rows \cup {r} = DOMAIN rows
    BY <1>3
  <2> HIDE DEF n, then
  <2>3. \A s \in DOMAIN rows :
          (IF s = r THEN [rowid |-> n, part |-> part] ELSE rows[s]) = rows[s]
    BY <1>3, <2>1, <2>2
  <2>4. then = [s \in DOMAIN rows |-> rows[s]]
    BY <1>1, <2>2, <2>3
  <2> QED
    BY <2>1, <2>4
<1> HIDE DEF then, n
<1>4. /\ DOMAIN then = DOMAIN rows \cup {r}
      /\ then[r] = [rowid |-> n, part |-> part]
      /\ \A q \in DOMAIN rows : q # r => then[q] = rows[q]
  BY <1>1
<1>5. IsFiniteSet(DOMAIN then)
  BY <1>4, FS_AddElement
<1>6. IsTable(then)
  <2>1. then \in [DOMAIN then -> [rowid : Nat, part : Part]]
    BY <1>1, <1>2 DEF IsTable
  <2>2. \A p, q \in DOMAIN then : then[p].rowid = then[q].rowid => p = q
    BY <1>2, <1>4 DEF IsTable
  <2>3. DOMAIN then \subseteq Rows
    BY <1>4 DEF IsTable
  <2> QED
    BY <2>1, <2>2, <2>3 DEF IsTable
<1>7. Differ(rows, then, r)
  BY <1>4, <1>5, <1>6 DEF Differ, Answer
<1>8. PartOf(then, r) = part
  BY <1>4 DEF PartOf
<1> QED
  BY <1>3, <1>7, <1>8 DEF then

\* And a deletion.
LEMMA Deleted ==
    ASSUME NEW rows, IsTable(rows), IsFiniteSet(DOMAIN rows), NEW r \in DOMAIN rows
    PROVE  LET then == Without(rows, r)
           IN  Differ(rows, then, r) /\ PartOf(then, r) = "other"
<1> DEFINE then == Without(rows, r)
<1>1. then = [q \in DOMAIN rows \ {r} |-> rows[q]]
  BY DEF Without
<1> HIDE DEF then
<1>2. DOMAIN then = DOMAIN rows \ {r} /\ \A q \in DOMAIN then : then[q] = rows[q]
  BY <1>1
<1>3. IsFiniteSet(DOMAIN then)
  BY <1>2, FS_RemoveElement
<1>4. IsTable(then)
  BY <1>1, <1>2 DEF IsTable
<1>5. Differ(rows, then, r) /\ PartOf(then, r) = "other"
  BY <1>2, <1>3, <1>4 DEF Differ, Answer, PartOf
<1> QED
  BY <1>5 DEF then

-----------------------------------------------------------------------------
(* Offsets.                                                                *)

\* Remainders, as far as offsets need them.
LEMMA Remainders ==
    ASSUME NEW M \in Nat \ {0}
    PROVE  /\ (0 - 1) % M = M - 1
           /\ \A y \in Nat : y < M => y % M = y
<1>1. (0 - 1) % M = M - 1
  OBVIOUS
<1>2. \A y \in Nat : y < M => y % M = y
  OBVIOUS
<1> QED
  BY <1>1, <1>2

LEMMA RemainderType ==
    ASSUME NEW M \in Nat \ {0}, NEW y \in Int
    PROVE  y % M \in Nat /\ y % M < M
OBVIOUS

LEMMA RemainderOfMultiple ==
    ASSUME NEW M \in Nat \ {0}, NEW y \in Nat
    PROVE  (M * y) % M = 0
OBVIOUS

LEMMA RemainderOfSum ==
    ASSUME NEW M \in Nat \ {0}, NEW y \in Int, NEW s \in Nat, (y % M) + s < M
    PROVE  (y + s) % M = (y % M) + s
OBVIOUS

\* Where an offset and its page fit into 32 bits, the next offset follows.
LEMMA OffsetNext ==
    ASSUME NEW page \in 0 .. Modulus - 1, NEW size \in Nat
    PROVE  /\ Offset(page, size) \in Nat
           /\ Offset(page, size) < Modulus
           /\ Offset(page, size) + size < Modulus
                => Offset(page + 1, size) = Offset(page, size) + size
           /\ page >= 1 => Offset(page, size) = ((page - 1) * size) % Modulus
<1>0. Modulus \in Nat \ {0}
  BY PageAssumption
<1>1. CASE page = 0
  <2>1. (page - 1) % Modulus = Modulus - 1 /\ ((page + 1) - 1) % Modulus = 0
    <3>1. page - 1 = 0 - 1 /\ (page + 1) - 1 = 0
      BY <1>1
    <3>2. (0 - 1) % Modulus = Modulus - 1
      BY <1>0, Remainders
    <3>3. 0 % Modulus = 0
      BY <1>0, Remainders
    <3> QED
      BY <3>1, <3>2, <3>3
  <2>2. /\ Offset(page, size) = ((Modulus - 1) * size) % Modulus
        /\ Offset(page + 1, size) = (0 * size) % Modulus
    BY <2>1 DEF Offset
  <2>3. 0 * size = 0 /\ 0 % Modulus = 0
    BY <1>0, Remainders
  <2>4. (Modulus - 1) * size \in Nat /\ (Modulus - 1) * size + size = Modulus * size
    <3> DEFINE M == Modulus
    <3>1. M \in Nat \ {0}
      BY <1>0
    <3> HIDE DEF M
    <3>2. (M - 1) * size + size = M * size /\ (M - 1) * size \in Nat
      BY <3>1
    <3> QED
      BY <3>2 DEF M
  <2>5. (Modulus * size) % Modulus = 0
    BY <1>0, RemainderOfMultiple
  <2>6. Offset(page, size) + size < Modulus => Offset(page, size) + size = 0
    BY <1>0, <2>2, <2>4, <2>5, RemainderOfSum
  <2>7. Offset(page, size) \in Nat /\ Offset(page, size) < Modulus
    BY <1>0, <2>2, <2>4, RemainderType
  <2> QED
    BY <1>0, <1>1, <2>2, <2>3, <2>6, <2>7
<1>2. CASE page >= 1
  <2> DEFINE y == (page - 1) * size
  <2>1. (page - 1) % Modulus = page - 1 /\ ((page + 1) - 1) % Modulus = page
    <3>1. /\ page - 1 \in Nat /\ page - 1 < Modulus
          /\ page \in Nat /\ page < Modulus /\ (page + 1) - 1 = page
      BY <1>0, <1>2
    <3>2. (page - 1) % Modulus = page - 1
      BY <1>0, <3>1, Remainders
    <3>3. page % Modulus = page
      BY <1>0, <3>1, Remainders
    <3> QED
      BY <3>1, <3>2, <3>3
  <2>2. /\ Offset(page, size) = y % Modulus
        /\ Offset(page + 1, size) = (page * size) % Modulus
    BY <2>1 DEF Offset
  <2>3. y \in Nat /\ page * size = y + size
    BY <1>0, <1>2
  <2> HIDE DEF y
  <2>4. y % Modulus \in Nat /\ y % Modulus < Modulus
    BY <1>0, <2>3, RemainderType
  <2>5. ASSUME (y % Modulus) + size < Modulus
        PROVE  (y + size) % Modulus = (y % Modulus) + size
    <3>1. y \in Int /\ size \in Nat /\ Modulus \in Nat \ {0}
      BY <1>0, <2>3
    <3> QED
      BY <2>5, <3>1, RemainderOfSum
  <2> QED
    BY <2>2, <2>3, <2>4, <2>5 DEF y
<1> QED
  BY <1>1, <1>2

-----------------------------------------------------------------------------
(* The steps.                                                              *)

\* What the types say about the table and the page a walk is at.
LEMMA Basics ==
    ASSUME TypeOK, WalkTypes
    PROVE  /\ Modulus \in Nat \ {0}
           /\ IsTable(table) /\ IsFiniteSet(DOMAIN table)
           /\ IsFiniteSet(Behind) /\ IsFiniteSet(Again)
           /\ Cardinality(Behind) \in Nat /\ Cardinality(Again) \in Nat
           /\ Cardinality(seen) \in Nat
           /\ \A r \in Answer(table) : Position(table, r) \in Nat
           /\ At \in Nat
<1>1. IsTable(table) /\ IsFiniteSet(DOMAIN table) /\ Modulus \in Nat \ {0}
  BY PageAssumption DEF TypeOK, WalkTypes, IsTable
<1>2. Behind \in SUBSET Answer(table) /\ Again \in SUBSET seen
  BY DEF TypeOK, Behind, Again
<1>3. IsFiniteSet(Behind) /\ IsFiniteSet(Again) /\ IsFiniteSet(seen)
  BY <1>1, <1>2, AnswerFinite, FS_Subset DEF WalkTypes
<1>4. At \in Nat
  <2>1. walk.page - 1 \in Int /\ walk.size \in Nat
    BY <1>1 DEF WalkTypes
  <2>2. (walk.page - 1) % Modulus \in Nat
    BY <1>1, <2>1, RemainderType
  <2>3. ((walk.page - 1) % Modulus) * walk.size \in Int
    BY <2>1, <2>2
  <2> QED
    BY <1>1, <2>3, RemainderType DEF At, Offset
<1> QED
  BY <1>1, <1>3, <1>4, FS_CardinalityType, PositionType

\* The offset of the page after a full one follows, and a page that is not full
\* is the last one.
LEMMA PageKinds ==
    ASSUME TypeOK, WalkTypes, TableFits, walk.page < Modulus
    PROVE  LET rows == PageOf(table, walk.page, walk.size)
           IN  /\ IsFiniteSet(rows) /\ Cardinality(rows) \in Nat
               /\ \A r \in Answer(table) :
                    r \in rows <=> /\ At <= Position(table, r)
                                   /\ Position(table, r) < At + walk.size
               /\ Cardinality(rows) < walk.size =>
                    \A r \in Answer(table) : Position(table, r) < At + walk.size
               /\ ~(Cardinality(rows) < walk.size) =>
                    Offset(walk.page + 1, walk.size) = At + walk.size
<1> DEFINE rows == PageOf(table, walk.page, walk.size)
           n    == Cardinality(Answer(table))
<1>1. /\ Modulus \in Nat \ {0} /\ At \in Nat
      /\ IsTable(table) /\ IsFiniteSet(DOMAIN table)
  BY Basics
<1>2. walk.page \in 0 .. Modulus - 1 /\ walk.size \in Nat
  BY <1>1 DEF WalkTypes
<1>3. rows = Slice(table, At, At + walk.size)
  BY DEF PageOf, At
<1>4. /\ n \in Nat
      /\ \A r \in Answer(table) : Position(table, r) \in Nat
                                 /\ Position(table, r) < n
  BY <1>1, PositionType
<1>5. n < Modulus
  <2>1. Answer(table) \in SUBSET Rows
    BY <1>1 DEF IsTable, Answer
  <2>2. n <= Cardinality(Rows) /\ Cardinality(Rows) \in Nat
    BY <2>1, FS_Subset, FS_CardinalityType DEF TableFits
  <2> QED
    BY <1>1, <1>4, <2>2 DEF TableFits
<1>6. /\ IsFiniteSet(rows)
      /\ Cardinality(rows) = IF At + walk.size <= n THEN walk.size
                             ELSE IF At < n THEN n - At ELSE 0
  <2> DEFINE page == Slice(table, At, At + walk.size)
  <2>1. /\ IsFiniteSet(page)
        /\ Cardinality(page) = IF At + walk.size <= n THEN walk.size
                               ELSE IF At < n THEN n - At ELSE 0
    BY <1>1, <1>2, SliceSize
  <2> HIDE DEF n, page, rows
  <2>2. rows = page
    BY <1>3 DEF page
  <2> QED
    BY <2>1, <2>2
<1>7. \A r \in Answer(table) :
        r \in rows <=> /\ At <= Position(table, r)
                       /\ Position(table, r) < At + walk.size
  BY <1>3 DEF Slice
<1> HIDE DEF rows, n
<1>8. Cardinality(rows) \in Nat
  BY <1>6, FS_CardinalityType
<1>9. ASSUME Cardinality(rows) < walk.size, NEW r \in Answer(table)
      PROVE  Position(table, r) < At + walk.size
  <2>1. n < At + walk.size
    BY <1>1, <1>2, <1>4, <1>6, <1>9
  <2> QED
    BY <1>1, <1>2, <1>4, <2>1
<1>10. ASSUME ~(Cardinality(rows) < walk.size)
       PROVE  Offset(walk.page + 1, walk.size) = At + walk.size
  <2>1. CASE walk.size = 0
    <3>1. At < Modulus
      BY <1>2, OffsetNext DEF At
    <3>2. At + walk.size < Modulus
      BY <1>1, <2>1, <3>1
    <3> QED
      BY <1>2, <3>2, OffsetNext DEF At
  <2>2. CASE walk.size # 0
    <3>1. At + walk.size <= n
      BY <1>1, <1>2, <1>4, <1>6, <1>10, <2>2
    <3>2. At + walk.size < Modulus
      BY <1>1, <1>2, <1>4, <1>5, <3>1
    <3> QED
      BY <1>2, <3>2, OffsetNext DEF At
  <2> QED
    BY <2>1, <2>2
<1> QED
  BY <1>6, <1>7, <1>8, <1>9, <1>10 DEF rows

\* A page.
LEMMA FetchStep ==
    ASSUME WalkInv, TableFits, FetchPage
    PROVE  WalkInv'
<1> DEFINE rows == PageOf(table, walk.page, walk.size)
<1>0. TypeOK /\ WalkTypes
  BY DEF WalkInv
<1>1. /\ ~done /\ walk.page < Modulus
      /\ got' = got + Cardinality(rows)
      /\ seen' = seen \cup rows
      /\ walk' = [walk EXCEPT !.page = @ + 1]
      /\ done' = (Cardinality(rows) < walk.size)
      /\ table' = table /\ stable' = stable /\ changes' = changes
      /\ added' = added /\ removed' = removed /\ moved' = moved
  BY DEF FetchPage, history
<1>2. /\ walk'.first = walk.first /\ walk'.size = walk.size
      /\ walk'.page = walk.page + 1
      /\ walk.first \in Nat /\ walk.page \in Nat /\ walk.size \in Nat
      /\ walk.first <= walk.page
      /\ Modulus \in Nat /\ At \in Nat
      /\ got \in Nat /\ added \in Nat /\ removed \in Nat /\ moved \in Nat
  BY <1>0, <1>1, Basics DEF WalkTypes, TypeOK
<1>3. /\ IsFiniteSet(rows) /\ Cardinality(rows) \in Nat
      /\ rows \subseteq Answer(table)
      /\ \A r \in Answer(table) :
           r \in rows <=> /\ At <= Position(table, r)
                          /\ Position(table, r) < At + walk.size
  BY <1>0, <1>1, PageKinds DEF PageOf, Slice
<1>4. done' => \A r \in Answer(table) : Position(table, r) < At + walk.size
  BY <1>0, <1>1, PageKinds
<1>5. ~done' => At' = At + walk.size
  <2>1. At' = Offset(walk.page + 1, walk.size)
    BY <1>2 DEF At
  <2> QED
    BY <1>0, <1>1, <2>1, PageKinds
<1> HIDE DEF rows
<1>6. TypeOK'
  <2>1. Answer(table) \subseteq Rows
    BY <1>0 DEF TypeOK, IsTable, Answer
  <2> QED
    BY <1>0, <1>1, <1>2, <1>3, <2>1 DEF TypeOK
<1>7. WalkTypes'
  <2>1. IsFiniteSet(seen')
    BY <1>0, <1>1, <1>3, FS_Union DEF WalkTypes
  <2>2. walk' \in [first : 0 .. Modulus - 1, page : 0 .. Modulus,
                   size : 0 .. Modulus - 1]
    BY <1>0, <1>1, <1>2 DEF WalkTypes
  <2> QED
    BY <1>0, <1>1, <1>2, <2>1, <2>2 DEF WalkTypes
<1>8. FewLeftBehind'
  <2>1. Behind' \in SUBSET Behind
    <3> SUFFICES ASSUME NEW r \in stable, r \notin seen', r \notin seen,
                        done' \/ Position(table, r) < At'
                 PROVE  Position(table, r) < At
      BY <1>1 DEF Behind
    <3>1. r \in Answer(table) /\ Position(table, r) \in Nat /\ r \notin rows
      BY <1>0, <1>1, Basics DEF TypeOK
    <3>2. Position(table, r) < At + walk.size
      BY <1>4, <1>5, <3>1
    <3> QED
      BY <1>2, <1>3, <3>1, <3>2
  <2>2. Cardinality(Behind') <= Cardinality(Behind) /\ Cardinality(Behind) \in Nat
    BY <1>0, <2>1, Basics, FS_Subset
  <2>3. Cardinality(Behind') \in Nat
    BY <1>0, <2>1, Basics, FS_Subset, FS_CardinalityType
  <2> QED
    BY <1>1, <1>2, <2>2, <2>3 DEF WalkInv, FewLeftBehind
<1>9. FewAgain'
  <2> DEFINE both == seen \cap rows
             later == { r \in seen \cap Answer(table) :
                          ~done' /\ At + walk.size <= Position(table, r) }
  <2>1. /\ IsFiniteSet(both) /\ Cardinality(both) \in Nat
        /\ Cardinality(seen') = Cardinality(seen) + Cardinality(rows)
                                - Cardinality(both)
    <3>1. IsFiniteSet(seen)
      BY <1>0 DEF WalkTypes
    <3>2. IsFiniteSet(both)
      BY <1>3, FS_Intersection
    <3> QED
      BY <1>1, <1>3, <3>1, <3>2, FS_Union, FS_CardinalityType
  <2>2. Again' \subseteq later
    <3> SUFFICES ASSUME NEW r \in seen \cup rows, r \in Answer(table), ~done',
                        At' <= Position(table, r)
                 PROVE  r \in later
      BY <1>1 DEF Again
    <3>1. Position(table, r) \in Nat /\ At + walk.size <= Position(table, r)
      BY <1>0, <1>5, Basics
    <3>2. r \notin rows
      BY <1>2, <1>3, <3>1
    <3> QED
      BY <3>1, <3>2
  <2>3. /\ both \cup later \subseteq Again
        /\ both \cap later = {}
    <3>1. \A r \in both \cup later : r \in seen \cap Answer(table)
                                     /\ At <= Position(table, r)
      BY <1>0, <1>2, <1>3, Basics
    <3>2. \A r \in both : ~(At + walk.size <= Position(table, r))
      BY <1>0, <1>2, <1>3, Basics
    <3> QED
      BY <1>1, <3>1, <3>2 DEF Again
  <2> HIDE DEF both, later
  <2>4. IsFiniteSet(Again) /\ Cardinality(Again) \in Nat
    BY <1>0, Basics
  <2>5. /\ IsFiniteSet(later) /\ Cardinality(later) \in Nat
        /\ Cardinality(both) + Cardinality(later) <= Cardinality(Again)
    <3>1. IsFiniteSet(later) /\ IsFiniteSet(both \cup later)
          /\ Cardinality(both \cup later) <= Cardinality(Again)
      BY <2>3, <2>4, FS_Subset
    <3>2. Cardinality(both \cup later) = Cardinality(both) + Cardinality(later)
                                         - Cardinality({})
      BY <2>1, <2>3, <3>1, FS_Union
    <3> QED
      BY <2>1, <3>1, <3>2, FS_EmptySet, FS_CardinalityType
  <2>6. Cardinality(Again') <= Cardinality(later) /\ Cardinality(Again') \in Nat
    BY <2>2, <2>5, FS_Subset, FS_CardinalityType
  <2>7. Cardinality(seen) \in Nat /\ got - Cardinality(seen) + Cardinality(Again) <= added + moved
    BY <1>0, Basics DEF WalkInv, FewAgain
  <2> QED
    BY <1>1, <1>2, <1>3, <2>1, <2>4, <2>5, <2>6, <2>7 DEF FewAgain
<1>10. OnTrack'
  <2> SUFFICES ASSUME ~done', From \in 0 .. Modulus - 1 PROVE At' = Until'
    BY <1>2 DEF OnTrack, From
  <2>1. At = Until
    BY <1>1 DEF WalkInv, OnTrack
  <2>2. Until' = (walk.page + 1 - 1) * walk.size
    BY <1>2 DEF Until
  <2>3. (walk.page + 1 - 1) * walk.size = (walk.page - 1) * walk.size + walk.size
    BY <1>2
  <2> QED
    BY <1>5, <2>1, <2>2, <2>3 DEF Until
<1>11. PagesAreSlices'
  <2> SUFFICES ASSUME added + removed + moved = 0, From \in 0 .. Modulus - 1
               PROVE  /\ seen' = Slice(table, From, Until')
                      /\ got' = Cardinality(seen')
    BY <1>1, <1>2 DEF PagesAreSlices, From, Until
  <2>1. At = Until /\ seen = Slice(table, From, Until) /\ got = Cardinality(seen)
    BY <1>1 DEF WalkInv, OnTrack, PagesAreSlices, From, Until
  <2>2. Until' = At + walk.size
    <3>1. Until' = (walk.page + 1 - 1) * walk.size
      BY <1>2 DEF Until
    <3>2. (walk.page + 1 - 1) * walk.size = (walk.page - 1) * walk.size + walk.size
      BY <1>2
    <3> QED
      BY <2>1, <3>1, <3>2 DEF Until
  <2>3. From \in Nat /\ From <= At
    <3>1. (walk.page - walk.first) * walk.size \in Nat
      BY <1>2
    <3>2. (walk.page - 1) * walk.size
            = (walk.first - 1) * walk.size + (walk.page - walk.first) * walk.size
      BY <1>2
    <3>3. Until = From + (walk.page - walk.first) * walk.size
      BY <3>2 DEF From, Until
    <3>4. From \in Nat
      BY <1>2
    <3> QED
      BY <2>1, <3>1, <3>3, <3>4
  <2>4. seen' = Slice(table, From, Until')
    <3>1. \A r \in Answer(table) : Position(table, r) \in Nat
      BY <1>0, Basics
    <3>2. seen' = seen \cup rows /\ rows \subseteq Answer(table)
      BY <1>1, <1>3
    <3> QED
      BY <1>2, <1>3, <2>1, <2>2, <2>3, <3>1, <3>2 DEF Slice
  <2>5. seen \cap rows = {}
    <3>1. \A r \in seen : r \in Answer(table) /\ Position(table, r) < At
      BY <2>1 DEF Slice
    <3>2. \A r \in rows : At <= Position(table, r)
      BY <1>3
    <3>3. \A r \in Answer(table) : Position(table, r) \in Nat
      BY <1>0, Basics
    <3> QED
      BY <1>2, <3>1, <3>2, <3>3
  <2>6. Cardinality(seen') = Cardinality(seen) + Cardinality(rows)
    <3>1. IsFiniteSet(seen) /\ Cardinality(seen) \in Nat
      BY <1>0, Basics DEF WalkTypes
    <3>2. Cardinality(seen \cup rows) = Cardinality(seen) + Cardinality(rows)
                                        - Cardinality({})
      BY <1>3, <2>5, <3>1, FS_Union
    <3> QED
      BY <1>1, <1>3, <3>1, <3>2, FS_EmptySet
  <2> QED
    BY <1>1, <2>1, <2>4, <2>6
<1> QED
  BY <1>6, <1>7, <1>8, <1>9, <1>10, <1>11 DEF WalkInv

\* The rows left behind and those to come again, after a change of the table that
\* leaves the walk alone.
LEMMA WalkStays ==
    ASSUME WalkInv, UNCHANGED walkVars
    PROVE  /\ walk' = walk /\ got' = got /\ seen' = seen /\ done' = done
           /\ At' = At /\ From' = From /\ Until' = Until
           /\ Behind' = { r \in stable' \ seen :
                            done \/ Position(table', r) < At }
           /\ Again' = { r \in seen \cap Answer(table') :
                            ~done /\ At <= Position(table', r) }
           /\ OnTrack'
<1>1. walk' = walk /\ got' = got /\ seen' = seen /\ done' = done
  BY DEF walkVars
<1>2. At' = At /\ From' = From /\ Until' = Until
  BY <1>1 DEF At, From, Until
<1>3. OnTrack'
  BY <1>1, <1>2 DEF WalkInv, OnTrack
<1> QED
  BY <1>1, <1>2, <1>3 DEF Behind, Again

\* At most one row of a table has a certain position.
LEMMA OneThere ==
    ASSUME NEW rows, IsTable(rows), IsFiniteSet(DOMAIN rows),
           NEW S, IsFiniteSet(S), NEW T, T \subseteq Answer(rows), NEW k,
           \A r \in T : r \in S \/ Position(rows, r) = k
    PROVE  /\ IsFiniteSet(T) /\ Cardinality(T) \in Nat /\ Cardinality(S) \in Nat
           /\ Cardinality(T) <= Cardinality(S) + 1
<1>1. IsFiniteSet(T) /\ Cardinality(T) \in Nat /\ Cardinality(S) \in Nat
  BY AnswerFinite, FS_Subset, FS_CardinalityType
<1>2. CASE T \subseteq S
  BY <1>1, <1>2, FS_Subset
<1>3. ASSUME NEW x \in T, x \notin S
      PROVE  Cardinality(T) <= Cardinality(S) + 1
  <2>1. T \subseteq S \cup {x}
    BY <1>3, PositionType
  <2>2. IsFiniteSet(S \cup {x}) /\ Cardinality(S \cup {x}) = Cardinality(S) + 1
    BY <1>3, FS_AddElement
  <2> QED
    BY <2>1, <2>2, FS_Subset
<1> QED
  BY <1>1, <1>2, <1>3

\* What the history records of a change of row r.
LEMMA Noted ==
    ASSUME WalkInv, NEW r \in Rows, NEW is \in Part,
           PartOf(table', r) = is, Note(r, PartOf(table, r), is)
    PROVE  /\ UNCHANGED walkVars
           /\ stable' \subseteq stable
           /\ r \notin Answer(table') => stable' = stable \ {r}
           /\ r \in Answer(table') => stable' = stable
           /\ \A n \in {added, removed, moved, changes, added', removed', moved'} :
                n \in Nat
           /\ changes' \in 0 .. MaxChanges
           /\ added' + removed' + moved' \in 0 .. changes'
           /\ removed + moved <= removed' + moved' /\ added + moved <= added' + moved'
           /\ r \in Answer(table) /\ is # PartOf(table, r)
                => removed' + moved' = removed + moved + 1
           /\ r \in Answer(table') /\ is # PartOf(table, r)
                => added' + moved' = added + moved + 1
           /\ added' + removed' + moved' = 0 =>
                is = PartOf(table, r) /\ added + removed + moved = 0
<1> DEFINE was == PartOf(table, r)
<1>1. /\ r \in Answer(table) <=> was # "other"
      /\ r \in Answer(table') <=> is # "other"
  BY DEF PartOf, Answer
<1>2. /\ added \in Nat /\ removed \in Nat /\ moved \in Nat /\ MaxChanges \in Nat
      /\ changes \in 0 .. MaxChanges /\ added + removed + moved \in 0 .. changes
  BY PageAssumption DEF WalkInv, TypeOK, WalkTypes
<1> HIDE DEF was
<1>3. /\ changes < MaxChanges /\ changes' = changes + 1
      /\ added' = IF was = "other" /\ is # "other" THEN added + 1 ELSE added
      /\ removed' = IF was # "other" /\ is = "other" THEN removed + 1 ELSE removed
      /\ moved' = IF was # "other" /\ is # "other" /\ was # is THEN moved + 1 ELSE moved
      /\ stable' = IF is = "other" THEN stable \ {r} ELSE stable
      /\ UNCHANGED walkVars
  BY DEF Note, was
<1>4. /\ stable' \subseteq stable
      /\ r \notin Answer(table') => stable' = stable \ {r}
      /\ r \in Answer(table') => stable' = stable
  BY <1>1, <1>3
<1>5. /\ \A n \in {added, removed, moved, changes, added', removed', moved'} :
           n \in Nat
      /\ changes' \in 0 .. MaxChanges
      /\ added' + removed' + moved' \in 0 .. changes'
      /\ removed + moved <= removed' + moved' /\ added + moved <= added' + moved'
  BY <1>2, <1>3
<1>6. /\ was # "other" /\ is # was => removed' + moved' = removed + moved + 1
      /\ is # "other" /\ is # was => added' + moved' = added + moved + 1
  BY <1>2, <1>3
<1>7. added' + removed' + moved' = 0 => is = was /\ added + removed + moved = 0
  BY <1>2, <1>3
<1> QED
  BY <1>1, <1>3, <1>4, <1>5, <1>6, <1>7 DEF was

\* A row that leaves the answer, or changes places in it, leaves at most one more
\* row behind the walk.
LEMMA OneMoreBehind ==
    ASSUME TypeOK, WalkTypes, NEW r \in Answer(table), Differ(table, table', r),
           NEW B, B \subseteq stable \ seen,
           \A q \in B : q # r => q \in Answer(table'),
           \A q \in B : done \/ Position(table', q) < At
    PROVE  /\ Cardinality(B) <= Cardinality(Behind) + 1
           /\ Cardinality(B) \in Nat /\ Cardinality(Behind) \in Nat
<1>1. /\ IsTable(table) /\ IsFiniteSet(DOMAIN table) /\ IsFiniteSet(Behind)
      /\ At \in Nat /\ \A q \in Answer(table) : Position(table, q) \in Nat
      /\ B \subseteq Answer(table)
  BY Basics DEF TypeOK
<1>2. ASSUME NEW q \in B, q \notin Behind, q # r
      PROVE  Position(table, q) = At /\ Position(table, r) < At
  <2>1. ~done /\ At <= Position(table, q) /\ Position(table', q) < At
    BY <1>1, <1>2 DEF Behind
  <2>2. Position(table, q) = At /\ Leads(table, r, q)
    BY <1>1, <1>2, <2>1, Shift
  <2> QED
    BY <1>1, <2>2, PositionOrder DEF Leads
<1>3. ASSUME NEW p \in B, p \notin Behind, p # r
      PROVE  \A q \in B : q \in Behind \/ Position(table, q) = At
  <2>1. r \in B => r \in Behind
    BY <1>2, <1>3 DEF Behind
  <2> QED
    BY <1>2, <2>1
<1>4. CASE \A q \in B : q \in Behind \/ Position(table, q) = At
  BY <1>1, <1>4, OneThere
<1>5. CASE \A q \in B : q \in Behind \/ q = r
  <2>1. \A q \in B : q \in Behind \/ Position(table, q) = Position(table, r)
    BY <1>5
  <2> QED
    BY <1>1, <2>1, OneThere, FS_CardinalityType
<1> QED
  BY <1>3, <1>4, <1>5

\* A row that comes into the answer, or changes places in it, makes the walk get
\* at most one more row again.
LEMMA OneMoreAgain ==
    ASSUME TypeOK, WalkTypes, NEW r \in Answer(table'), Differ(table, table', r),
           NEW A, A \subseteq seen \cap Answer(table'),
           \A q \in A : ~done /\ At <= Position(table', q)
    PROVE  /\ Cardinality(A) <= Cardinality(Again) + 1
           /\ Cardinality(A) \in Nat /\ Cardinality(Again) \in Nat
<1>1. /\ IsTable(table') /\ IsFiniteSet(DOMAIN table') /\ IsFiniteSet(Again)
      /\ At \in Nat /\ \A q \in Answer(table) : Position(table, q) \in Nat
      /\ \A q \in Answer(table') : Position(table', q) \in Nat
  BY Basics, PositionType DEF Differ
<1>2. ASSUME NEW q \in A, q \notin Again, q # r
      PROVE  Position(table', q) = At /\ Position(table', r) < At
  <2>1. q \in Answer(table) /\ q \in Answer(table')
    BY <1>2 DEF Differ
  <2>2. Position(table, q) < At /\ At <= Position(table', q)
    BY <1>1, <1>2, <2>1 DEF Again
  <2>3. Position(table', q) = At /\ Leads(table', r, q)
    BY <1>1, <1>2, <2>1, <2>2, Shift
  <2> QED
    BY <1>1, <2>1, <2>3, PositionOrder DEF Leads
<1>3. ASSUME NEW p \in A, p \notin Again, p # r
      PROVE  \A q \in A : q \in Again \/ Position(table', q) = At
  <2>1. r \notin A
    BY <1>1, <1>2, <1>3
  <2> QED
    BY <1>2, <2>1
<1>4. CASE \A q \in A : q \in Again \/ Position(table', q) = At
  BY <1>1, <1>4, OneThere, FS_CardinalityType
<1>5. CASE \A q \in A : q \in Again \/ q = r
  <2>1. \A q \in A : q \in Again \/ Position(table', q) = Position(table', r)
    BY <1>5
  <2> QED
    BY <1>1, <2>1, OneThere, FS_CardinalityType
<1> QED
  BY <1>3, <1>4, <1>5

LEMMA SumInNat ==
    ASSUME NEW n \in Nat, NEW m \in Nat
    PROVE  n + m \in Nat
  OBVIOUS

\* One more on the left, one more on the right.
LEMMA StillFew ==
    ASSUME NEW b \in Nat, NEW c \in Nat, NEW x \in Int, NEW n \in Nat, NEW m \in Nat,
           x + b <= n,
           \/ c <= b /\ n <= m
           \/ c <= b + 1 /\ m = n + 1
    PROVE  x + c <= m
  OBVIOUS

\* A change of one row.
LEMMA ChangeStep ==
    ASSUME WalkInv, NEW r \in Rows, NEW is \in Part,
           Differ(table, table', r), PartOf(table', r) = is,
           Note(r, PartOf(table, r), is),
           r \in Answer(table) /\ is = PartOf(table, r) => table' = table
    PROVE  WalkInv'
<1> DEFINE was == PartOf(table, r)
<1>0. TypeOK /\ WalkTypes
  BY DEF WalkInv
<1>1. /\ UNCHANGED walkVars
      /\ stable' \subseteq stable
      /\ r \notin Answer(table') => stable' = stable \ {r}
      /\ r \in Answer(table') => stable' = stable
      /\ added \in Nat /\ removed \in Nat /\ moved \in Nat
      /\ added' \in Nat /\ removed' \in Nat /\ moved' \in Nat
      /\ changes' \in 0 .. MaxChanges
      /\ added' + removed' + moved' \in 0 .. changes'
      /\ removed + moved <= removed' + moved' /\ added + moved <= added' + moved'
      /\ r \in Answer(table) /\ is # was => removed' + moved' = removed + moved + 1
      /\ r \in Answer(table') /\ is # was => added' + moved' = added + moved + 1
      /\ added' + removed' + moved' = 0 => is = was /\ added + removed + moved = 0
  BY Noted
<1>2. /\ IsTable(table') /\ IsFiniteSet(DOMAIN table')
      /\ \A q \in Answer(table) \cup Answer(table') :
           q # r => q \in Answer(table) /\ q \in Answer(table')
  BY DEF Differ
<1>3. /\ At \in Nat /\ \A q \in Answer(table) : Position(table, q) \in Nat
      /\ IsFiniteSet(Behind) /\ IsFiniteSet(Again)
      /\ Cardinality(Behind) \in Nat /\ Cardinality(Again) \in Nat
      /\ Cardinality(seen) \in Nat /\ got \in Nat
  BY <1>0, Basics DEF TypeOK
<1>4. TypeOK'
  <2>1. stable' \subseteq Answer(table')
    BY <1>0, <1>1, <1>2 DEF TypeOK
  <2> QED
    BY <1>0, <1>1, <1>2, <2>1 DEF TypeOK, walkVars
<1>5. WalkTypes'
  BY <1>0, <1>1, <1>2 DEF WalkTypes, walkVars
<1>6. Behind' = { q \in stable' \ seen : done \/ Position(table', q) < At }
      /\ Again' = { q \in seen \cap Answer(table') :
                      ~done /\ At <= Position(table', q) }
  BY <1>1, WalkStays
<1>7. FewLeftBehind'
  <2> SUFFICES ASSUME walk.first = 1
               PROVE  Cardinality(Behind') <= removed' + moved'
    <3>1. walk' = walk
      BY <1>1, WalkStays
    <3> QED
      BY <3>1 DEF FewLeftBehind
  <2>0. /\ Cardinality(Behind) \in Nat /\ removed + moved \in Nat
        /\ 0 + Cardinality(Behind) <= removed + moved
    BY <1>1, <1>3 DEF WalkInv, FewLeftBehind
  <2>5. /\ removed \in Nat /\ moved \in Nat /\ removed' \in Nat /\ moved' \in Nat
        /\ removed + moved <= removed' + moved'
    BY <1>1
  <2>6. ASSUME Cardinality(Behind') \in Nat,
               \/ Cardinality(Behind') <= Cardinality(Behind)
               \/ /\ Cardinality(Behind') <= Cardinality(Behind) + 1
                  /\ removed' + moved' = removed + moved + 1
        PROVE  Cardinality(Behind') <= removed' + moved'
    <3> DEFINE b == Cardinality(Behind)
               c == Cardinality(Behind')
               n == removed + moved
               m == removed' + moved'
    <3>1. b \in Nat /\ c \in Nat /\ n \in Nat /\ 0 + b <= n
      BY <2>0, <2>6
    <3>2. m \in Nat /\ n <= m
      BY <2>5, SumInNat, Zenon
    <3>3. (c <= b /\ n <= m) \/ (c <= b + 1 /\ m = n + 1)
      BY <2>6, <3>2
    <3> HIDE DEF b, c, n, m
    <3>4. 0 + c <= m
      BY <3>1, <3>2, <3>3, StillFew
    <3>5. c <= m
      BY <3>1, <3>4
    <3> QED
      BY <3>5 DEF c, m
  <2>1. CASE r \in Answer(table) /\ is # was
    <3>1. /\ Behind' \subseteq stable \ seen
          /\ \A q \in Behind' : q # r => q \in Answer(table')
          /\ \A q \in Behind' : done \/ Position(table', q) < At
      BY <1>0, <1>1, <1>2, <1>6 DEF TypeOK
    <3>2. Cardinality(Behind') <= Cardinality(Behind) + 1 /\ Cardinality(Behind') \in Nat
      BY <1>0, <2>1, <3>1, OneMoreBehind
    <3>3. removed' + moved' = removed + moved + 1
      BY <1>1, <2>1
    <3> QED
      BY <2>6, <3>2, <3>3
  <2>2. CASE Behind' \in SUBSET Behind
    <3>1. Cardinality(Behind') <= Cardinality(Behind) /\ Cardinality(Behind') \in Nat
      BY <1>3, <2>2, FS_Subset, FS_CardinalityType
    <3> QED
      BY <2>6, <3>1
  <2>3. CASE r \in Answer(table) /\ is = was
    <3>1. table' = table
      BY <2>3
    <3>2. Behind' \in SUBSET Behind
      BY <1>1, <1>6, <3>1 DEF Behind
    <3> QED
      BY <2>2, <3>2
  <2>4. CASE r \notin Answer(table)
    <3> SUFFICES ASSUME NEW q \in Behind' PROVE q \in Behind
      BY <2>2
    <3>1. q \in stable /\ q \notin seen /\ (done \/ Position(table', q) < At)
      BY <1>1, <1>6
    <3>2. q \in Answer(table) /\ q # r
      BY <1>0, <2>4, <3>1 DEF TypeOK
    <3>3. Position(table, q) <= Position(table', q)
      BY <1>3, <2>4, <3>2, Shift DEF Leads
    <3>4. Position(table', q) \in Nat
      BY <1>2, <3>2, PositionType
    <3> QED
      BY <1>3, <3>1, <3>2, <3>3, <3>4 DEF Behind
  <2> QED
    BY <2>1, <2>3, <2>4
<1>8. FewAgain'
  <2> SUFFICES got - Cardinality(seen) + Cardinality(Again') <= added' + moved'
    <3>1. got' = got /\ seen' = seen
      BY <1>1, WalkStays
    <3> QED
      BY <3>1 DEF FewAgain
  <2>0. /\ added \in Nat /\ moved \in Nat /\ added' \in Nat /\ moved' \in Nat
        /\ added + moved <= added' + moved'
    BY <1>1
  <2>1. /\ got - Cardinality(seen) \in Int /\ Cardinality(Again) \in Nat
        /\ got - Cardinality(seen) + Cardinality(Again) <= added + moved
    BY <1>3 DEF WalkInv, FewAgain
  <2>6. ASSUME Cardinality(Again') \in Nat,
               \/ Cardinality(Again') <= Cardinality(Again)
               \/ /\ Cardinality(Again') <= Cardinality(Again) + 1
                  /\ added' + moved' = added + moved + 1
        PROVE  got - Cardinality(seen) + Cardinality(Again') <= added' + moved'
    <3> DEFINE b == Cardinality(Again)
               c == Cardinality(Again')
               n == added + moved
               m == added' + moved'
               x == got - Cardinality(seen)
    <3>1. b \in Nat /\ c \in Nat /\ n \in Nat /\ x \in Int /\ x + b <= n
      BY <2>0, <2>1, <2>6
    <3>2. m \in Nat /\ n <= m
      BY <2>0, SumInNat, Zenon
    <3>3. (c <= b /\ n <= m) \/ (c <= b + 1 /\ m = n + 1)
      BY <2>6, <3>2
    <3> HIDE DEF b, c, n, m, x
    <3>4. x + c <= m
      BY <3>1, <3>2, <3>3, StillFew
    <3> QED
      BY <3>4 DEF c, m, x
  <2>2. CASE r \in Answer(table') /\ is # was
    <3>1. /\ Again' \subseteq seen \cap Answer(table')
          /\ \A q \in Again' : ~done /\ At <= Position(table', q)
      BY <1>6
    <3>2. Cardinality(Again') <= Cardinality(Again) + 1 /\ Cardinality(Again') \in Nat
      BY <1>0, <2>2, <3>1, OneMoreAgain
    <3>3. added' + moved' = added + moved + 1
      BY <1>1, <2>2
    <3> QED
      BY <2>6, <3>2, <3>3
  <2>3. CASE Again' \in SUBSET Again
    <3>1. Cardinality(Again') <= Cardinality(Again) /\ Cardinality(Again') \in Nat
      BY <1>3, <2>3, FS_Subset, FS_CardinalityType
    <3> QED
      BY <2>6, <3>1
  <2>4. CASE r \in Answer(table') /\ is = was
    <3>1. r \in Answer(table)
      BY <2>4 DEF Answer, PartOf
    <3>2. table' = table
      BY <2>4, <3>1
    <3>3. Again' \in SUBSET Again
      BY <1>6, <3>2 DEF Again
    <3> QED
      BY <2>3, <3>3
  <2>5. CASE r \notin Answer(table')
    <3> SUFFICES ASSUME NEW q \in Again' PROVE q \in Again
      BY <2>3
    <3>1. q \in seen /\ q \in Answer(table') /\ ~done /\ At <= Position(table', q)
      BY <1>6
    <3>2. q \in Answer(table) /\ q # r
      BY <1>2, <2>5, <3>1
    <3>3. Position(table', q) <= Position(table, q)
      BY <1>3, <2>5, <3>2, Shift DEF Leads
    <3>4. Position(table', q) \in Nat
      BY <1>2, <3>1, PositionType
    <3> QED
      BY <1>3, <3>1, <3>2, <3>3, <3>4 DEF Again
  <2> QED
    BY <2>2, <2>4, <2>5
<1>9. PagesAreSlices'
  <2> SUFFICES ASSUME added' + removed' + moved' = 0
               PROVE  PagesAreSlices'
    BY DEF PagesAreSlices
  <2>1. is = was /\ added + removed + moved = 0
    BY <1>1
  <2>2. /\ Answer(table') = Answer(table)
        /\ \A q \in Answer(table) : Position(table', q) = Position(table, q)
    <3>1. CASE r \in Answer(table)
      BY <2>1, <3>1
    <3>2. CASE r \notin Answer(table)
      <4>1. r \notin Answer(table')
        BY <2>1, <3>2 DEF Answer, PartOf
      <4>2. \A q \in Answer(table) : Position(table', q) = Position(table, q)
        BY <3>2, <4>1, Shift DEF Leads
      <4> QED
        BY <1>2, <3>2, <4>1, <4>2
    <3> QED
      BY <3>1, <3>2
  <2>3. \A from, until : Slice(table', from, until) = Slice(table, from, until)
    BY <2>2 DEF Slice
  <2>4. walk' = walk /\ seen' = seen /\ got' = got
    BY <1>1, WalkStays
  <2> QED
    BY <2>1, <2>3, <2>4 DEF WalkInv, PagesAreSlices
<1>10. OnTrack'
  BY <1>1, WalkStays
<1> QED
  BY <1>4, <1>5, <1>7, <1>8, <1>9, <1>10 DEF WalkInv

-----------------------------------------------------------------------------
(* Theorems.                                                               *)

\* A walk begins with nothing behind it.
LEMMA WalkInit == Init => WalkInv
<1> SUFFICES ASSUME Init PROVE WalkInv
  OBVIOUS
<1>1. PICK p \in FirstPages, s \in PageSizes :
        walk = [first |-> p, page |-> p, size |-> s]
  BY DEF Init
<1>2. /\ table = StartTable /\ got = 0 /\ seen = {} /\ done = FALSE
      /\ stable = Answer(StartTable) /\ changes = 0
      /\ added = 0 /\ removed = 0 /\ moved = 0
  BY DEF Init
<1>3. Modulus \in Nat \ {0} /\ p \in 0 .. Modulus - 1 /\ s \in 0 .. Modulus - 1
  BY PageAssumption
<1>4. TypeOK
  BY <1>2, PageAssumption DEF TypeOK
<1>5. WalkTypes
  <2>1. walk \in [first : 0 .. Modulus - 1, page : 0 .. Modulus,
                  size : 0 .. Modulus - 1] /\ walk.first <= walk.page
    BY <1>1, <1>3
  <2> QED
    BY <1>2, <2>1, FS_EmptySet, PageAssumption DEF WalkTypes
<1>6. OnTrack
  <2> SUFFICES ASSUME From \in 0 .. Modulus - 1 PROVE At = Until
    BY DEF OnTrack
  <2>1. From = (p - 1) * s /\ Until = (p - 1) * s /\ At = Offset(p, s)
    BY <1>1 DEF From, Until, At
  <2>2. CASE p >= 1
    <3>1. Offset(p, s) = ((p - 1) * s) % Modulus
      BY <1>3, <2>2, OffsetNext
    <3>2. From \in Nat /\ From < Modulus
      BY <1>3
    <3>3. From % Modulus = From
      BY <1>3, <3>2, Remainders
    <3> QED
      BY <2>1, <3>1, <3>3
  <2>3. CASE p = 0
    <3>1. s = 0
      BY <1>3, <2>1, <2>3
    <3>2. Until = 0
      BY <2>1, <2>3, <3>1
    <3>3. At = (((p - 1) % Modulus) * 0) % Modulus
      BY <2>1, <3>1 DEF Offset
    <3>4. (p - 1) % Modulus \in Nat /\ 0 % Modulus = 0
      BY <1>3, RemainderType, Remainders
    <3> QED
      BY <3>2, <3>3, <3>4
  <2> QED
    BY <1>3, <2>2, <2>3
<1>7. \A r \in Answer(table) : Position(table, r) \in Nat /\ At \in Nat
  BY <1>4, <1>5, Basics
<1>8. FewLeftBehind
  <2> SUFFICES ASSUME walk.first = 1 PROVE Cardinality(Behind) <= removed + moved
    BY DEF FewLeftBehind
  <2>1. At = 0
    <3>1. From = 0 /\ Until = 0
      BY <1>1, <1>3 DEF From, Until
    <3> QED
      BY <1>2, <1>3, <1>6, <3>1 DEF OnTrack
  <2>2. Behind = {}
    BY <1>2, <1>7, <2>1 DEF Behind
  <2> QED
    BY <1>2, <2>2, FS_EmptySet
<1>9. FewAgain
  <2>1. Again = {}
    BY <1>2 DEF Again
  <2> QED
    BY <1>2, <2>1, FS_EmptySet DEF FewAgain
<1>10. PagesAreSlices
  <2> SUFFICES ASSUME From \in 0 .. Modulus - 1
               PROVE  seen = Slice(table, From, Until) /\ got = Cardinality(seen)
    BY DEF PagesAreSlices, From, Until
  <2>1. From = Until
    BY <1>1 DEF From, Until
  <2>2. Slice(table, From, Until) = {}
    BY <1>3, <1>7, <2>1 DEF Slice
  <2> QED
    BY <1>2, <2>2, FS_EmptySet
<1> QED
  BY <1>4, <1>5, <1>6, <1>8, <1>9, <1>10 DEF WalkInv

\* Pages, updates, additions and deletions all preserve the invariant.
LEMMA WalkStep ==
    ASSUME TableFits, WalkInv, [Next]_vars
    PROVE  WalkInv'
<1>1. IsTable(table) /\ IsFiniteSet(DOMAIN table)
  BY DEF WalkInv, TypeOK, WalkTypes
<1>2. ASSUME NEW r \in Rows, NEW part \in Part, Write(r, part)
      PROVE  WalkInv'
  <2>1. /\ Differ(table, table', r) /\ PartOf(table', r) = part
        /\ r \in DOMAIN table /\ table[r].part = part => table' = table
    BY <1>1, <1>2, Upserted DEF Write
  <2>2. r \in Answer(table) /\ part = PartOf(table, r) => table' = table
    BY <2>1 DEF Answer, PartOf
  <2> QED
    BY <1>2, <2>1, <2>2, ChangeStep DEF Write
<1>3. ASSUME NEW r \in Rows, Delete(r)
      PROVE  WalkInv'
  <2>1. Differ(table, table', r) /\ PartOf(table', r) = "other"
    BY <1>1, <1>3, Deleted DEF Delete
  <2>2. ~(r \in Answer(table) /\ "other" = PartOf(table, r))
    BY DEF Answer, PartOf
  <2> QED
    BY <1>3, <2>1, <2>2, ChangeStep DEF Delete, Part
<1>4. CASE UNCHANGED vars
  BY <1>4 DEF vars, walkVars, history, WalkInv, TypeOK, WalkTypes,
     FewLeftBehind, FewAgain, OnTrack, PagesAreSlices, Behind, Again, At, From,
     Until
<1> QED
  BY <1>2, <1>3, <1>4, FetchStep DEF Next

\* The inductive invariant holds in every reachable state.
THEOREM WalkInvariance ==
    ASSUME TableFits
    PROVE  Spec => []WalkInv
<1>1. WalkInv /\ [Next]_vars => WalkInv'
  BY WalkStep
<1> QED
  BY <1>1, WalkInit, PTL DEF Spec

\* One row for an output, one rowid for a row.
THEOREM WalkTypeCorrect ==
    ASSUME TableFits
    PROVE  Spec => []TypeOK
<1>1. WalkInv => TypeOK
  BY DEF WalkInv
<1> QED
  BY <1>1, WalkInvariance, PTL

\* A walk from the first page misses no more outputs than left the answer or
\* changed places in it during the walk, however many pages it takes.
THEOREM MissedAreFew ==
    ASSUME TableFits
    PROVE  Spec => []MissedFew
<1>1. WalkInv => MissedFew
  <2> SUFFICES ASSUME WalkInv, done, walk.first = 1
               PROVE  Cardinality(stable \ seen) <= removed + moved
    BY DEF MissedFew
  <2>1. Behind = stable \ seen
    BY DEF Behind
  <2> QED
    BY <2>1 DEF WalkInv, FewLeftBehind
<1> QED
  BY <1>1, WalkInvariance, PTL

\* A walk from any page repeats no more outputs than came into the answer or
\* changed places in it during the walk.
THEOREM RepeatedAreFew ==
    ASSUME TableFits
    PROVE  Spec => []RepeatedFew
<1>1. WalkInv => RepeatedFew
  <2> SUFFICES ASSUME WalkInv PROVE got - Cardinality(seen) <= added + moved
    BY DEF RepeatedFew
  <2>1. /\ got - Cardinality(seen) + Cardinality(Again) <= added + moved
        /\ got \in Nat /\ added \in Nat /\ moved \in Nat
        /\ Cardinality(seen) \in Nat /\ Cardinality(Again) \in Nat
    BY Basics DEF WalkInv, FewAgain, WalkTypes, TypeOK
  <2> QED
    BY <2>1
<1> QED
  BY <1>1, WalkInvariance, PTL

\* While the answer does not change, the pages are the slices of one answer, as
\* long as the offset of the first one fits into 32 bits.
THEOREM PagesSliceTheAnswer ==
    ASSUME TableFits
    PROVE  Spec => []PagesAreSlices
<1>1. WalkInv => PagesAreSlices
  BY DEF WalkInv
<1> QED
  BY <1>1, WalkInvariance, PTL
====
