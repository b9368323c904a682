------------------------------ MODULE PageWalk ------------------------------
(***************************************************************************)
(* A client that reads the outputs of one address page by page while the   *)
(* workers insert, update and delete rows. The service keeps nothing       *)
(* between two pages: each is a query of its own, with an offset computed  *)
(* from the page number in 32 bits, and without an ORDER BY.               *)
(***************************************************************************)
EXTENDS Integers, FiniteSets

CONSTANTS
    Rows,         \* outputs that may have a row
    StartTable,   \* the rows in the table at first
    FirstPages,   \* page numbers a walk may begin with
    PageSizes,    \* page_size of a walk
    Modulus,      \* where u32 arithmetic wraps: 2^32 in the program
    MaxChanges    \* bound: rows written or deleted during a walk

\* What a row has the address as: the owner, whatever its return address, the
\* return address only, or neither.
Part == {"owner", "return", "other"}

\* One row for an output, and for a row a rowid of its own.
IsTable(rows) ==
    /\ DOMAIN rows \subseteq Rows
    /\ rows \in [DOMAIN rows -> [rowid : Nat, part : Part]]
    /\ \A q, r \in DOMAIN rows : rows[q].rowid = rows[r].rowid => q = r

ASSUME PageAssumption ==
    /\ IsTable(StartTable) /\ IsFiniteSet(DOMAIN StartTable)
    /\ Modulus \in Nat \ {0}
    /\ FirstPages \subseteq 0 .. Modulus - 1
    /\ PageSizes \subseteq 0 .. Modulus - 1
    /\ MaxChanges \in Nat

VARIABLES
    table,    \* the rows of expiration_unlock_conditions
    walk,     \* first page, next page and page size of the walk
    got,      \* how many rows the walk has got
    seen,     \* which ones
    done      \* the last page was not full

\* History of the walk; no guard of the program reads it.
VARIABLES
    stable,   \* rows in the answer ever since the walk began
    added,    \* rows that came into the answer since
    removed,  \* rows that went out of it
    moved,    \* rows that changed places in it
    changes   \* rows written or deleted

walkVars == <<walk, got, seen, done>>
history  == <<stable, added, removed, moved, changes>>
vars     == <<table, walkVars, history>>

-----------------------------------------------------------------------------
(* The table.                                                              *)

\* SQLite gives a new row one more than the largest rowid.
BrokenNewRowid(rows) == Cardinality(DOMAIN rows) + 1
NewRowid(rows) ==
    LET rowids == { rows[q].rowid : q \in DOMAIN rows } IN
    IF rowids = {} THEN 1
    ELSE 1 + CHOOSE n \in rowids : \A m \in rowids : m <= n

Place(rows, r, row) ==
    [s \in DOMAIN rows \cup {r} |-> IF s = r THEN row ELSE rows[s]]

\* INSERT .. ON CONFLICT DO UPDATE: a row that is there keeps its rowid, and is
\* given a new owner, return address and expiration.
BrokenUpsert(rows, r, part) ==
    Place(rows, r, [rowid |-> NewRowid(rows), part |-> part])
Upsert(rows, r, part) ==
    Place(rows, r, [rowid |-> IF r \in DOMAIN rows THEN rows[r].rowid
                                                   ELSE NewRowid(rows),
                    part  |-> part])

\* DELETE FROM objects, and the cascade.
Without(rows, r) == [s \in DOMAIN rows \ {r} |-> rows[s]]

-----------------------------------------------------------------------------
(* The query.                                                              *)

PartOf(rows, r) == IF r \in DOMAIN rows THEN rows[r].part ELSE "other"

\* The rows it selects.
Answer(rows) == { r \in DOMAIN rows : rows[r].part # "other" }

\* The order SQLite finds them in: `owner = ? OR return_address = ?` is answered
\* from two indices, one after the other, each in rowid order.
Before(rows, q, r) ==
    \/ rows[q].part = "owner" /\ rows[r].part = "return"
    \/ rows[q].part = rows[r].part /\ rows[q].rowid < rows[r].rowid

\* How many rows of the answer come before r.
Position(rows, r) == Cardinality({ q \in Answer(rows) : Before(rows, q, r) })

\* `(page - 1) * page_size` in u32. Built for release, as the Dockerfile does,
\* it wraps; a debug build ends the request instead.
BrokenOffset(page, size) == (page * size) % Modulus
Offset(page, size) == (((page - 1) % Modulus) * size) % Modulus

\* LIMIT page_size OFFSET offset.
Slice(rows, from, until) ==
    { r \in Answer(rows) : from <= Position(rows, r) /\ Position(rows, r) < until }

BrokenPageOf(rows, page, size) ==
    Slice(rows, Offset(page, size), Offset(page, size) + size + 1)
PageOf(rows, page, size) ==
    Slice(rows, Offset(page, size), Offset(page, size) + size)

-----------------------------------------------------------------------------

Init ==
    /\ table = StartTable
    /\ walk \in { [first |-> p, page |-> p, size |-> s] :
                    p \in FirstPages, s \in PageSizes }
    /\ got = 0
    /\ seen = {}
    /\ done = FALSE
    /\ stable = Answer(StartTable)
    /\ added = 0
    /\ removed = 0
    /\ moved = 0
    /\ changes = 0

\* The client asks for the next page, until one is not full.
FetchPage ==
    LET rows == PageOf(table, walk.page, walk.size) IN
    /\ ~done
    /\ walk.page < Modulus
    /\ got' = got + Cardinality(rows)
    /\ seen' = seen \cup rows
    /\ walk' = [walk EXCEPT !.page = @ + 1]
    /\ done' = (Cardinality(rows) < walk.size)
    /\ UNCHANGED <<table, history>>

\* What a change of row r, from one part to another, is for the walk.
Note(r, was, is) ==
    /\ changes < MaxChanges
    /\ changes' = changes + 1
    /\ added' = IF was = "other" /\ is # "other" THEN added + 1 ELSE added
    /\ removed' = IF was # "other" /\ is = "other" THEN removed + 1 ELSE removed
    /\ moved' = IF was # "other" /\ is # "other" /\ was # is THEN moved + 1
                                                             ELSE moved
    /\ stable' = IF is = "other" THEN stable \ {r} ELSE stable
    /\ UNCHANGED walkVars

\* A worker upserts an output.
Write(r, part) ==
    /\ table' = Upsert(table, r, part)
    /\ Note(r, PartOf(table, r), part)

\* A worker deletes one.
Delete(r) ==
    /\ r \in DOMAIN table
    /\ table' = Without(table, r)
    /\ Note(r, PartOf(table, r), "other")

Next ==
    \/ FetchPage
    \/ \E r \in Rows : Delete(r) \/ \E part \in Part : Write(r, part)

Spec == Init /\ [][Next]_vars

-----------------------------------------------------------------------------
(* Properties.                                                             *)

\* Page numbers and offsets are 32 bits wide, so pages reach every output only
\* if there are no more of them than that; theorems assume it.
TableFits == IsFiniteSet(Rows) /\ Cardinality(Rows) < Modulus

\* The table keeps one row for an output and one rowid for a row, and what
\* stayed in the answer is in it.
TypeOK ==
    /\ IsTable(table)
    /\ got \in Nat
    /\ seen \subseteq Rows
    /\ stable \subseteq Answer(table)
    /\ changes \in 0 .. MaxChanges
    /\ added + removed + moved \in 0 .. changes

\* A walk from the first page misses an output that was in the answer all along
\* only because another one left it meanwhile, or because one changed places
\* when an update gave it another owner: no more are missed than that. Other
\* updates and additions hide nothing (v1/mod.rs:73-83 without an order,
\* worker.rs:79-93).
MissedFew ==
    done /\ walk.first = 1 => Cardinality(stable \ seen) <= removed + moved

\* A walk gets an output twice only because another one came into the answer
\* meanwhile, or because one changed places: updates that keep owner and return
\* address move nothing, since a row keeps its rowid (worker.rs:79-93).
RepeatedFew == got - Cardinality(seen) <= added + moved

\* "The second page is inserted_objects[page_size .. 2 * page_size]": while the
\* answer does not change, pages are consecutive slices of it, beginning with
\* the one the first page number names, whatever happens to other rows. Where
\* the offset of that page does not fit into u32 it is another page that is
\* listed (v1/mod.rs:78).
PagesAreSlices ==
    LET from  == (walk.first - 1) * walk.size
        until == (walk.page - 1) * walk.size
    IN  added + removed + moved = 0 /\ from \in 0 .. Modulus - 1 =>
            /\ seen = Slice(table, from, until)
            /\ got = Cardinality(seen)
=============================================================================
