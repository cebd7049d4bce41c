----------------------------- MODULE TurnProofs -----------------------------
(***************************************************************************)
(* What the runtime remembers of its conversations, for any rows,          *)
(* requests, observations and limits: the transcript's cleanup and pages,  *)
(* and what the turns write to history and transcript.                     *)
(***************************************************************************)
EXTENDS ObservationTurn, SetInduction

-----------------------------------------------------------------------------
(***************************************************************************)
(* The transcript.  Its rows are a table, whatever the batches hold; a     *)
(* cleanup is recorded with what it deleted, and a walk over the pages     *)
(* knows which of the rows it began with are behind its cursor.            *)
(***************************************************************************)
\* The rows are a table: a transcript id is in it once.
Table(t) ==
    /\ IsFiniteSet(t)
    /\ \A r \in t : r.at \in Nat /\ r.id \in Nat
    /\ \A r, s \in t : r.id = s.id => r = s

\* What is left of a table is one.
LEMMA SubTable ==
    ASSUME NEW t, Table(t), NEW u, u \subseteq t
    PROVE  Table(u)
  BY FS_Subset DEF Table

\* INSERT OR IGNORE keeps the id unique; the overflow only deletes.
LEMMA InsertKeepsTable ==
    ASSUME NEW t, Table(t), NEW row, row.at \in Nat, row.id \in Nat
    PROVE  Table(InsertRow(t, row)) /\ InsertRow(t, row) \subseteq t \cup {row}
  <1> DEFINE u == IF \E r \in t : r.id = row.id THEN t ELSE t \cup {row}
  <1>1. Table(u) /\ u \subseteq t \cup {row}
    <2>1. CASE \E r \in t : r.id = row.id
      BY <2>1
    <2>2. CASE ~\E r \in t : r.id = row.id
      <3>1. IsFiniteSet(t \cup {row})
        BY FS_AddElement DEF Table
      <3> QED
        BY <2>2, <3>1 DEF Table
    <2> QED
      BY <2>1, <2>2
  <1> HIDE DEF u
  <1>2. PruneOverflow(u, row) \subseteq u
    BY DEF PruneOverflow
  <1>3. InsertRow(t, row) = PruneOverflow(u, row)
    BY DEF InsertRow, u
  <1> QED
    BY <1>1, <1>2, <1>3, SubTable

\* _append_sync is a loop over the batch.
LEMMA AppendKeepsTable ==
    ASSUME NEW t, Table(t), NEW R, NEW batch \in Seq(R), \A r \in R : r.at \in Nat /\ r.id \in Nat
    PROVE  Table(AppendRows(t, batch)) /\ AppendRows(t, batch) \subseteq t \cup R
  <1> DEFINE N == Len(batch)
             V == {u \in SUBSET (t \cup R) : Table(u)}
             def(h) == [n \in 0 .. N |-> IF n = 0 THEN t ELSE InsertRow(h[n - 1], batch[n])]
             step == [n \in Nat |-> [u \in V |-> IF n >= N THEN u ELSE InsertRow(u, batch[n + 1])]]
  <1>1. N \in Nat /\ \A n \in 1 .. N : batch[n] \in R
    OBVIOUS
  <1>2. t \in V
    OBVIOUS
  <1>3. \A u \in V, n \in 1 .. N : InsertRow(u, batch[n]) \in V
    <2> SUFFICES ASSUME NEW u \in V, NEW n \in 1 .. N PROVE InsertRow(u, batch[n]) \in V
      OBVIOUS
    <2>1. batch[n] \in R /\ Table(u) /\ u \subseteq t \cup R
      BY <1>1
    <2>2. Table(InsertRow(u, batch[n])) /\ InsertRow(u, batch[n]) \subseteq u \cup {batch[n]}
      BY <2>1, InsertKeepsTable
    <2> QED
      BY <2>1, <2>2
  <1> HIDE DEF V
  <1>4. step \in [Nat -> [V -> V]]
    <2> SUFFICES ASSUME NEW n \in Nat, NEW u \in V, ~(n >= N)
                 PROVE  InsertRow(u, batch[n + 1]) \in V
      OBVIOUS
    <2>1. n + 1 \in 1 .. N
      BY <1>1
    <2> QED
      BY <1>3, <2>1
  <1>5. PICK w : Steps(w, V, t, step)
    <2> HIDE DEF step
    <2> QED
      BY <1>2, <1>4, NatRecursion
  <1>6. w \in [Nat -> V] /\ w[0] = t /\ \A n \in Nat : w[n + 1] = step[n][w[n]]
    BY <1>5 DEF Steps
  <1>7. \A n \in 1 .. N : w[n] = InsertRow(w[n - 1], batch[n])
    <2> SUFFICES ASSUME NEW n \in 1 .. N PROVE w[n] = InsertRow(w[n - 1], batch[n])
      OBVIOUS
    <2>1. n - 1 \in Nat /\ (n - 1) + 1 = n /\ ~(n - 1 >= N)
      BY <1>1
    <2>2. w[n] = step[n - 1][w[n - 1]] /\ w[n - 1] \in V
      BY <1>6, <2>1
    <2> QED
      BY <2>1, <2>2
  <1> DEFINE a == [n \in 0 .. N |-> w[n]]
  <1>8. a = def(a)
    <2>1. \A n \in 0 .. N : n \in Nat /\ (n # 0 => n \in 1 .. N /\ n - 1 \in 0 .. N)
      BY <1>1
    <2> HIDE DEF N
    <2> QED
      BY <1>6, <1>7, <2>1
  <1> HIDE DEF a
  <1> DEFINE b == CHOOSE h : h = def(h)
  <1>9. AppendRows(t, batch) = b[N]
    BY DEF AppendRows
  <1>10. b = def(b)
    <2> HIDE DEF def
    <2> QED
      BY <1>8
  <1> HIDE DEF b
  <1>11. b[0] = t /\ \A n \in 1 .. N : b[n] = InsertRow(b[n - 1], batch[n])
    BY <1>1, <1>10
  <1>12. \A n \in Nat : n <= N => b[n] \in V
    <2> DEFINE S == {n \in Nat : n <= N => b[n] \in V}
    <2>1. 0 \in S
      BY <1>2, <1>11
    <2>2. \A n \in Nat : n \in S => n + 1 \in S
      <3> SUFFICES ASSUME NEW n \in Nat, n \in S, n + 1 <= N PROVE b[n + 1] \in V
        OBVIOUS
      <3>1. n + 1 \in 1 .. N /\ (n + 1) - 1 = n /\ n <= N
        BY <1>1
      <3>2. b[n + 1] = InsertRow(b[n], batch[n + 1]) /\ b[n] \in V
        BY <1>11, <3>1
      <3> QED
        BY <1>3, <3>1, <3>2
    <2>3. \A n \in Nat : n \in S
      <3> HIDE DEF S
      <3> QED
        BY <2>1, <2>2, NatInducts
    <2> QED
      BY <2>3
  <1>13. AppendRows(t, batch) \in V
    BY <1>1, <1>9, <1>12
  <1> QED
    BY <1>13 DEF V

\* Nothing that happens to the rows puts a row in that is no row, or an id twice.
LEMMA RowsStayATable ==
    ASSUME Table(rows), rows \subseteq TranscriptRows, [TranscriptNext]_transcriptVars
    PROVE  (Table(rows) /\ rows \subseteq TranscriptRows)'
  <1>1. CASE \E batch \in Batches : AppendTranscript(batch)
    <2>1. PICK batch \in Batches : rows' = AppendRows(rows, batch)
      BY <1>1 DEF AppendTranscript
    <2>2. batch \in Seq(TranscriptRows) /\ \A r \in TranscriptRows : r.at \in Nat /\ r.id \in Nat
      BY RowShape
    <2>3. Table(rows') /\ rows' \subseteq rows \cup TranscriptRows
      BY <2>1, <2>2, AppendKeepsTable
    <2> QED
      BY <2>3 DEF Table
  <1>2. CASE ~\E batch \in Batches : AppendTranscript(batch)
    <2>1. rows' \subseteq rows
      BY <1>2 DEF TranscriptNext, transcriptVars, PruneTranscript, PruneExpired, Cleanup, RunCleanup,
                  OpenWalk, NextPage, TranscriptTick
    <2>2. Table(rows')
      BY <2>1, SubTable
    <2> QED
      BY <2>1, <2>2 DEF Table
  <1> QED
    BY <1>1, <1>2

\* The rows held at the start are a table.
LEMMA InitialTable == TranscriptInit => Table(rows) /\ rows \subseteq TranscriptRows
  BY RowShape, FS_Subset DEF TranscriptInit, Table, TranscriptRows

-----------------------------------------------------------------------------
\* What _cleanup_sync has recorded of an operation and what the operation deleted.
CleanupRecorded(o) ==
    IF operations[o] = None THEN removed[o] = {}
    ELSE /\ operations[o] \in CleanupRecords
         /\ IsFiniteSet(removed[o])
         /\ Cardinality(removed[o]) = operations[o].result.deleted
         /\ operations[o].request.dry => removed[o] = {}
         /\ \A row \in removed[o] : HoldOver(row, operations[o].request.cutoff)

CleanupInv ==
    /\ Table(rows) /\ rows \subseteq TranscriptRows
    /\ operations \in [Operations -> CleanupRecords \cup {None}]
    /\ removed \in [Operations -> SUBSET TranscriptRows]
    /\ \A o \in Operations : CleanupRecorded(o)

\* The counts of a result are those of the sets.
LEMMA ResultCounts ==
    ASSUME Table(rows), NEW r \in Requests
    PROVE  /\ [request |-> r, result |-> CleanupResult(r)] \in CleanupRecords
           /\ IsFiniteSet(Deleted(r)) /\ CleanupResult(r).deleted = Cardinality(Deleted(r))
           /\ Deleted(r) \subseteq rows
           /\ \A row \in Deleted(r) : HoldOver(row, r.cutoff)
           /\ r.dry => Deleted(r) = {}
  <1>1. Deleted(r) \subseteq ToDelete(r) /\ ToDelete(r) \subseteq Targets(r) /\ Targets(r) \subseteq rows
    BY DEF Deleted, ToDelete, Eligible, Targets
  <1>2. IsFiniteSet(Targets(r)) /\ IsFiniteSet(ToDelete(r)) /\ IsFiniteSet(Deleted(r))
        /\ Cardinality(ToDelete(r)) <= Cardinality(Targets(r))
    BY <1>1, FS_Subset DEF Table
  <1> DEFINE t == Cardinality(Targets(r))
             e == Cardinality(ToDelete(r))
             d == Cardinality(Deleted(r))
  <1>3. t \in Nat /\ e \in Nat /\ d \in Nat /\ e <= t
    BY <1>2, FS_CardinalityType
  <1>4. CleanupResult(r) = [target |-> t, eligible |-> e, deleted |-> d, excluded |-> t - e]
    BY DEF CleanupResult
  <1> HIDE DEF t, e, d
  <1>5. CleanupResult(r) \in [target : Nat, eligible : Nat, deleted : Nat, excluded : Nat]
        /\ CleanupResult(r).deleted = d
    BY <1>3, <1>4
  <1>6. \A row \in Deleted(r) : HoldOver(row, r.cutoff)
    BY DEF Deleted, ToDelete, Eligible
  <1>7. r.dry => Deleted(r) = {}
    BY DEF Deleted
  <1>8. [request |-> r, result |-> CleanupResult(r)] \in CleanupRecords
    BY <1>5 DEF CleanupRecords
  <1> QED
    BY <1>1, <1>2, <1>5, <1>6, <1>7, <1>8 DEF d

\* An operator may repeat a cleanup as often as they like: each operation deletes
\* just what the result that _cleanup_sync stored says.
THEOREM CleanupIsExact == TranscriptSpec => []CleanupDeletesAsReported
  <1>1. TranscriptInit => CleanupInv
    <2> SUFFICES ASSUME TranscriptInit PROVE CleanupInv
      OBVIOUS
    <2>1. operations = [o \in Operations |-> None] /\ removed = [o \in Operations |-> {}]
      BY DEF TranscriptInit
    <2> QED
      BY <2>1, InitialTable DEF CleanupInv, CleanupRecorded
  <1>2. CleanupInv /\ [TranscriptNext]_transcriptVars => CleanupInv'
    <2> SUFFICES ASSUME CleanupInv, [TranscriptNext]_transcriptVars PROVE CleanupInv'
      OBVIOUS
    <2>1. (Table(rows) /\ rows \subseteq TranscriptRows)'
      BY RowsStayATable DEF CleanupInv
    <2>2. CASE operations' = operations /\ removed' = removed
      BY <2>1, <2>2 DEF CleanupInv, CleanupRecorded
    <2>3. CASE \E r \in Requests : Cleanup(r) /\ cleanupEnabled /\ operations[r.op] = None
      <3>1. PICK r \in Requests :
              /\ operations[r.op] = None
              /\ operations' = [operations EXCEPT ![r.op] = [request |-> r, result |-> CleanupResult(r)]]
              /\ removed' = [removed EXCEPT ![r.op] = @ \cup Deleted(r)]
        BY SMTT(30), <2>3 DEF Cleanup, RunCleanup
      <3> DEFINE record == [request |-> r, result |-> CleanupResult(r)]
                 gone == Deleted(r)
      <3>2. /\ record \in CleanupRecords /\ record.request = r
            /\ IsFiniteSet(gone) /\ record.result.deleted = Cardinality(gone)
            /\ gone \subseteq rows /\ (\A row \in gone : HoldOver(row, r.cutoff)) /\ (r.dry => gone = {})
        BY ResultCounts DEF CleanupInv
      <3>3. record # None
        BY <3>2, RowShape
      <3>4. operations' = [operations EXCEPT ![r.op] = record] /\ removed' = [removed EXCEPT ![r.op] = @ \cup gone]
        BY <3>1
      <3> HIDE DEF record, gone
      <3>5. r.op \in Operations /\ removed[r.op] = {}
        BY <3>1 DEF Operations, CleanupInv, CleanupRecorded
      <3>6. operations'[r.op] = record /\ removed'[r.op] = gone
        BY <3>4, <3>5 DEF CleanupInv
      <3>7. \A o \in Operations : o # r.op => operations'[o] = operations[o] /\ removed'[o] = removed[o]
        BY <3>4 DEF CleanupInv
      <3>8. operations' \in [Operations -> CleanupRecords \cup {None}]
            /\ removed' \in [Operations -> SUBSET TranscriptRows]
        BY <3>2, <3>4, <3>5 DEF CleanupInv
      <3>9. ASSUME NEW o \in Operations PROVE CleanupRecorded(o)'
        <4>1. CASE o = r.op
          BY SMTT(30), <3>2, <3>3, <3>6, <4>1 DEF CleanupRecorded, HoldOver
        <4>2. CASE o # r.op
          BY SMTT(30), <3>7, <4>2 DEF CleanupInv, CleanupRecorded
        <4> QED
          BY <4>1, <4>2
      <3> QED
        BY <2>1, <3>8, <3>9 DEF CleanupInv
    <2>4. \/ operations' = operations /\ removed' = removed
          \/ \E r \in Requests : Cleanup(r) /\ cleanupEnabled /\ operations[r.op] = None
      BY DEF TranscriptNext, transcriptVars, AppendTranscript, PruneTranscript, Cleanup, RunCleanup,
             OpenWalk, NextPage, TranscriptTick
    <2> QED
      BY <2>2, <2>3, <2>4
  <1>3. CleanupInv => CleanupDeletesAsReported
    BY DEF CleanupInv, CleanupRecorded, CleanupDeletesAsReported
  <1> QED
    BY <1>1, <1>2, <1>3, PTL DEF TranscriptSpec

-----------------------------------------------------------------------------
\* ORDER BY occurred_at, transcript_id is a total order of a table.
LEMMA BeforeIsAnOrder ==
    ASSUME NEW t, Table(t)
    PROVE  /\ \A a, b \in t : a # b => Before(a, b) \/ Before(b, a)
           /\ \A a, b \in t : ~(Before(a, b) /\ Before(b, a))
           /\ \A a, b, c \in t : Before(a, b) /\ Before(b, c) => Before(a, c)
           /\ \A a \in t : ~Before(a, a)
  BY DEF Table, Before

\* ... so a set of rows has a first one and a last one.
LEMMA FirstAndLastRow ==
    ASSUME NEW t, Table(t), t # {}
    PROVE  /\ \E r \in t : \A s \in t \ {r} : Before(r, s)
           /\ \E r \in t : \A s \in t \ {r} : Before(s, r)
  <1> DEFINE R == {p \in t \X t : Before(p[1], p[2])}
  <1>1. \A a, b \in t : <<a, b>> \in R <=> Before(a, b)
    OBVIOUS
  <1> HIDE DEF R
  <1>2. /\ \A a, b \in t : a # b => <<a, b>> \in R \/ <<b, a>> \in R
        /\ \A a, b, c \in t : <<a, b>> \in R /\ <<b, c>> \in R => <<a, c>> \in R
    BY <1>1, BeforeIsAnOrder
  <1>3. IsFiniteSet(t)
    BY DEF Table
  <1>4. \E r \in t : \A s \in t \ {r} : <<r, s>> \in R
    BY <1>2, <1>3, FirstExists
  <1>5. \E r \in t : \A s \in t \ {r} : <<s, r>> \in R
    BY SMTT(30), <1>2, <1>3, LastExists
  <1> QED
    BY <1>1, <1>4, <1>5

\* LIMIT keeps the rows before the ones it keeps.
LEMMA FirstRowsAreFirst ==
    ASSUME NEW t, Table(t), NEW n \in Nat
    PROVE  /\ FirstRows(t, n) \subseteq t /\ Table(FirstRows(t, n))
           /\ \A r \in FirstRows(t, n), s \in t : Before(s, r) => s \in FirstRows(t, n)
  <1>1. FirstRows(t, n) \subseteq t
    BY DEF FirstRows
  <1>2. ASSUME NEW r \in FirstRows(t, n), NEW s \in t, Before(s, r)
        PROVE  s \in FirstRows(t, n)
    <2> DEFINE below(x) == {y \in t : Before(y, x)}
    <2>1. r \in t /\ Cardinality(below(r)) < n
      BY DEF FirstRows
    <2>2. below(s) \subseteq below(r)
      BY <1>2, <2>1, BeforeIsAnOrder
    <2>3. IsFiniteSet(below(r))
      BY FS_Subset DEF Table
    <2>4. /\ Cardinality(below(s)) <= Cardinality(below(r))
          /\ Cardinality(below(s)) \in Nat /\ Cardinality(below(r)) \in Nat
      BY <2>2, <2>3, FS_Subset, FS_CardinalityType
    <2>5. Cardinality(below(s)) < n
      BY <2>1, <2>4
    <2> QED
      BY <2>5 DEF FirstRows
  <1> QED
    BY <1>1, <1>2, SubTable

\* LIMIT n keeps all of at most n rows, and none of more only if n is zero.
LEMMA FirstRowsOfFew ==
    ASSUME NEW t, Table(t), NEW n \in Nat
    PROVE  /\ Cardinality(t) <= n => FirstRows(t, n) = t
           /\ n # 0 /\ t # {} => FirstRows(t, n) # {}
  <1> DEFINE below(x) == {y \in t : Before(y, x)}
  <1>1. IsFiniteSet(t) /\ Cardinality(t) \in Nat
    BY FS_CardinalityType DEF Table
  <1>2. ASSUME Cardinality(t) <= n, NEW x \in t
        PROVE  x \in FirstRows(t, n)
    <2>1. below(x) \subseteq t /\ below(x) # t
      BY BeforeIsAnOrder
    <2>2. Cardinality(below(x)) < Cardinality(t) /\ Cardinality(below(x)) \in Nat
      BY <1>1, <2>1, FS_Subset, FS_CardinalityType
    <2>3. Cardinality(below(x)) < n
      BY <1>1, <1>2, <2>2
    <2> QED
      BY <2>3 DEF FirstRows
  <1>3. ASSUME n # 0, t # {}
        PROVE  FirstRows(t, n) # {}
    <2>1. PICK r \in t : \A s \in t \ {r} : Before(r, s)
      BY <1>3, FirstAndLastRow
    <2>2. below(r) = {}
      BY <2>1, BeforeIsAnOrder
    <2>3. Cardinality(below(r)) < n
      BY <1>3, <2>2, FS_EmptySet
    <2> QED
      BY <2>3 DEF FirstRows
  <1> QED
    BY <1>2, <1>3 DEF FirstRows

\* If LIMIT n + 1 gives at most n rows there are no others.
LEMMA NoMoreRows ==
    ASSUME NEW t, Table(t), NEW n \in Nat, Cardinality(FirstRows(t, n + 1)) <= n
    PROVE  FirstRows(t, n + 1) = t
  <1> DEFINE g == FirstRows(t, n + 1)
             rest == t \ g
             below(x) == {y \in t : Before(y, x)}
  <1>1. g \subseteq t /\ IsFiniteSet(g) /\ Cardinality(g) \in Nat
    BY FirstRowsAreFirst, FS_CardinalityType DEF Table
  <1> SUFFICES ASSUME rest # {} PROVE FALSE
    BY <1>1
  <1>2. PICK x \in rest : \A s \in rest \ {x} : Before(x, s)
    <2>1. Table(rest)
      BY SubTable
    <2> HIDE DEF rest
    <2> QED
      BY <2>1, FirstAndLastRow
  <1>3. below(x) \subseteq g
    BY SMTT(30), <1>2, BeforeIsAnOrder
  <1>4. Cardinality(below(x)) <= Cardinality(g) /\ Cardinality(below(x)) \in Nat
    BY <1>1, <1>3, FS_Subset, FS_CardinalityType
  <1>5. Cardinality(below(x)) < n + 1
    BY <1>1, <1>4
  <1>6. x \in g
    BY <1>5 DEF FirstRows
  <1> QED
    BY <1>6

\* A page is the rows after the cursor up to its own cursor, or all of them.
PageIsRight(found, p) ==
    /\ p.records \subseteq found
    /\ p.next = None => p.records = found
    /\ p.next # None =>
         /\ p.next \in Cursors
         /\ \E last \in found : p.next.at = last.at /\ p.next.id = last.id
         /\ \A r \in found : r \in p.records <=> ~AfterCursor(r, p.next)

\* query_visible returns the first rows after the cursor and says where they end.
LEMMA PagesAreRight ==
    ASSUME Table(rows), NEW actor, NEW cursor, NEW limit \in Nat \ {0}
    PROVE  PageIsRight(Found(actor, cursor), Page(actor, cursor, limit))
  <1> DEFINE t == Found(actor, cursor)
             g == FirstRows(t, limit + 1)
             shown == FirstRows(g, limit)
             p == Page(actor, cursor, limit)
  <1>1. Table(t)
    BY SubTable DEF Found
  <1>2. limit + 1 \in Nat
    OBVIOUS
  <1> HIDE DEF t
  <1>3. /\ g \subseteq t /\ Table(g)
        /\ \A r \in g, s \in t : Before(s, r) => s \in g
    BY <1>1, <1>2, FirstRowsAreFirst
  <1>4. Cardinality(g) <= limit => g = t
    BY <1>1, NoMoreRows
  <1>5. Cardinality(g) \in Nat
    BY <1>3, FS_CardinalityType DEF Table
  <1> HIDE DEF g
  <1>6. /\ shown \subseteq g /\ Table(shown)
        /\ \A r \in shown, s \in g : Before(s, r) => s \in shown
    BY <1>3, FirstRowsAreFirst
  <1>7. Cardinality(g) <= limit => shown = g
    BY <1>3, FirstRowsOfFew
  <1>8. Cardinality(g) > limit => shown # {}
    BY <1>3, <1>5, FirstRowsOfFew, FS_EmptySet
  <1>9. p.records = shown /\ p.next = IF Cardinality(g) > limit THEN CursorFor(shown) ELSE None
    BY SMTT(30) DEF Page, QueryRows, t, g
  <1> HIDE DEF p, shown
  <1>10. CASE Cardinality(g) <= limit
    <2>1. p.next = None
      BY <1>5, <1>9, <1>10
    <2> QED
      BY <1>4, <1>7, <1>9, <1>10, <2>1 DEF PageIsRight, p, t
  <1>11. CASE Cardinality(g) > limit
    <2> DEFINE last == CHOOSE r \in shown : \A s \in shown \ {r} : Before(s, r)
    <2>1. last \in shown /\ \A s \in shown \ {last} : Before(s, last)
      <3>1. \E r \in shown : \A s \in shown \ {r} : Before(s, r)
        BY <1>6, <1>8, <1>11, FirstAndLastRow
      <3> QED
        BY <3>1
    <2>2. CursorFor(shown) = [at |-> last.at, id |-> last.id]
      BY DEF CursorFor
    <2> HIDE DEF last
    <2>3. last.at \in Nat /\ last.id \in Nat /\ last \in t
      BY <1>3, <1>6, <2>1 DEF Table
    <2>4. p.next = [at |-> last.at, id |-> last.id]
      BY <1>9, <1>11, <2>2
    <2>5. p.next \in Cursors /\ p.next # None
      BY <2>3, <2>4, RowShape DEF Cursors
    <2>6. \A r \in t : AfterCursor(r, p.next) <=> Before(last, r)
      BY <1>1, <2>3, <2>4, <2>5 DEF AfterCursor, Before, Table
    <2>7. \A r \in t : r \in shown <=> ~Before(last, r)
      <3> SUFFICES ASSUME NEW r \in t PROVE r \in shown <=> ~Before(last, r)
        OBVIOUS
      <3>1. r \in shown => ~Before(last, r)
        BY <1>1, <2>1, <2>3, BeforeIsAnOrder
      <3>2. ~Before(last, r) => r \in shown
        <4> SUFFICES ASSUME ~Before(last, r), r # last PROVE r \in shown
          BY <2>1
        <4>1. Before(r, last)
          BY <1>1, <2>3, BeforeIsAnOrder
        <4>2. r \in g
          BY SMTT(30), <1>3, <1>6, <2>1, <4>1
        <4> QED
          BY <1>6, <2>1, <4>1, <4>2
      <3> QED
        BY <3>1, <3>2
    <2>8. PageIsRight(t, p)
      BY SMTT(30), <1>3, <1>6, <1>9, <2>3, <2>4, <2>5, <2>6, <2>7 DEF PageIsRight
    <2> QED
      BY <2>8 DEF t, p
  <1> QED
    BY <1>5, <1>10, <1>11

-----------------------------------------------------------------------------
Actors == {r.actor : r \in Requests} \cup {None}

Walks ==
    [open : BOOLEAN, actor : Actors, cursor : Cursors \cup {None},
     pages : Seq(SUBSET TranscriptRows), stable : SUBSET TranscriptRows, done : BOOLEAN]

OnNoPage(pages, row) == \A i \in DOMAIN pages : row \notin pages[i]

OnOnePage(pages, row) ==
    \E i \in DOMAIN pages : \A j \in DOMAIN pages : row \in pages[j] <=> j = i

\* A row the reader must meet is still in the table; it is ahead of the cursor and
\* on no page, or behind it and on one.
WalkIsRight(w) ==
    /\ w.stable \subseteq {r \in rows : w.actor = None \/ r.actor = w.actor}
    /\ w.open /\ ~w.done => w.cursor \in Cursors
    /\ \A row \in w.stable :
         IF ~w.done /\ AfterCursor(row, w.cursor) THEN OnNoPage(w.pages, row)
         ELSE OnOnePage(w.pages, row)

PagingInv ==
    /\ Table(rows) /\ rows \subseteq TranscriptRows
    /\ walk \in Walks
    /\ WalkIsRight(walk)

\* Pages that go on where the last one ended.
LEMMA PageFollows ==
    ASSUME NEW pages \in Seq(SUBSET TranscriptRows), NEW new \in SUBSET TranscriptRows, NEW row
    PROVE  /\ Append(pages, new) \in Seq(SUBSET TranscriptRows)
           /\ OnNoPage(pages, row) /\ row \notin new => OnNoPage(Append(pages, new), row)
           /\ OnNoPage(pages, row) /\ row \in new => OnOnePage(Append(pages, new), row)
           /\ OnOnePage(pages, row) /\ row \notin new => OnOnePage(Append(pages, new), row)
  <1> DEFINE n == Len(pages)
             q == Append(pages, new)
  <1>1. /\ q \in Seq(SUBSET TranscriptRows) /\ n \in Nat
        /\ DOMAIN pages = 1 .. n /\ DOMAIN q = 1 .. n + 1
        /\ q[n + 1] = new
        /\ \A i \in 1 .. n : q[i] = pages[i]
    OBVIOUS
  <1> HIDE DEF n, q
  <1>2. OnNoPage(pages, row) /\ row \notin new => OnNoPage(q, row)
    BY <1>1 DEF OnNoPage
  <1>3. OnNoPage(pages, row) /\ row \in new => OnOnePage(q, row)
    <2> SUFFICES ASSUME OnNoPage(pages, row), row \in new PROVE OnOnePage(q, row)
      OBVIOUS
    <2>1. \A j \in DOMAIN q : row \in q[j] <=> j = n + 1
      BY <1>1 DEF OnNoPage
    <2>2. n + 1 \in DOMAIN q
      BY <1>1
    <2> QED
      BY <2>1, <2>2 DEF OnOnePage
  <1>4. OnOnePage(pages, row) /\ row \notin new => OnOnePage(q, row)
    <2> SUFFICES ASSUME OnOnePage(pages, row), row \notin new PROVE OnOnePage(q, row)
      OBVIOUS
    <2>1. PICK i \in DOMAIN pages : \A j \in DOMAIN pages : row \in pages[j] <=> j = i
      BY DEF OnOnePage
    <2>2. \A j \in DOMAIN q : row \in q[j] <=> j = i
      BY <1>1, <2>1
    <2>3. i \in DOMAIN q
      BY <1>1
    <2> QED
      BY <2>2, <2>3 DEF OnOnePage
  <1> QED
    BY SMTT(30), <1>1, <1>2, <1>3, <1>4 DEF q

\* Deletions and appends leave a walk right.
LEMMA WalkKept ==
    ASSUME PagingInv, rows' \subseteq TranscriptRows, Table(rows'), walk' = KeepWalk(rows')
    PROVE  PagingInv'
  <1>1. /\ walk' = [walk EXCEPT !.stable = walk.stable \cap rows']
        /\ walk \in Walks
    BY DEF KeepWalk, PagingInv
  <1>2. /\ walk' \in Walks /\ walk'.stable = walk.stable \cap rows' /\ walk'.actor = walk.actor
        /\ walk'.open = walk.open /\ walk'.done = walk.done /\ walk'.cursor = walk.cursor
        /\ walk'.pages = walk.pages
    BY SMTT(30), <1>1 DEF Walks
  <1>3. WalkIsRight(walk)'
    BY <1>2 DEF PagingInv, WalkIsRight
  <1>4. Table(rows)'
    BY SMTT(30) DEF Table
  <1> QED
    BY <1>2, <1>3, <1>4 DEF PagingInv

\* The page a client asks for from where it is.
LEMMA WalkGoesOn ==
    ASSUME PagingInv, NEW w \in Walks, NEW limit \in Nat \ {0}, ~w.done,
           w.stable \subseteq {r \in rows : w.actor = None \/ r.actor = w.actor},
           w.cursor \in Cursors \/ (w.cursor = None /\ w.pages = <<>>),
           \A row \in w.stable :
               IF AfterCursor(row, w.cursor) THEN OnNoPage(w.pages, row) ELSE OnOnePage(w.pages, row),
           NEW next, next = WalkOn(w.actor, w.pages, w.stable, Page(w.actor, w.cursor, limit))
    PROVE  next \in Walks /\ WalkIsRight(next)
  <1> DEFINE p == Page(w.actor, w.cursor, limit)
             f == Found(w.actor, w.cursor)
             q == Append(w.pages, p.records)
  <1>1. PageIsRight(f, p)
    BY SMTT(30), PagesAreRight DEF PagingInv
  <1>2. f \subseteq rows /\ f \subseteq TranscriptRows
    BY SMTT(30) DEF Found, PagingInv
  <1>3. \A row \in w.stable : row \in f <=> AfterCursor(row, w.cursor)
    BY SMTT(30) DEF Found
  <1>4. next = [open |-> TRUE, actor |-> w.actor, cursor |-> p.next,
                pages |-> q, stable |-> w.stable, done |-> p.next = None]
    BY SMTT(30) DEF WalkOn
  <1>5. w.pages \in Seq(SUBSET TranscriptRows) /\ p.records \in SUBSET TranscriptRows
    BY SMTT(30), <1>1, <1>2 DEF Walks, PageIsRight
  <1>6. /\ q \in Seq(SUBSET TranscriptRows)
        /\ \A row : /\ OnNoPage(w.pages, row) /\ row \notin p.records => OnNoPage(q, row)
                    /\ OnNoPage(w.pages, row) /\ row \in p.records => OnOnePage(q, row)
                    /\ OnOnePage(w.pages, row) /\ row \notin p.records => OnOnePage(q, row)
    BY <1>5, PageFollows
  <1>7. p.next \in Cursors \cup {None}
    BY <1>1 DEF PageIsRight
  <1> HIDE DEF p, q, f
  <1>8. /\ next \in Walks /\ next.actor = w.actor /\ next.cursor = p.next /\ next.pages = q
        /\ next.stable = w.stable /\ next.open /\ (next.done <=> p.next = None)
    <2>1. PICK d \in BOOLEAN : d = (p.next = None)
      OBVIOUS
    <2>2. next = [open |-> TRUE, actor |-> w.actor, cursor |-> p.next,
                  pages |-> q, stable |-> w.stable, done |-> d]
      BY <1>4, <2>1, Zenon
    <2>3. w.actor \in Actors /\ w.stable \in SUBSET TranscriptRows
      BY DEF Walks
    <2> DEFINE c == p.next
    <2> HIDE DEF c
    <2>4. next = [open |-> TRUE, actor |-> w.actor, cursor |-> c,
                  pages |-> q, stable |-> w.stable, done |-> d] /\ c \in Cursors \cup {None}
      BY <1>7, <2>2 DEF c
    <2>5. next \in Walks
      BY <1>6, <2>3, <2>4 DEF Walks
    <2>6. /\ next.actor = w.actor /\ next.cursor = c /\ next.pages = q /\ next.stable = w.stable
          /\ next.open /\ next.done = d
      <3>1. PICK o : o = TRUE
        OBVIOUS
      <3>2. next = [open |-> o, actor |-> w.actor, cursor |-> c,
                    pages |-> q, stable |-> w.stable, done |-> d]
        BY <2>4, <3>1, Zenon
      <3>3. next.actor = w.actor /\ next.cursor = c
        BY <3>2, SMTT(30)
      <3>4. next.pages = q /\ next.stable = w.stable
        BY <3>2, SMTT(30)
      <3>5. next.open = o /\ next.done = d
        BY <3>2, SMTT(30)
      <3> QED
        BY <3>1, <3>3, <3>4, <3>5, Zenon
    <2> QED
      BY <2>1, <2>5, <2>6, Zenon DEF c
  <1>9. ASSUME NEW row \in w.stable
        PROVE  IF p.next # None /\ AfterCursor(row, p.next) THEN OnNoPage(q, row) ELSE OnOnePage(q, row)
    <2>1. row.at \in Nat /\ row.id \in Nat
      BY DEF PagingInv, Table
    <2>2. CASE AfterCursor(row, w.cursor)
      <3>1. row \in f /\ OnNoPage(w.pages, row)
        BY <1>3, <2>2
      <3> QED
        BY <1>1, <1>6, <3>1 DEF PageIsRight
    <2>3. CASE ~AfterCursor(row, w.cursor)
      <3>1. row \notin f /\ OnOnePage(w.pages, row)
        BY SMTT(30), <1>3, <2>3
      <3>2. OnOnePage(q, row)
        BY SMTT(30), <1>1, <1>6, <3>1 DEF PageIsRight
      <3>3. ASSUME p.next # None PROVE ~AfterCursor(row, p.next)
        <4>1. PICK last \in f : p.next.at = last.at /\ p.next.id = last.id
          BY SMTT(30), <1>1, <3>3 DEF PageIsRight
        <4>2. last.at \in Nat /\ last.id \in Nat /\ AfterCursor(last, w.cursor)
          <5>1. last \in rows /\ AfterCursor(last, w.cursor)
            BY <4>1, Zenon DEF f, Found
          <5>2. \A r \in rows : r.at \in Nat /\ r.id \in Nat
            BY Zenon DEF PagingInv, Table
          <5> QED
            BY <5>1, <5>2, Zenon
        <4>3. w.cursor \in Cursors /\ w.cursor # None
          BY SMTT(30), <2>3, RowShape DEF AfterCursor
        <4>4. w.cursor.at \in Nat /\ w.cursor.id \in Nat
          BY SMTT(30), <4>3 DEF Cursors
        <4> QED
          BY SMTT(30), <2>1, <2>3, <3>3, <4>1, <4>2, <4>3, <4>4 DEF AfterCursor
      <3> QED
        BY SMTT(30), <3>2, <3>3
    <2> QED
      BY <2>2, <2>3
  <1>10. WalkIsRight(next)
    BY <1>7, <1>8, <1>9 DEF WalkIsRight
  <1> QED
    BY SMTT(30), <1>8, <1>10

\* The first page of a walk ...
LEMMA OpenWalkKeeps ==
    ASSUME PagingInv, NEW actor \in {r.actor : r \in Requests}, NEW limit \in PageLimits,
           OpenWalk(actor, limit)
    PROVE  PagingInv'
  <1> DEFINE S == {r \in rows : actor = None \/ r.actor = actor}
             w == [open |-> TRUE, actor |-> actor, cursor |-> None, pages |-> <<>>,
                   stable |-> S, done |-> FALSE]
             next == WalkOn(actor, <<>>, S, Page(actor, None, limit))
  <1>1. limit \in Nat \ {0}
    BY SMTT(30), RowShape
  <1>2. S \subseteq TranscriptRows
    BY SMTT(30) DEF PagingInv
  <1> HIDE DEF S
  <1>3. /\ w \in Walks /\ w.actor = actor /\ w.cursor = None /\ w.pages = <<>>
        /\ w.stable = S /\ ~w.done
    BY SMTT(30), <1>2 DEF Walks, Actors
  <1>4. \A row \in w.stable : AfterCursor(row, w.cursor) /\ OnNoPage(w.pages, row)
    BY <1>3 DEF AfterCursor, OnNoPage
  <1>5. w.stable \subseteq {r \in rows : w.actor = None \/ r.actor = w.actor}
    BY SMTT(30), <1>3 DEF S
  <1>6. walk' = next
    BY SMTT(30) DEF OpenWalk, S
  <1>7. next = WalkOn(w.actor, w.pages, w.stable, Page(w.actor, w.cursor, limit))
    BY SMTT(30), <1>3
  <1> HIDE DEF w, next
  <1>8. next \in Walks /\ WalkIsRight(next)
    BY <1>1, <1>3, <1>4, <1>5, <1>7, WalkGoesOn
  <1>9. rows' = rows
    BY SMTT(30) DEF OpenWalk
  <1> QED
    BY <1>6, <1>8, <1>9 DEF PagingInv, WalkIsRight, Table

\* ... and each page after it, of what the table holds by then.
LEMMA NextPageKeeps ==
    ASSUME PagingInv, NEW limit \in PageLimits, NextPage(limit)
    PROVE  PagingInv'
  <1> DEFINE next == WalkOn(walk.actor, walk.pages, walk.stable, Page(walk.actor, walk.cursor, limit))
  <1>1. limit \in Nat \ {0} /\ walk \in Walks /\ walk.open /\ ~walk.done /\ WalkIsRight(walk)
    BY SMTT(30), RowShape DEF PagingInv, NextPage
  <1>2. walk.cursor \in Cursors
    BY <1>1 DEF WalkIsRight
  <1>3. walk' = next
    BY SMTT(30) DEF NextPage
  <1>4. \A row \in walk.stable :
           IF AfterCursor(row, walk.cursor) THEN OnNoPage(walk.pages, row) ELSE OnOnePage(walk.pages, row)
    BY SMTT(30), <1>1 DEF WalkIsRight
  <1>5. walk.stable \subseteq {r \in rows : walk.actor = None \/ r.actor = walk.actor}
    BY <1>1 DEF WalkIsRight
  <1>6. next = WalkOn(walk.actor, walk.pages, walk.stable, Page(walk.actor, walk.cursor, limit))
    BY SMTT(30)
  <1> HIDE DEF next
  <1>7. next \in Walks /\ WalkIsRight(next)
    BY SMTT(30), <1>1, <1>2, <1>4, <1>5, <1>6, WalkGoesOn
  <1>8. rows' = rows
    BY DEF NextPage
  <1> QED
    BY SMTT(30), <1>3, <1>7, <1>8 DEF PagingInv, WalkIsRight, Table

\* Reading page after page shows each row that stays once, for all tables, page
\* sizes and changes between the pages: the cursor of TranscriptReadService names
\* a place in the order of _db_query, not a number of rows.
THEOREM PagingIsComplete == TranscriptSpec => []PagingComplete
  <1>1. TranscriptInit => PagingInv
    <2> SUFFICES ASSUME TranscriptInit PROVE PagingInv
      OBVIOUS
    <2>1. walk = NoWalk
      BY SMTT(30) DEF TranscriptInit
    <2>2. walk \in Walks
      BY SMTT(30), <2>1 DEF NoWalk, Walks, Actors
    <2>3. WalkIsRight(walk)
      BY SMTT(30), <2>1 DEF NoWalk, WalkIsRight
    <2> QED
      BY <2>2, <2>3, InitialTable DEF PagingInv
  <1>2. PagingInv /\ [TranscriptNext]_transcriptVars => PagingInv'
    <2> SUFFICES ASSUME PagingInv, [TranscriptNext]_transcriptVars PROVE PagingInv'
      OBVIOUS
    <2>1. Table(rows') /\ rows' \subseteq TranscriptRows
      BY RowsStayATable DEF PagingInv, Table
    <2>2. CASE walk' = KeepWalk(rows')
      BY SMTT(30), <2>1, <2>2, WalkKept
    <2>3. CASE \E actor \in {r.actor : r \in Requests}, limit \in PageLimits : OpenWalk(actor, limit)
      BY <2>3, OpenWalkKeeps
    <2>4. CASE \E limit \in PageLimits : NextPage(limit)
      BY SMTT(30), <2>4, NextPageKeeps
    <2>5. CASE walk' = walk /\ rows' = rows
      BY SMTT(30), <2>5 DEF PagingInv, WalkIsRight, Table
    <2>6. \/ walk' = KeepWalk(rows')
          \/ \E actor \in {r.actor : r \in Requests}, limit \in PageLimits : OpenWalk(actor, limit)
          \/ \E limit \in PageLimits : NextPage(limit)
          \/ walk' = walk /\ rows' = rows
      BY DEF TranscriptNext, transcriptVars, AppendTranscript, PruneTranscript, Cleanup, TranscriptTick
    <2> QED
      BY SMTT(30), <2>2, <2>3, <2>4, <2>5, <2>6
  <1>3. PagingInv => PagingComplete
    <2> SUFFICES ASSUME PagingInv, walk.done, NEW row \in walk.stable
                 PROVE  Cardinality({i \in DOMAIN walk.pages : row \in walk.pages[i]}) = 1
      BY DEF PagingComplete
    <2>1. PICK i \in DOMAIN walk.pages : \A j \in DOMAIN walk.pages : row \in walk.pages[j] <=> j = i
      BY DEF PagingInv, WalkIsRight, OnOnePage
    <2>2. {j \in DOMAIN walk.pages : row \in walk.pages[j]} = {i}
      BY <2>1
    <2> QED
      BY SMTT(30), <2>2, FS_Singleton
  <1> QED
    BY <1>1, <1>2, <1>3, PTL DEF TranscriptSpec

-----------------------------------------------------------------------------
(***************************************************************************)
(* The turns.  A text is barred, said, or of an attempt that no gate has   *)
(* seen; an attempt has a number of its own, so no later one can bring     *)
(* back a text that was barred.                                            *)
(***************************************************************************)
\* A set of numbers up to a bound has a greatest one.
LEMMA MaxOfBounded ==
    ASSUME NEW n \in Nat, NEW S \in SUBSET (0 .. n), S # {}
    PROVE  Max(S) \in S
  <1>1. IsFiniteSet(S)
    <2>1. 0 \in Int /\ n \in Int
      OBVIOUS
    <2>2. IsFiniteSet(0 .. n)
      BY SMTT(30), <2>1, FS_Interval
    <2> QED
      BY <2>2, FS_Subset
  <1> DEFINE R == {p \in S \X S : p[1] < p[2]}
  <1>2. \A x, y \in S : <<x, y>> \in R <=> x < y
    OBVIOUS
  <1> HIDE DEF R
  <1>3. /\ \A x, y \in S : x # y => <<x, y>> \in R \/ <<y, x>> \in R
        /\ \A x, y, z \in S : <<x, y>> \in R /\ <<y, z>> \in R => <<x, z>> \in R
    BY SMTT(30), <1>2
  <1>4. PICK x \in S : \A y \in S \ {x} : <<y, x>> \in R
    BY <1>1, <1>3, LastExists
  <1>5. \A y \in S : x >= y
    <2> SUFFICES ASSUME NEW y \in S PROVE x >= y
      OBVIOUS
    <2>1. y = x \/ y < x
      BY <1>2, <1>4, Zenon
    <2>2. y \in Int /\ x \in Int
      OBVIOUS
    <2> QED
      BY <2>1, <2>2
  <1> QED
    BY <1>5 DEF Max

\* The last records of a history are records of it ...
LEMMA SuffixTyped ==
    ASSUME NEW X, NEW s \in Seq(X), NEW n \in 0 .. Len(s)
    PROVE  SuffixOf(s, n) \in Seq(X) /\ Len(SuffixOf(s, n)) = n
  <1>1. Len(s) \in Nat /\ Len(s) - n + 1 \in 1 .. Len(s) + 1
    OBVIOUS
  <1> QED
    BY <1>1 DEF SuffixOf

\* ... and so are the latest of them that a limit leaves.
LEMMA LatestTyped ==
    ASSUME NEW X, NEW s \in Seq(X), NEW n \in Nat
    PROVE  Latest(s, n) \in Seq(X) /\ Len(Latest(s, n)) <= Len(s)
  <1>1. CASE n < Len(s)
    <2>1. n \in 0 .. Len(s)
      BY <1>1
    <2> QED
      BY SMTT(30), <1>1, <2>1, SuffixTyped DEF Latest
  <1>2. CASE ~(n < Len(s))
    BY SMTT(30), <1>2 DEF Latest
  <1> QED
    BY SMTT(30), <1>1, <1>2

\* A window has only records of the history it is built from.
LEMMA WindowTyped ==
    ASSUME NEW X, NEW s \in Seq(X)
    PROVE  BuildWindow(s) \in [records : Seq(X), summary : Seq(X)]
  <1> DEFINE k == IF 2 * SummaryMinRecords > MaxWindowRecords THEN 2 * SummaryMinRecords ELSE MaxWindowRecords
             loaded == Latest(s, k)
             recent == SelectRecent(loaded)
             older == SubSeq(loaded, 1, Len(loaded) - Len(recent))
  <1>1. k \in Nat /\ MaxWindowRecords \in Nat
    BY ObservationShape
  <1> HIDE DEF k
  <1>2. loaded \in Seq(X)
    BY SMTT(30), <1>1, LatestTyped
  <1> HIDE DEF loaded
  <1>3. recent \in Seq(X) /\ Len(recent) <= Len(loaded)
    <2> DEFINE c == Latest(loaded, MaxWindowRecords)
               S == {n \in 0 .. Len(c) : \A m \in 1 .. n : Chars(SuffixOf(c, m)) <= MaxHistoryChars}
    <2>1. c \in Seq(X) /\ Len(c) <= Len(loaded)
      BY SMTT(30), <1>1, <1>2, LatestTyped
    <2> HIDE DEF c
    <2>2. Len(c) \in Nat /\ Len(loaded) \in Nat
      BY SMTT(30), <1>2, <2>1
    <2>3. S \in SUBSET (0 .. Len(c)) /\ 0 \in S
      BY SMTT(30), <2>2
    <2>4. TakeWhileFits(c) = SuffixOf(c, Max(S))
      BY DEF TakeWhileFits
    <2> HIDE DEF S
    <2>5. Max(S) \in 0 .. Len(c)
      BY <2>2, <2>3, MaxOfBounded
    <2>6. TakeWhileFits(c) \in Seq(X) /\ Len(TakeWhileFits(c)) <= Len(c)
      BY <2>1, <2>2, <2>4, <2>5, SuffixTyped
    <2> QED
      BY SMTT(30), <1>2, <2>1, <2>2, <2>6 DEF SelectRecent, c
  <1> HIDE DEF recent
  <1>4. older \in Seq(X)
    <2>1. Len(loaded) - Len(recent) \in 0 .. Len(loaded)
      BY SMTT(30), <1>2, <1>3
    <2> QED
      BY SMTT(30), <1>2, <2>1
  <1>5. BuildWindow(s) = [records |-> recent,
                          summary |-> IF Len(loaded) >= SummaryMinRecords /\ older # <<>> THEN older ELSE <<>>]
    BY SMTT(30) DEF BuildWindow, loaded, recent, k
  <1> HIDE DEF older
  <1> QED
    BY SMTT(30), <1>3, <1>4, <1>5

-----------------------------------------------------------------------------
UnsaidPcs == {"integrate", "think", "react", "present"}

Texts == (Nat \X Nat) \cup {None}

HistoryRecords == [role : {"user", "assistant"}, obs : Nat, len : Nat, text : Texts]

Turns ==
    [obs : Observations, attempt : Nat \ {0}, pc : UnsaidPcs \cup {"transcript", "learn"},
     text : Texts, at : Nat \cup {None}]

\* The texts of attempts that no gate has seen yet.
UnsaidTexts == {TextOf(t) : t \in {u \in turns : u.pc \in UnsaidPcs}}

\* A text is of no attempt to come.
Counted(x) ==
    \A o \in Observations : x \in Nat \X Nat /\ x[1] = o.n => x[2] <= submits[o]

\* A text that may be remembered: not barred, and of no attempt that may still be.
Said(x) == x \notin barred \cup UnsaidTexts /\ Counted(x)

SaidRecords == {r \in HistoryRecords : Said(r.text)}

\* The part of the invariant that goes with the history, the window and the rows.
Remembers ==
    /\ Table(rows) /\ transcriptTime \in Nat
    /\ history \in [ConversationKeys -> Seq(SaidRecords)]
    /\ window \in [records : Seq(SaidRecords), summary : Seq(SaidRecords)]
    /\ \A row \in rows : Said(row.text)

\* ... and the part that goes with the attempts.
Attempts ==
    /\ turns \subseteq Turns
    /\ submits \in [Observations -> Nat]
    /\ \A t \in turns : t.attempt <= submits[t.obs]
    /\ \A t, u \in turns : t.obs = u.obs /\ t.attempt = u.attempt => t = u
    /\ \A t \in turns : t.pc = "transcript" => t.at \in Nat /\ Said(t.text)
    /\ barred \cap UnsaidTexts = {}
    /\ \A x \in barred : x \in Nat \X (Nat \ {0}) /\ Counted(x)

TurnInv == Remembers /\ Attempts

\* A text names the one attempt that it is of.
LEMMA TextsOfTurns ==
    ASSUME TurnInv
    PROVE  /\ \A t \in turns : TextOf(t) \in Nat \X (Nat \ {0}) /\ Counted(TextOf(t))
           /\ \A t, u \in turns : TextOf(t) = TextOf(u) => t = u
  <1>1. \A t \in turns : t \in Turns /\ t.obs \in Observations /\ t.obs.n \in Nat
                         /\ t.attempt \in Nat \ {0} /\ t.attempt <= submits[t.obs]
    BY ObservationShape DEF TurnInv, Remembers, Attempts, Turns
  <1>2. \A t \in turns : TextOf(t) \in Nat \X (Nat \ {0}) /\ TextOf(t)[1] = t.obs.n /\ TextOf(t)[2] = t.attempt
    BY SMTT(30), <1>1 DEF TextOf
  <1>3. \A t \in turns : Counted(TextOf(t))
    BY SMTT(30), <1>1, <1>2, ObservationShape DEF Counted
  <1>4. ASSUME NEW t \in turns, NEW u \in turns, TextOf(t) = TextOf(u) PROVE t = u
    <2>1. t.obs.n = u.obs.n /\ t.attempt = u.attempt
      BY SMTT(30), <1>2, <1>4
    <2>2. t.obs = u.obs
      BY SMTT(30), <1>1, <2>1, ObservationShape
    <2> QED
      BY SMTT(30), <2>1, <2>2 DEF TurnInv, Remembers, Attempts
  <1> QED
    BY SMTT(30), <1>2, <1>3, <1>4

\* What is said stays said: a turn bars only a text that no gate has let through,
\* and a new attempt has a new text.
LEMMA SaidStays ==
    ASSUME TurnInv,
           barred' \subseteq barred \cup UnsaidTexts,
           \/ submits' = submits /\ UnsaidTexts' \subseteq UnsaidTexts
           \/ \E o \in Observations :
                /\ submits' = [submits EXCEPT ![o] = @ + 1]
                /\ UnsaidTexts' \subseteq UnsaidTexts \cup {<<o.n, submits[o] + 1>>}
    PROVE  /\ \A x : Counted(x) => Counted(x)'
           /\ \A x : Said(x) => Said(x)'
           /\ SaidRecords \subseteq SaidRecords'
  <1>1. submits \in [Observations -> Nat] /\ \A o \in Observations : submits'[o] \in Nat /\ submits[o] <= submits'[o]
    <2>1. submits \in [Observations -> Nat]
      BY SMTT(30) DEF TurnInv, Remembers, Attempts
    <2>2. CASE submits' = submits
      BY SMTT(30), <2>1, <2>2
    <2>3. CASE \E o \in Observations : submits' = [submits EXCEPT ![o] = @ + 1]
      BY SMTT(30), <2>1, <2>3
    <2> QED
      BY SMTT(30), <2>1, <2>2, <2>3
  <1>2. \A x : Counted(x) => Counted(x)'
    BY SMTT(30), <1>1 DEF Counted
  <1>3. ASSUME NEW x, Said(x) PROVE Said(x)'
    <2>1. x \notin barred \cup UnsaidTexts /\ Counted(x)
      BY SMTT(30), <1>3 DEF Said
    <2>2. \A o \in Observations : x # <<o.n, submits[o] + 1>>
      BY SMTT(30), <1>1, <2>1, ObservationShape DEF Counted
    <2>3. x \notin barred' \cup UnsaidTexts'
      BY SMTT(30), <2>1, <2>2
    <2> QED
      BY SMTT(30), <1>2, <2>1, <2>3 DEF Said
  <1> QED
    BY SMTT(30), <1>2, <1>3 DEF SaidRecords

\* A sequence over fewer values is one over more.
LEMMA SeqGrows ==
    ASSUME NEW X, NEW Y, X \subseteq Y
    PROVE  Seq(X) \subseteq Seq(Y)
  BY SMTT(30)

\* Where nothing is written, what is remembered stays so.
LEMMA RememberedStays ==
    ASSUME TurnInv, \A x : Said(x) => Said(x)', SaidRecords \subseteq SaidRecords',
           UNCHANGED <<rows, transcriptTime, history, window>>
    PROVE  Remembers'
  <1>1. Seq(SaidRecords) \subseteq Seq(SaidRecords')
    BY SMTT(30), SeqGrows
  <1> DEFINE A == Seq(SaidRecords)
             B == Seq(SaidRecords')
  <1>2. A \subseteq B /\ history \in [ConversationKeys -> A] /\ window \in [records : A, summary : A]
    BY SMTT(30), <1>1 DEF TurnInv, Remembers, Attempts
  <1> HIDE DEF A, B
  <1>3. history \in [ConversationKeys -> B] /\ window \in [records : B, summary : B]
    BY SMTT(30), <1>2
  <1>4. Table(rows) /\ transcriptTime \in Nat /\ \A row \in rows : Said(row.text)
    BY SMTT(30) DEF TurnInv, Remembers, Attempts
  <1> QED
    BY SMTT(30), <1>3, <1>4 DEF Remembers, B, Table

\* A turn goes on to where no gate has let its text through yet, or to where it has
\* none to record.
LEMMA TurnGoesOn ==
    ASSUME TurnInv, NEW t \in turns, NEW next \in Turns, Step(t, next),
           next.obs = t.obs, next.attempt = t.attempt,
           next.pc \in UnsaidPcs => t.pc \in UnsaidPcs,
           next.pc # "transcript",
           submits' = submits,
           barred' = barred \/ (/\ barred' = barred \cup {TextOf(t)}
                                /\ t.pc \in UnsaidPcs /\ next.pc \notin UnsaidPcs)
    PROVE  /\ \A x : Said(x) => Said(x)'
           /\ SaidRecords \subseteq SaidRecords'
           /\ Attempts'
  <1>1. turns' = (turns \ {t}) \cup {next} /\ TextOf(next) = TextOf(t)
    BY SMTT(30) DEF Step, TextOf
  <1>2. UnsaidTexts' = {TextOf(u) : u \in {v \in turns' : v.pc \in UnsaidPcs}}
    BY SMTT(30) DEF UnsaidTexts, TextOf
  <1>3. UnsaidTexts' \subseteq UnsaidTexts
    BY SMTT(30), <1>1, <1>2 DEF UnsaidTexts
  <1>4. barred' \subseteq barred \cup UnsaidTexts
    BY SMTT(30) DEF UnsaidTexts
  <1>5. /\ \A x : Counted(x) => Counted(x)'
        /\ \A x : Said(x) => Said(x)'
        /\ SaidRecords \subseteq SaidRecords'
    BY SMTT(30), <1>3, <1>4, SaidStays
  <1>6. barred' \cap UnsaidTexts' = {}
    <2>1. CASE barred' = barred
      BY <1>3, <2>1 DEF TurnInv, Remembers, Attempts
    <2>2. CASE barred' = barred \cup {TextOf(t)} /\ next.pc \notin UnsaidPcs
      <3>1. TextOf(t) \notin UnsaidTexts'
        BY SMTT(30), <1>1, <1>2, <2>2, TextsOfTurns
      <3> QED
        BY SMTT(30), <1>3, <2>2, <3>1 DEF TurnInv, Remembers, Attempts
    <2> QED
      BY SMTT(30), <2>1, <2>2
  <1>7. \A x \in barred' : x \in Nat \X (Nat \ {0}) /\ Counted(x)'
    BY <1>5, TextsOfTurns DEF TurnInv, Remembers, Attempts
  <1>8. \A u \in turns' : u.pc = "transcript" => u.at \in Nat /\ Said(u.text)'
    BY <1>1, <1>5 DEF TurnInv, Remembers, Attempts
  <1>9. /\ turns' \subseteq Turns /\ submits' \in [Observations -> Nat]
        /\ \A u \in turns' : u.attempt <= submits'[u.obs]
        /\ \A u, v \in turns' : u.obs = v.obs /\ u.attempt = v.attempt => u = v
    BY <1>1 DEF TurnInv, Remembers, Attempts
  <1> QED
    BY <1>5, <1>6, <1>7, <1>8, <1>9 DEF Attempts

\* A turn ends, after a gate or an error has barred its text or not.
LEMMA TurnEnds ==
    ASSUME TurnInv, NEW t \in turns, turns' = turns \ {t}, submits' = submits,
           barred' = barred \/ (barred' = barred \cup {TextOf(t)} /\ t.pc \in UnsaidPcs)
    PROVE  /\ \A x : Said(x) => Said(x)'
           /\ SaidRecords \subseteq SaidRecords'
           /\ Attempts'
  <1>2. UnsaidTexts' = {TextOf(u) : u \in {v \in turns' : v.pc \in UnsaidPcs}}
    BY SMTT(30) DEF UnsaidTexts, TextOf
  <1>3. UnsaidTexts' \subseteq UnsaidTexts
    BY SMTT(30), <1>2 DEF UnsaidTexts
  <1>4. barred' \subseteq barred \cup UnsaidTexts
    BY SMTT(30) DEF UnsaidTexts
  <1>5. /\ \A x : Counted(x) => Counted(x)'
        /\ \A x : Said(x) => Said(x)'
        /\ SaidRecords \subseteq SaidRecords'
    BY SMTT(30), <1>3, <1>4, SaidStays
  <1>6. barred' \cap UnsaidTexts' = {}
    <2>1. TextOf(t) \notin UnsaidTexts'
      BY SMTT(30), <1>2, TextsOfTurns
    <2> QED
      BY SMTT(30), <1>3, <2>1 DEF TurnInv, Remembers, Attempts
  <1>7. \A x \in barred' : x \in Nat \X (Nat \ {0}) /\ Counted(x)'
    BY <1>5, TextsOfTurns DEF TurnInv, Remembers, Attempts
  <1>8. \A u \in turns' : u.pc = "transcript" => u.at \in Nat /\ Said(u.text)'
    BY <1>5 DEF TurnInv, Remembers, Attempts
  <1>9. /\ turns' \subseteq Turns /\ submits' \in [Observations -> Nat]
        /\ \A u \in turns' : u.attempt <= submits'[u.obs]
        /\ \A u, v \in turns' : u.obs = v.obs /\ u.attempt = v.attempt => u = v
    BY DEF TurnInv, Remembers, Attempts
  <1> QED
    BY <1>5, <1>6, <1>7, <1>8, <1>9 DEF Attempts

\* An attempt that goes on is the same attempt.
LEMMA TurnMoved ==
    ASSUME NEW t \in Turns, NEW pc \in UnsaidPcs \cup {"transcript", "learn"}
    PROVE  LET next == [t EXCEPT !.pc = pc]
           IN  next \in Turns /\ next.obs = t.obs /\ next.attempt = t.attempt /\ next.pc = pc
  BY SMTT(30) DEF Turns

\* Questions have no text of their own and delivered messages attempt zero.
LEMMA OthersAreSaid ==
    ASSUME TurnInv
    PROVE  Said(None) /\ \A n \in Nat : Said(<<n, 0>>)
  <1>1. barred \cup UnsaidTexts \subseteq Nat \X (Nat \ {0})
    BY TextsOfTurns DEF TurnInv, Attempts, UnsaidTexts
  <1>2. Said(None)
    BY <1>1, ObservationShape DEF Said, Counted
  <1>3. ASSUME NEW n \in Nat PROVE Said(<<n, 0>>)
    <2>1. <<n, 0>> \notin Nat \X (Nat \ {0})
      BY SMTT(30)
    <2>2. Counted(<<n, 0>>)
      BY SMTT(30) DEF Counted, TurnInv, Attempts
    <2> QED
      BY <1>1, <2>1, <2>2 DEF Said
  <1> QED
    BY SMTT(30), <1>2, <1>3

\* A batch of said texts joins the transcript.
LEMMA RowsAppended ==
    ASSUME TurnInv, \A x : Said(x) => Said(x)',
           NEW R, NEW batch \in Seq(R), \A r \in R : r.at \in Nat /\ r.id \in Nat /\ Said(r.text)',
           AppendTranscript(batch) \/ UNCHANGED transcriptVars
    PROVE  Table(rows)' /\ transcriptTime' \in Nat /\ \A row \in rows' : Said(row.text)'
  <1>1. Table(rows) /\ transcriptTime \in Nat /\ \A row \in rows : Said(row.text)
    BY SMTT(30) DEF TurnInv, Remembers
  <1>2. CASE AppendTranscript(batch)
    <2>1. rows' = AppendRows(rows, batch) /\ transcriptTime' = transcriptTime
      BY SMTT(30), <1>2 DEF AppendTranscript
    <2>2. Table(rows') /\ rows' \subseteq rows \cup R
      BY SMTT(30), <1>1, <2>1, AppendKeepsTable
    <2>3. Table(rows)'
      BY SMTT(30), <2>2 DEF Table
    <2> QED
      BY <1>1, <2>1, <2>2, <2>3
  <1>3. CASE UNCHANGED transcriptVars
    BY <1>1, <1>3 DEF transcriptVars, Table
  <1> QED
    BY SMTT(30), <1>2, <1>3

\* The rows of a turn, and of a delivered message.
LEMMA RowOf ==
    ASSUME NEW subject, subject.n \in Nat, NEW source, NEW role, NEW at \in Nat, NEW text
    PROVE  LET row == TranscriptRow(subject, source, role, at, text)
           IN  row.at \in Nat /\ row.id \in Nat /\ row.text = text
  BY DEF TranscriptRow, TranscriptIdOf

\* Said records join the history of a conversation.
LEMMA HistoryAppended ==
    ASSUME TurnInv, SaidRecords \subseteq SaidRecords',
           NEW key \in ConversationKeys, NEW records \in Seq(SaidRecords'),
           AppendHistory(key, records)
    PROVE  history' \in [ConversationKeys -> Seq(SaidRecords')]
  <1> DEFINE A == Seq(SaidRecords)
             B == Seq(SaidRecords')
             new == Latest(history[key] \o records, MaxRecords)
  <1>1. A \subseteq B
    BY SMTT(30), SeqGrows
  <1>2. history \in [ConversationKeys -> A]
    BY DEF TurnInv, Remembers
  <1>3. history[key] \in B
    BY SMTT(30), <1>1, <1>2
  <1>4. history[key] \o records \in B
    BY SMTT(30), <1>3
  <1>5. new \in B
    BY <1>4, LatestTyped, ObservationShape
  <1>6. history' = [history EXCEPT ![key] = new]
    BY DEF AppendHistory
  <1> HIDE DEF A, B, new
  <1>7. history' \in [ConversationKeys -> B]
    BY <1>1, <1>2, <1>5, <1>6
  <1> QED
    BY SMTT(30), <1>7 DEF B

\* A window that is not rebuilt ...
LEMMA WindowStays ==
    ASSUME TurnInv, SaidRecords \subseteq SaidRecords', window' = window
    PROVE  window' \in [records : Seq(SaidRecords'), summary : Seq(SaidRecords')]
  <1>1. Seq(SaidRecords) \subseteq Seq(SaidRecords')
    BY SMTT(30), SeqGrows
  <1> QED
    BY SMTT(30), <1>1 DEF TurnInv, Remembers

\* ... and a history that is not appended to hold what they held.
LEMMA HistoryStays ==
    ASSUME TurnInv, SaidRecords \subseteq SaidRecords', history' = history
    PROVE  history' \in [ConversationKeys -> Seq(SaidRecords')]
  <1>1. Seq(SaidRecords) \subseteq Seq(SaidRecords')
    BY SMTT(30), SeqGrows
  <1> QED
    BY SMTT(30), <1>1 DEF TurnInv, Remembers

\* An observation is submitted, for the first time or again.
LEMMA SubmitKeeps ==
    ASSUME TurnInv, NEW o \in Observations, Submit(o)
    PROVE  TurnInv'
  <1> DEFINE a == submits[o] + 1
             new == Turn(o, a, "integrate", None, None)
  <1>1. submits \in [Observations -> Nat] /\ submits' = [submits EXCEPT ![o] = @ + 1]
    BY SMTT(30) DEF TurnInv, Attempts, Submit
  <1>2. a \in Nat \ {0} /\ submits'[o] = a
        /\ \A p \in Observations : submits[p] <= submits'[p]
        /\ submits' \in [Observations -> Nat]
    BY SMTT(30), <1>1
  <1>3. turns' = turns \cup {new} /\ barred' = barred
    BY SMTT(30) DEF Submit
  <1>4. new \in Turns /\ new.obs = o /\ new.attempt = a /\ new.pc = "integrate" /\ TextOf(new) = <<o.n, a>>
    BY <1>2 DEF Turn, Turns, UnsaidPcs, Texts, TextOf
  <1> HIDE DEF new
  <1>5. UnsaidTexts' = {TextOf(u) : u \in {v \in turns' : v.pc \in UnsaidPcs}}
    BY SMTT(30) DEF UnsaidTexts, TextOf
  <1>6. UnsaidTexts' \subseteq UnsaidTexts \cup {<<o.n, submits[o] + 1>>}
    BY SMTT(30), <1>3, <1>4, <1>5 DEF UnsaidTexts
  <1>7. /\ \A x : Counted(x) => Counted(x)'
        /\ \A x : Said(x) => Said(x)'
        /\ SaidRecords \subseteq SaidRecords'
    BY <1>1, <1>3, <1>6, SaidStays
  <1>8. Remembers'
    <2>1. UNCHANGED <<rows, transcriptTime, history, window>>
      BY SMTT(30) DEF Submit, transcriptVars
    <2> QED
      BY <1>7, <2>1, RememberedStays
  <1>9. barred' \cap UnsaidTexts' = {}
    <2>1. <<o.n, a>> \notin barred
      <3> SUFFICES ASSUME <<o.n, a>> \in barred PROVE FALSE
        BY SMTT(30)
      <3>1. Counted(<<o.n, a>>)
        BY DEF TurnInv, Attempts
      <3>2. <<o.n, a>> \in Nat \X Nat
        BY <1>2, ObservationShape
      <3>3. a <= submits[o]
        BY <3>1, <3>2 DEF Counted
      <3> QED
        BY SMTT(30), <1>1, <3>3
    <2> QED
      BY <1>3, <1>6, <2>1 DEF TurnInv, Attempts
  <1>10. \A t \in turns : t.obs \in Observations /\ t.attempt \in Nat /\ t.attempt <= submits[t.obs]
    BY SMTT(30) DEF TurnInv, Attempts, Turns
  <1>11. \A t \in turns' : t.attempt <= submits'[t.obs]
    BY SMTT(30), <1>1, <1>2, <1>3, <1>4, <1>10
  <1>12. \A t, u \in turns' : t.obs = u.obs /\ t.attempt = u.attempt => t = u
    <2>1. \A t \in turns : ~(t.obs = o /\ t.attempt = a)
      BY SMTT(30), <1>1, <1>10
    <2> QED
      BY <1>3, <1>4, <2>1 DEF TurnInv, Attempts
  <1>13. \A t \in turns' : t.pc = "transcript" => t.at \in Nat /\ Said(t.text)'
    BY <1>3, <1>4, <1>7 DEF TurnInv, Attempts
  <1>14. \A x \in barred' : x \in Nat \X (Nat \ {0}) /\ Counted(x)'
    BY SMTT(30), <1>3, <1>7 DEF TurnInv, Attempts
  <1>15. turns' \subseteq Turns
    BY SMTT(30), <1>3, <1>4 DEF TurnInv, Attempts
  <1>16. Attempts'
    BY <1>2, <1>9, <1>11, <1>12, <1>13, <1>14, <1>15 DEF Attempts
  <1> QED
    BY SMTT(30), <1>8, <1>16 DEF TurnInv

\* The turn reads the history and builds its window.
LEMMA IntegrateKeeps ==
    ASSUME TurnInv, NEW t \in turns, IntegrateAndRoute(t)
    PROVE  TurnInv'
  <1>1. t \in Turns /\ t.pc \in UnsaidPcs /\ submits' = submits
    BY DEF TurnInv, Attempts, IntegrateAndRoute, UnsaidPcs
  <1>2. UNCHANGED <<rows, transcriptTime, history>>
    BY DEF IntegrateAndRoute, transcriptVars
  <1>3. /\ \A x : Said(x) => Said(x)'
        /\ SaidRecords \subseteq SaidRecords'
        /\ Attempts'
    <2>1. CASE barred' = barred /\ turns' = turns \ {t}
      BY SMTT(30), <1>1, <2>1, TurnEnds
    <2>2. CASE barred' = barred /\ Route(t.obs) # "respond" /\ Step(t, [t EXCEPT !.pc = Route(t.obs)])
      <3> DEFINE next == [t EXCEPT !.pc = Route(t.obs)]
      <3>1. Route(t.obs) \in UnsaidPcs \cup {"learn"}
        BY SMTT(30), <2>2 DEF Route, UnsaidPcs
      <3>2. next \in Turns /\ next.obs = t.obs /\ next.attempt = t.attempt /\ next.pc = Route(t.obs)
        BY SMTT(30), <1>1, <3>1, TurnMoved
      <3>3. next.pc # "transcript"
        BY SMTT(30), <3>1, <3>2 DEF UnsaidPcs
      <3> HIDE DEF next
      <3>4. Step(t, next)
        BY SMTT(30), <2>2 DEF next
      <3> QED
        BY SMTT(30), <1>1, <2>2, <3>2, <3>3, <3>4, TurnGoesOn
    <2>3. CASE Fail(t)
      BY SMTT(30), <1>1, <2>3, TurnEnds DEF Fail
    <2>4. \/ barred' = barred /\ turns' = turns \ {t}
          \/ barred' = barred /\ Route(t.obs) # "respond" /\ Step(t, [t EXCEPT !.pc = Route(t.obs)])
          \/ Fail(t)
      <3>1. CASE Route(t.obs) = "respond"
        BY SMTT(30), <3>1 DEF IntegrateAndRoute
      <3>2. CASE Route(t.obs) # "respond"
        BY SMTT(30), <3>2 DEF IntegrateAndRoute, Step
      <3> QED
        BY SMTT(30), <3>1, <3>2
    <2> QED
      BY SMTT(30), <2>1, <2>2, <2>3, <2>4
  <1>4. window' \in [records : Seq(SaidRecords'), summary : Seq(SaidRecords')]
    <2>1. CASE window' = window
      BY SMTT(30), <1>3, <2>1, WindowStays
    <2>2. CASE window' = BuildWindow(history[t.obs.key])
      <3>1. t.obs.key \in ConversationKeys
        BY SMTT(30), <1>1 DEF Turns, ConversationKeys
      <3>2. history[t.obs.key] \in Seq(SaidRecords')
        BY SMTT(30), <1>2, <1>3, <3>1, HistoryStays
      <3> QED
        BY SMTT(30), <2>2, <3>2, WindowTyped
    <2> QED
      BY SMTT(30), <2>1, <2>2 DEF IntegrateAndRoute
  <1>5. history' \in [ConversationKeys -> Seq(SaidRecords')]
    BY SMTT(30), <1>2, <1>3, HistoryStays
  <1>6. Table(rows)' /\ transcriptTime' \in Nat /\ \A row \in rows' : Said(row.text)'
    BY SMTT(30), <1>2, <1>3 DEF TurnInv, Remembers, Table
  <1>7. Remembers'
    BY SMTT(30), <1>4, <1>5, <1>6 DEF Remembers
  <1> QED
    BY SMTT(30), <1>3, <1>7 DEF TurnInv

\* The steps of a turn that write neither history nor transcript.
LEMMA QuietTurnKeeps ==
    ASSUME TurnInv, NEW t \in turns, Think(t) \/ React(t) \/ LearnAndRespond(t)
    PROVE  TurnInv'
  <1>1. t \in Turns /\ submits' = submits
    BY DEF TurnInv, Attempts, Think, React, LearnAndRespond
  <1>2. UNCHANGED <<rows, transcriptTime, history, window>>
    BY DEF Think, React, LearnAndRespond, transcriptVars
  <1>3. /\ \A x : Said(x) => Said(x)'
        /\ SaidRecords \subseteq SaidRecords'
        /\ Attempts'
    <2>1. CASE barred' = barred /\ turns' = turns \ {t}
      BY SMTT(30), <1>1, <2>1, TurnEnds
    <2>2. CASE /\ barred' = barred /\ t.pc \in UnsaidPcs
               /\ \E pc \in {"present", "learn"} : Step(t, [t EXCEPT !.pc = pc])
      <3>1. PICK pc \in {"present", "learn"} : Step(t, [t EXCEPT !.pc = pc])
        BY SMTT(30), <2>2
      <3> DEFINE next == [t EXCEPT !.pc = pc]
      <3>2. pc \in UnsaidPcs \cup {"learn"}
        BY DEF UnsaidPcs
      <3>3. next \in Turns /\ next.obs = t.obs /\ next.attempt = t.attempt /\ next.pc = pc
        BY SMTT(30), <1>1, <3>2, TurnMoved
      <3>4. next.pc # "transcript" /\ Step(t, next)
        BY SMTT(30), <3>1, <3>3
      <3> HIDE DEF next
      <3> QED
        BY SMTT(30), <1>1, <2>2, <3>3, <3>4, TurnGoesOn
    <2>3. CASE Fail(t) /\ t.pc \in UnsaidPcs
      BY SMTT(30), <1>1, <2>3, TurnEnds DEF Fail
    <2> QED
      BY SMTT(30), <2>1, <2>2, <2>3 DEF Think, React, LearnAndRespond, UnsaidPcs
  <1>4. Remembers'
    BY SMTT(30), <1>2, <1>3, RememberedStays
  <1> QED
    BY SMTT(30), <1>3, <1>4 DEF TurnInv

\* The rows of an inline response are of a text that was let through.
LEMMA InlineKeeps ==
    ASSUME TurnInv, NEW t \in turns, t.pc = "transcript", \A x : Said(x) => Said(x)',
           \/ AppendTranscript(InlineRows(t.obs, t.text, t.at))
           \/ UNCHANGED transcriptVars
    PROVE  Table(rows)' /\ transcriptTime' \in Nat /\ \A row \in rows' : Said(row.text)'
  <1> DEFINE q == TranscriptRow(t.obs, "inline_response", "user", t.obs.at, None)
             r == TranscriptRow(t.obs, "inline_response", "assistant", t.at, t.text)
  <1>1. t.at \in Nat /\ Said(t.text) /\ t.obs.n \in Nat /\ t.obs.at \in Nat
    BY ObservationShape DEF TurnInv, Attempts, Turns
  <1>2. q.at \in Nat /\ q.id \in Nat /\ q.text = None
    BY <1>1, RowOf
  <1>3. r.at \in Nat /\ r.id \in Nat /\ r.text = t.text
    BY <1>1, RowOf
  <1>4. InlineRows(t.obs, t.text, t.at) = <<q, r>>
    BY DEF InlineRows
  <1> HIDE DEF q, r
  <1>5. PICK a, b : a = q /\ b = r
    BY SMTT(30)
  <1>6. \A x \in {a, b} : x.at \in Nat /\ x.id \in Nat /\ Said(x.text)'
    BY <1>1, <1>2, <1>3, <1>5, OthersAreSaid
  <1> DEFINE R == {a, b}
             batch == <<a, b>>
  <1>7. batch \in Seq(R) /\ \A x \in R : x.at \in Nat /\ x.id \in Nat /\ Said(x.text)'
    BY SMTT(30), <1>6
  <1>8. AppendTranscript(batch) \/ UNCHANGED transcriptVars
    BY SMTT(30), <1>4, <1>5
  <1> HIDE DEF R, batch
  <1> QED
    BY <1>7, <1>8, RowsAppended

\* The turn writes its rows, or is cancelled before, while or after it does.
LEMMA RecordKeeps ==
    ASSUME TurnInv, NEW t \in turns,
           RecordTranscript(t) \/ Cancel(t)
    PROVE  TurnInv'
  <1>1. t \in Turns /\ submits' = submits /\ barred' = barred /\ history' = history /\ window' = window
    BY SMTT(30) DEF TurnInv, Attempts, RecordTranscript, Cancel
  <1>2. /\ \A x : Said(x) => Said(x)'
        /\ SaidRecords \subseteq SaidRecords'
        /\ Attempts'
    <2>1. CASE turns' = turns \ {t}
      BY SMTT(30), <1>1, <2>1, TurnEnds
    <2>2. CASE Step(t, [t EXCEPT !.pc = "learn"])
      <3> DEFINE next == [t EXCEPT !.pc = "learn"]
      <3>1. next \in Turns /\ next.obs = t.obs /\ next.attempt = t.attempt /\ next.pc = "learn"
        BY SMTT(30), <1>1, TurnMoved
      <3>2. next.pc \notin UnsaidPcs /\ next.pc # "transcript" /\ Step(t, next)
        BY SMTT(30), <2>2, <3>1 DEF UnsaidPcs
      <3> HIDE DEF next
      <3> QED
        BY SMTT(30), <1>1, <3>1, <3>2, TurnGoesOn
    <2> QED
      BY SMTT(30), <2>1, <2>2 DEF RecordTranscript, Cancel
  <1>3. Table(rows)' /\ transcriptTime' \in Nat /\ \A row \in rows' : Said(row.text)'
    <2>1. CASE UNCHANGED transcriptVars
      BY SMTT(30), <1>2, <2>1 DEF transcriptVars, Table, TurnInv, Remembers
    <2>2. CASE t.pc = "transcript" /\ AppendTranscript(InlineRows(t.obs, t.text, t.at))
      BY SMTT(30), <1>2, <2>2, InlineKeeps
    <2> QED
      BY SMTT(30), <2>1, <2>2 DEF RecordTranscript, Cancel
  <1>4. Remembers'
    BY <1>1, <1>2, <1>3, HistoryStays, WindowStays DEF Remembers
  <1> QED
    BY SMTT(30), <1>2, <1>4 DEF TurnInv

\* The gates let the answer to a message through.
LEMMA AnswerKeeps ==
    ASSUME TurnInv, NEW t \in turns, t.pc = "present", barred' = barred,
           Step(t, Turn(t.obs, t.attempt, "transcript", TextOf(t), transcriptTime)),
           AppendHistory(t.obs.key,
               <<[role |-> "user", obs |-> t.obs.n, len |-> t.obs.len, text |-> None],
                 [role |-> "assistant", obs |-> t.obs.n, len |-> t.attempt, text |-> TextOf(t)]>>),
           UNCHANGED <<transcriptVars, submits, window>>
    PROVE  TurnInv'
  <1> DEFINE next == Turn(t.obs, t.attempt, "transcript", TextOf(t), transcriptTime)
  <1>1. t \in Turns /\ t.obs \in Observations /\ t.attempt \in Nat \ {0} /\ transcriptTime \in Nat
    BY DEF TurnInv, Attempts, Remembers, Turns
  <1>2. TextOf(t) \in Nat \X (Nat \ {0}) /\ Counted(TextOf(t)) /\ TextOf(t) \in Texts
    BY TextsOfTurns DEF Texts
  <1>3. /\ next \in Turns /\ next.obs = t.obs /\ next.attempt = t.attempt /\ next.pc = "transcript"
        /\ next.text = TextOf(t) /\ next.at = transcriptTime
    BY <1>1, <1>2 DEF Turn, Turns
  <1>4. turns' = (turns \ {t}) \cup {next}
    BY DEF Step
  <1> HIDE DEF next
  <1>5. UnsaidTexts' = {TextOf(u) : u \in {v \in turns' : v.pc \in UnsaidPcs}}
    BY DEF UnsaidTexts, TextOf
  <1>6. next.pc \notin UnsaidPcs /\ t.pc \in UnsaidPcs
    BY <1>3 DEF UnsaidPcs
  <1>7. UnsaidTexts' \subseteq UnsaidTexts /\ TextOf(t) \notin UnsaidTexts'
    BY <1>4, <1>5, <1>6, TextsOfTurns DEF UnsaidTexts
  <1>8. /\ \A x : Counted(x) => Counted(x)'
        /\ \A x : Said(x) => Said(x)'
        /\ SaidRecords \subseteq SaidRecords'
    BY <1>7, SaidStays
  <1>9. PICK text : text = TextOf(t)
    OBVIOUS
  <1>10. Said(text)'
    <2>1. text \notin barred
      <3>1. TextOf(t) \in UnsaidTexts
        BY SMTT(30), <1>6 DEF UnsaidTexts
      <3>2. barred \cap UnsaidTexts = {}
        BY DEF TurnInv, Attempts
      <3> QED
        BY SMTT(30), <1>9, <3>1, <3>2
    <2> QED
      BY <1>2, <1>7, <1>8, <1>9, <2>1 DEF Said
  <1>11. Attempts'
    <2>1. barred' \cap UnsaidTexts' = {}
      BY <1>7 DEF TurnInv, Attempts
    <2>2. \A x \in barred' : x \in Nat \X (Nat \ {0}) /\ Counted(x)'
      BY <1>8 DEF TurnInv, Attempts
    <2>3. \A u \in turns' : u.pc = "transcript" => u.at \in Nat /\ Said(u.text)'
      BY <1>1, <1>3, <1>4, <1>8, <1>9, <1>10 DEF TurnInv, Attempts
    <2>4. /\ turns' \subseteq Turns /\ submits' \in [Observations -> Nat]
          /\ \A u \in turns' : u.attempt <= submits'[u.obs]
          /\ \A u, v \in turns' : u.obs = v.obs /\ u.attempt = v.attempt => u = v
      BY <1>3, <1>4 DEF TurnInv, Attempts
    <2> QED
      BY <2>1, <2>2, <2>3, <2>4 DEF Attempts
  <1>12. history' \in [ConversationKeys -> Seq(SaidRecords')]
    <2> DEFINE q == [role |-> "user", obs |-> t.obs.n, len |-> t.obs.len, text |-> None]
               r == [role |-> "assistant", obs |-> t.obs.n, len |-> t.attempt, text |-> text]
    <2>1. t.obs.n \in Nat /\ t.obs.len \in Nat /\ t.obs.key \in ConversationKeys
      BY <1>1, ObservationShape DEF ConversationKeys
    <2>2. q \in HistoryRecords /\ r \in HistoryRecords /\ q.text = None /\ r.text = text
      BY <1>1, <1>2, <1>9, <2>1 DEF HistoryRecords, Texts
    <2>3. AppendHistory(t.obs.key, <<q, r>>)
      BY <1>9
    <2> HIDE DEF q, r
    <2>4. Said(None)'
      BY <1>8, OthersAreSaid
    <2>5. PICK a, b, k : a = q /\ b = r /\ k = t.obs.key
      OBVIOUS
    <2>6. a \in SaidRecords' /\ b \in SaidRecords'
      BY <1>10, <2>2, <2>4, <2>5 DEF SaidRecords
    <2>7. <<a, b>> \in Seq(SaidRecords')
      BY SMTT(30), <2>6
    <2>8. AppendHistory(k, <<a, b>>) /\ k \in ConversationKeys
      BY <2>1, <2>3, <2>5
    <2> QED
      BY <1>8, <2>7, <2>8, HistoryAppended
  <1>13. Remembers'
    <2>1. window' \in [records : Seq(SaidRecords'), summary : Seq(SaidRecords')]
      BY <1>8, WindowStays
    <2>2. Table(rows)' /\ transcriptTime' \in Nat /\ \A row \in rows' : Said(row.text)'
      BY <1>8 DEF TurnInv, Remembers, transcriptVars, Table
    <2> QED
      BY <1>12, <2>1, <2>2 DEF Remembers
  <1> QED
    BY <1>11, <1>13 DEF TurnInv

\* The gates let the text through, and then it is in the history, or bar it.
LEMMA PresentKeeps ==
    ASSUME TurnInv, NEW t \in turns, Present(t)
    PROVE  TurnInv'
  <1>1. t \in Turns /\ t.pc = "present" /\ submits' = submits /\ UNCHANGED <<transcriptVars, submits, window>>
    BY SMTT(30) DEF TurnInv, Attempts, Present
  <1>2. TextOf(t) # None /\ TextOf(t) \in Texts
    BY SMTT(30), TextsOfTurns, ObservationShape DEF Texts
  <1>3. CASE /\ barred' = barred
             /\ Step(t, Turn(t.obs, t.attempt, "transcript", TextOf(t), transcriptTime))
             /\ AppendHistory(t.obs.key,
                    <<[role |-> "user", obs |-> t.obs.n, len |-> t.obs.len, text |-> None],
                      [role |-> "assistant", obs |-> t.obs.n, len |-> t.attempt, text |-> TextOf(t)]>>)
    BY <1>1, <1>3, AnswerKeeps
  <1>4. CASE /\ \E text \in {None, TextOf(t)} : Step(t, [t EXCEPT !.pc = "learn", !.text = text])
             /\ barred' = barred \/ barred' = barred \cup {TextOf(t)}
             /\ history' = history
    <2>1. PICK text \in {None, TextOf(t)} : Step(t, [t EXCEPT !.pc = "learn", !.text = text])
      BY <1>4
    <2> DEFINE next == [t EXCEPT !.pc = "learn", !.text = text]
    <2>2. text \in Texts
      BY <1>2 DEF Texts
    <2>3. next \in Turns /\ next.obs = t.obs /\ next.attempt = t.attempt /\ next.pc = "learn"
      BY <1>1, <2>2 DEF Turns
    <2>4. next.pc \notin UnsaidPcs /\ next.pc # "transcript" /\ t.pc \in UnsaidPcs /\ Step(t, next)
      BY <1>1, <2>1, <2>3 DEF UnsaidPcs
    <2> HIDE DEF next
    <2>5. /\ \A x : Said(x) => Said(x)'
          /\ SaidRecords \subseteq SaidRecords'
          /\ Attempts'
      BY SMTT(30), <1>1, <1>4, <2>3, <2>4, TurnGoesOn
    <2>6. Remembers'
      <3>1. UNCHANGED <<rows, transcriptTime, history, window>>
        BY SMTT(30), <1>1, <1>4 DEF transcriptVars
      <3> QED
        BY SMTT(30), <2>5, <3>1, RememberedStays
    <2> QED
      BY SMTT(30), <2>5, <2>6 DEF TurnInv
  <1>5. PICK decision \in {"block_action", "block_output", "allow"} :
          /\ barred' = IF decision = "allow" THEN barred ELSE barred \cup {TextOf(t)}
          /\ IF PresentedText(t, decision) # None /\ t.obs.kind = "actor_message"
             THEN /\ AppendHistory(t.obs.key,
                         <<[role |-> "user", obs |-> t.obs.n, len |-> t.obs.len, text |-> None],
                           [role |-> "assistant", obs |-> t.obs.n, len |-> t.attempt,
                            text |-> PresentedText(t, decision)]>>)
                  /\ Step(t, Turn(t.obs, t.attempt, "transcript", PresentedText(t, decision), transcriptTime))
             ELSE /\ Step(t, [t EXCEPT !.pc = "learn", !.text = PresentedText(t, decision)])
                  /\ UNCHANGED history
    BY Zenon DEF Present
  <1>6. CASE decision = "allow" /\ t.obs.kind = "actor_message"
    <2>1. PresentedText(t, decision) = TextOf(t)
      BY SMTT(30), <1>6 DEF PresentedText
    <2> QED
      BY SMTT(30), <1>2, <1>3, <1>5, <1>6, <2>1
  <1>7. CASE ~(decision = "allow" /\ t.obs.kind = "actor_message")
    <2>1. PresentedText(t, decision) \in {None, TextOf(t)} /\ (decision # "allow" => PresentedText(t, decision) = None)
      BY SMTT(30) DEF PresentedText
    <2> QED
      BY <1>4, <1>5, <1>7, <2>1
  <1> QED
    BY SMTT(30), <1>6, <1>7

\* A result of a delivered message adds the message, which is of no attempt.
LEMMA DeliveredKeeps ==
    ASSUME TurnInv, NEW d \in Delivered, AfterActionResult(d)
    PROVE  TurnInv'
  <1>1. turns' = turns /\ submits' = submits /\ window' = window /\ barred' = barred
    BY DEF AfterActionResult
  <1>2. UnsaidTexts' = UnsaidTexts
    BY SMTT(30), <1>1 DEF UnsaidTexts, TextOf
  <1>3. /\ \A x : Counted(x) => Counted(x)'
        /\ \A x : Said(x) => Said(x)'
        /\ SaidRecords \subseteq SaidRecords'
    BY SMTT(30), <1>1, <1>2, SaidStays
  <1>4. Attempts'
    BY <1>1, <1>2, <1>3 DEF TurnInv, Attempts
  <1>5. d.n \in Nat /\ d.at \in Nat /\ d.len \in Nat /\ d.key \in ConversationKeys
    BY ObservationShape DEF ConversationKeys
  <1>6. PICK text : text = <<d.n, 0>>
    OBVIOUS
  <1>7. Said(text)' /\ text \in Texts
    BY <1>3, <1>5, <1>6, OthersAreSaid DEF Texts
  <1>8. history' \in [ConversationKeys -> Seq(SaidRecords')]
    <2>1. CASE d.ok
      <3>1. PICK a : a = [role |-> "assistant", obs |-> d.n, len |-> d.len, text |-> text]
        OBVIOUS
      <3>2. a \in HistoryRecords /\ a.text = text
        BY <1>5, <1>7, <3>1 DEF HistoryRecords
      <3>3. a \in SaidRecords'
        BY SMTT(30), <1>7, <3>2 DEF SaidRecords
      <3>4. <<a>> \in Seq(SaidRecords')
        BY SMTT(30), <3>3
      <3>5. AppendHistory(d.key, <<a>>)
        BY <1>6, <2>1, <3>1 DEF AfterActionResult
      <3> QED
        BY <1>3, <1>5, <3>4, <3>5, HistoryAppended
    <2>2. CASE ~d.ok
      BY <1>3, <2>2, HistoryStays DEF AfterActionResult
    <2> QED
      BY SMTT(30), <2>1, <2>2
  <1>9. Table(rows)' /\ transcriptTime' \in Nat /\ \A row \in rows' : Said(row.text)'
    <2>1. PICK a : a = TranscriptRow(d, "delivered_action", "assistant", d.at, text)
      BY SMTT(30)
    <2>2. a.at \in Nat /\ a.id \in Nat /\ a.text = text
      BY SMTT(30), <1>5, <2>1, RowOf
    <2> DEFINE R == {a}
               batch == <<a>>
    <2>3. batch \in Seq(R) /\ \A x \in R : x.at \in Nat /\ x.id \in Nat /\ Said(x.text)'
      BY SMTT(30), <1>7, <2>2
    <2>4. AppendTranscript(batch) \/ UNCHANGED transcriptVars
      BY <1>6, <2>1 DEF AfterActionResult
    <2> HIDE DEF R, batch
    <2> QED
      BY <1>3, <2>3, <2>4, RowsAppended
  <1>10. window' \in [records : Seq(SaidRecords'), summary : Seq(SaidRecords')]
    BY <1>1, <1>3, WindowStays
  <1>11. Remembers'
    BY <1>8, <1>9, <1>10 DEF Remembers
  <1> QED
    BY SMTT(30), <1>4, <1>11 DEF TurnInv

\* Time passes, or nothing happens.
LEMMA TurnTickKeeps ==
    ASSUME TurnInv,
           \/ UNCHANGED turnVars
           \/ TranscriptTick /\ UNCHANGED <<turns, submits, history, reported, window, barred>>
    PROVE  TurnInv'
  <1>1. /\ UNCHANGED <<turns, submits, history, window, barred, rows>>
        /\ transcriptTime' = transcriptTime \/ transcriptTime' = transcriptTime + 1
    BY DEF turnVars, transcriptVars, TranscriptTick
  <1>2. UnsaidTexts' = UnsaidTexts
    BY <1>1 DEF UnsaidTexts, TextOf
  <1>3. /\ \A x : Counted(x) => Counted(x)'
        /\ \A x : Said(x) => Said(x)'
        /\ SaidRecords \subseteq SaidRecords'
    BY <1>1, <1>2, SaidStays
  <1>4. Attempts'
    BY <1>1, <1>2, <1>3 DEF TurnInv, Attempts
  <1>5. history' \in [ConversationKeys -> Seq(SaidRecords')]
    BY <1>1, <1>3, HistoryStays
  <1>6. window' \in [records : Seq(SaidRecords'), summary : Seq(SaidRecords')]
    BY <1>1, <1>3, WindowStays
  <1>7. Table(rows)' /\ transcriptTime' \in Nat /\ \A row \in rows' : Said(row.text)'
    BY <1>1, <1>3 DEF TurnInv, Remembers, Table
  <1> QED
    BY <1>4, <1>5, <1>6, <1>7 DEF TurnInv, Remembers

\* Nothing is remembered at the start but the rows held, which are of no attempt.
LEMMA InitialTurns == TurnInit => TurnInv
  <1> SUFFICES ASSUME TurnInit PROVE TurnInv
    OBVIOUS
  <1>1. turns = {} /\ barred = {} /\ submits = [o \in Observations |-> 0]
        /\ history = [k \in ConversationKeys |-> <<>>] /\ window = BuildWindow(<<>>)
    BY DEF TurnInit
  <1>2. Attempts
    BY <1>1 DEF Attempts, UnsaidTexts
  <1>3. Table(rows) /\ rows \subseteq HeldRows /\ transcriptTime \in Nat
    BY InitialTable DEF TurnInit, TranscriptInit
  <1>4. \A row \in rows : Said(row.text)
    <2> SUFFICES ASSUME NEW row \in rows PROVE Said(row.text)
      OBVIOUS
    <2>1. row.text \notin Nat \X (Nat \ {0})
      BY <1>3, ObservationShape
    <2> DEFINE x == row.text
    <2> HIDE DEF x
    <2>2. \A o \in Observations : x \in Nat \X Nat /\ x[1] = o.n => x[2] <= submits[o]
      <3> SUFFICES ASSUME NEW o \in Observations, x \in Nat \X Nat PROVE x[2] <= submits[o]
        OBVIOUS
      <3>1. x = <<x[1], x[2]>> /\ x[1] \in Nat /\ x[2] \in Nat
        OBVIOUS
      <3>2. x[2] = 0
        BY <2>1, <3>1 DEF x
      <3>3. submits[o] = 0
        BY <1>1
      <3> QED
        BY <3>2, <3>3
    <2> QED
      BY <1>1, <2>2 DEF Said, Counted, UnsaidTexts, x
  <1>5. <<>> \in Seq(SaidRecords)
    OBVIOUS
  <1>6. window \in [records : Seq(SaidRecords), summary : Seq(SaidRecords)]
    BY <1>1, <1>5, WindowTyped
  <1>7. history \in [ConversationKeys -> Seq(SaidRecords)]
    BY <1>1, <1>5
  <1>8. Remembers
    BY <1>3, <1>4, <1>6, <1>7 DEF Remembers
  <1> QED
    BY <1>2, <1>8 DEF TurnInv

\* However turns overlap, fail, are dropped and are sent again, the history, the
\* window and the transcript hold only what the gates let through, and a transcript
\* id one row.
THEOREM OnlySaidIsRemembered == TurnSpec => []RememberedWasSaid
  <1>1. TurnInv /\ [TurnNext]_turnVars => TurnInv'
    <2> SUFFICES ASSUME TurnInv, [TurnNext]_turnVars PROVE TurnInv'
      OBVIOUS
    <2>1. CASE \E o \in Observations : Submit(o)
      BY <2>1, SubmitKeeps
    <2>2. CASE \E t \in turns :
                 \/ IntegrateAndRoute(t) \/ Think(t) \/ React(t) \/ Present(t)
                 \/ RecordTranscript(t) \/ LearnAndRespond(t) \/ Cancel(t)
      BY <2>2, IntegrateKeeps, QuietTurnKeeps, PresentKeeps, RecordKeeps
    <2>3. CASE \E d \in Delivered : AfterActionResult(d)
      BY <2>3, DeliveredKeeps
    <2>4. CASE \/ UNCHANGED turnVars
               \/ TranscriptTick /\ UNCHANGED <<turns, submits, history, reported, window, barred>>
      BY <2>4, TurnTickKeeps
    <2> QED
      BY <2>1, <2>2, <2>3, <2>4 DEF TurnNext
  <1>2. TurnInv => RememberedWasSaid
    <2> SUFFICES ASSUME TurnInv PROVE RememberedWasSaid
      OBVIOUS
    <2>1. \A r \in SaidRecords : r.text \notin barred
      BY DEF SaidRecords, Said
    <2>2. \A k \in ConversationKeys : \A i \in DOMAIN history[k] : history[k][i] \in SaidRecords
      BY DEF TurnInv, Remembers
    <2>3. Range(window.records) \cup Range(window.summary) \subseteq SaidRecords
      <3>1. window.records \in Seq(SaidRecords) /\ window.summary \in Seq(SaidRecords)
        BY DEF TurnInv, Remembers
      <3> QED
        BY <3>1 DEF Range
    <2>4. /\ \A row \in rows : row.text \notin barred
          /\ \A r, s \in rows : r.id = s.id => r = s
      BY DEF TurnInv, Remembers, Said, Table
    <2> QED
      BY <2>1, <2>2, <2>3, <2>4 DEF RememberedWasSaid
  <1> QED
    BY <1>1, <1>2, InitialTurns, PTL DEF TurnSpec
=============================================================================
