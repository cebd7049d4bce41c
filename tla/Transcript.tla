----------------------------- MODULE Transcript -----------------------------
(***************************************************************************)
(* The confirmed transcript: one row per message that was really exchanged,*)
(* read page by page with a cursor, exported, pruned by retention, pruned  *)
(* by an overflow per conversation, and cleaned up by operators.           *)
(*                                                                         *)
(* Every call of the store is one transaction of a thread of its own, so   *)
(* appends and deletions fall between the pages of a reader.  A row may be *)
(* under a legal hold.  An operator names every cleanup with an operation  *)
(* id and may repeat a call whose answer was lost.                         *)
(***************************************************************************)
EXTENDS Naturals, Sequences, FiniteSets, Functions, Optional

CONSTANTS
    Requests,           \* cleanup requests operators send, records as in RequestFields
    Batches,            \* sequences of rows, as the callers of append build them
    HeldRows,           \* rows an operator may have put under a hold
    MaxRecordsPerKey,   \* max_records_per_key
    PageLimits,         \* page sizes clients ask for
    MaxTranscriptTime,  \* bound: the clock
    MaxCleanups         \* bound: calls of cleanup

RequestFields == {"op", "actor", "cutoff", "dry", "transcriptOnly"}

ASSUME RequestShape == \A r \in Requests : DOMAIN r = RequestFields

\* The rows there may be, and the cursor after one of them.
TranscriptRows == HeldRows \cup UNION {Range(batch) : batch \in Batches}

Cursors == [at : Nat, id : Nat]

\* A row of transcript_cleanup_operations.
CleanupRecords ==
    [request : Requests,
     result : [target : Nat, eligible : Nat, deleted : Nat, excluded : Nat]]

ASSUME RowShape ==
    /\ IsFiniteSet(HeldRows)
    /\ \A a, b \in HeldRows : a.id = b.id => a = b
    /\ Batches \subseteq Seq(TranscriptRows)
    /\ \A row \in TranscriptRows : row.at \in Nat /\ row.id \in Nat
    /\ PageLimits \subseteq Nat \ {0}
    /\ None \notin Cursors \cup CleanupRecords

VARIABLES
    cleanupEnabled,     \* transcript cleanup is switched on
    transcriptTime,     \* the clock
    rows,               \* conversation_transcripts
    operations,         \* transcript_cleanup_operations
    cleanups,           \* calls of cleanup so far
    walk,               \* a client that reads page after page
    removed             \* history: rows deleted by each operation

transcriptVars ==
    <<cleanupEnabled, transcriptTime, rows, operations, cleanups, walk, removed>>

Operations == {r.op : r \in Requests}

-----------------------------------------------------------------------------
\* ORDER BY occurred_at, transcript_id.
Before(a, b) == a.at < b.at \/ (a.at = b.at /\ a.id < b.id)

\* ... LIMIT n.
FirstRows(found, n) == {r \in found : Cardinality({s \in found : Before(s, r)}) < n}

HoldOver(row, moment) == row.hold = None \/ row.hold <= moment

SameKey(a, b) == a.key = b.key

\* _prune_key_overflow: the newest rows of the conversation stay, those under a
\* hold do not count.
PruneOverflow(table, row) ==
    LET free == {r \in table : SameKey(r, row) /\ HoldOver(r, transcriptTime)}
        newer(r) == {s \in free : Before(r, s)}
    IN  IF MaxRecordsPerKey = 0 THEN table
        ELSE table \ {r \in free : Cardinality(newer(r)) >= MaxRecordsPerKey}

\* INSERT OR IGNORE, then the overflow of the row's conversation.
InsertRow(table, row) ==
    PruneOverflow(IF \E r \in table : r.id = row.id THEN table ELSE table \cup {row}, row)

\* _append_sync.
AppendRows(table, batch) ==
    LET after[n \in 0 .. Len(batch)] ==
            IF n = 0 THEN table ELSE InsertRow(after[n - 1], batch[n])
    IN  after[Len(batch)]

\* _prune_expired_sync.
PruneExpired(table, now) ==
    {r \in table : ~(r.retention # None /\ r.retention <= now /\ HoldOver(r, now))}

\* Mutant: the cursor is the moment of the last row only.
AfterMoment(row, cursor) == cursor = None \/ row.at > cursor.at

\* The cursor condition of _db_query.
AfterCursor(row, cursor) ==
    \/ cursor = None
    \/ row.at > cursor.at
    \/ row.at = cursor.at /\ row.id > cursor.id

\* The rows after the cursor that _query_sync is asked for.
Found(actor, cursor) == {r \in rows : (actor = None \/ r.actor = actor) /\ AfterCursor(r, cursor)}

\* _query_sync.
QueryRows(actor, cursor, limit) == FirstRows(Found(actor, cursor), limit)

\* _cursor_for the last row of a page.
CursorFor(shown) ==
    LET last == CHOOSE r \in shown : \A s \in shown \ {r} : Before(s, r)
    IN  [at |-> last.at, id |-> last.id]

\* TranscriptReadService.query and export: one row more than asked for tells
\* whether there is another page.
Page(actor, cursor, limit) ==
    LET found == QueryRows(actor, cursor, limit + 1)
        shown == FirstRows(found, limit)
    IN  [records |-> shown,
         next |-> IF Cardinality(found) > limit THEN CursorFor(shown) ELSE None]

-----------------------------------------------------------------------------
NoWalk == [open |-> FALSE, actor |-> None, cursor |-> None, pages |-> <<>>, stable |-> {}, done |-> FALSE]

TranscriptInit ==
    /\ cleanupEnabled \in BOOLEAN
    /\ transcriptTime = 0
    /\ rows \in SUBSET HeldRows
    /\ operations = [o \in Operations |-> None]
    /\ cleanups = 0
    /\ walk = NoWalk
    /\ removed = [o \in Operations |-> {}]

\* What a deletion leaves of the rows a reader must still meet.
KeepWalk(table) == [walk EXCEPT !.stable = @ \cap table]

AppendTranscript(batch) ==
    /\ rows' = AppendRows(rows, batch)
    /\ walk' = KeepWalk(rows')
    /\ UNCHANGED <<cleanupEnabled, transcriptTime, operations, cleanups, removed>>

PruneTranscript ==
    /\ rows' = PruneExpired(rows, transcriptTime)
    /\ rows' # rows
    /\ walk' = KeepWalk(rows')
    /\ UNCHANGED <<cleanupEnabled, transcriptTime, operations, cleanups, removed>>

\* The rows a request is about, and those of them it may delete.
Targets(r) == {row \in rows : (r.actor = None \/ row.actor = r.actor) /\ row.at < r.cutoff}

Eligible(r) == {row \in Targets(r) : HoldOver(row, r.cutoff)}

\* The policy must name the transcript and nothing else.
ToDelete(r) == IF r.transcriptOnly THEN Eligible(r) ELSE {}

Deleted(r) == IF r.dry THEN {} ELSE ToDelete(r)

CleanupResult(r) ==
    [target |-> Cardinality(Targets(r)),
     eligible |-> Cardinality(ToDelete(r)),
     deleted |-> Cardinality(Deleted(r)),
     excluded |-> Cardinality(Targets(r)) - Cardinality(ToDelete(r))]

\* Mutant: a repeated call of the same operation runs again.
RunAgain(r) ==
    /\ rows' = rows \ Deleted(r)
    /\ operations' = [operations EXCEPT ![r.op] = [request |-> r, result |-> CleanupResult(r)]]
    /\ removed' = [removed EXCEPT ![r.op] = @ \cup Deleted(r)]

\* _cleanup_sync: a recorded operation is answered from its record, whether the
\* request is the same (the stored result) or another (a conflict).
RunCleanup(r) ==
    IF operations[r.op] # None THEN UNCHANGED <<rows, operations, removed>>
    ELSE /\ rows' = rows \ Deleted(r)
         /\ operations' = [operations EXCEPT ![r.op] = [request |-> r, result |-> CleanupResult(r)]]
         /\ removed' = [removed EXCEPT ![r.op] = @ \cup Deleted(r)]

\* TranscriptCleanupService.cleanup: switched off, it defers and records nothing.
Cleanup(r) ==
    /\ cleanups < MaxCleanups
    /\ cleanups' = cleanups + 1
    /\ IF cleanupEnabled THEN RunCleanup(r) ELSE UNCHANGED <<rows, operations, removed>>
    /\ walk' = KeepWalk(rows')
    /\ UNCHANGED <<cleanupEnabled, transcriptTime>>

\* The client has one page more.
WalkOn(actor, pages, stable, p) ==
    [open |-> TRUE, actor |-> actor, cursor |-> p.next, pages |-> Append(pages, p.records),
     stable |-> stable, done |-> p.next = None]

\* The first page, or an export.
OpenWalk(actor, limit) ==
    /\ ~walk.open
    /\ walk' = WalkOn(actor, <<>>, {r \in rows : actor = None \/ r.actor = actor},
                       Page(actor, None, limit))
    /\ UNCHANGED <<cleanupEnabled, transcriptTime, rows, operations, cleanups, removed>>

\* The page after the cursor of the page before.
NextPage(limit) ==
    /\ walk.open
    /\ ~walk.done
    /\ walk' = WalkOn(walk.actor, walk.pages, walk.stable, Page(walk.actor, walk.cursor, limit))
    /\ UNCHANGED <<cleanupEnabled, transcriptTime, rows, operations, cleanups, removed>>

TranscriptTick ==
    /\ transcriptTime < MaxTranscriptTime
    /\ transcriptTime' = transcriptTime + 1
    /\ UNCHANGED <<cleanupEnabled, rows, operations, cleanups, walk, removed>>

TranscriptNext ==
    \/ \E batch \in Batches : AppendTranscript(batch)
    \/ PruneTranscript
    \/ \E r \in Requests : Cleanup(r)
    \/ \E actor \in {r.actor : r \in Requests}, limit \in PageLimits : OpenWalk(actor, limit)
    \/ \E limit \in PageLimits : NextPage(limit)
    \/ TranscriptTick

TranscriptSpec == TranscriptInit /\ [][TranscriptNext]_transcriptVars

-----------------------------------------------------------------------------
\* Reading page after page, while turns append and operators delete, shows every
\* row that was there from the first page to the last on one page (the cursor of
\* TranscriptReadService and the order of _db_query).
PagingComplete ==
    walk.done =>
        \A row \in walk.stable : Cardinality({i \in DOMAIN walk.pages : row \in walk.pages[i]}) = 1

\* However often an operator repeats a cleanup, with the same or another request,
\* the operation deleted just what its recorded result says, a dry run nothing,
\* and no row whose hold outlives the operator's cutoff (_cleanup_sync).
CleanupDeletesAsReported ==
    \A o \in Operations :
        LET record == operations[o]
        IN  IF record = None THEN removed[o] = {}
            ELSE /\ Cardinality(removed[o]) = record.result.deleted
                 /\ record.request.dry => removed[o] = {}
                 /\ \A row \in removed[o] : HoldOver(row, record.request.cutoff)
=============================================================================
