---------------------------- MODULE MemoryIndex ----------------------------
(***************************************************************************)
(* The canonical memory records and the vector index derived from them.    *)
(*                                                                         *)
(* A turn writes a record to the SQLite store and then its entry to the    *)
(* index (cognitive/memory/write.py); the promoter of reviewed candidates  *)
(* writes records only (runtime/learning/review_promotion.py).  At startup *)
(* the index is compared with the store and repaired                       *)
(* (runtime/memory_vector_rebuilder.py, runtime/wiring/runtime.py) before  *)
(* the first turn is served.                                               *)
(*                                                                         *)
(* Every call of the store runs in a thread and is one transaction or a    *)
(* sequence of them, so the calls of two turns interleave.  The index is   *)
(* a Qdrant collection, which outlives the process and whose requests may  *)
(* fail, or a dictionary of the process.  No caller archives a record or   *)
(* inserts one with put: neither is modelled.                              *)
(***************************************************************************)
EXTENDS Naturals

CONSTANTS
    TurnMemories,       \* ids hashed from what a turn says (_generate_memory_id)
    PromotedMemories,   \* ids hashed from a candidate (_promoted_memory_id)
    Writers,            \* concurrent turns and promotions
    Models,             \* embedding identities: provider, model and dimension
    MaxWrites           \* bound: number of writes

Memories == TurnMemories \cup PromotedMemories

ASSUME NoSharedIds == TurnMemories \cap PromotedMemories = {}
ASSUME NoneIsNoModel == "none" \notin Models
ASSUME MaxWritesAssumption == MaxWrites \in Nat

VARIABLES
    durable,    \* the index is a Qdrant collection
    config,     \* the configuration of the process, or of the last one
    phase,      \* down, rebuilding or serving
    wired,      \* the process uses the index
    store,      \* the canonical records
    index,      \* the index entries
    todo,       \* records the running rebuild has yet to upsert
    writer,     \* writes in flight
    clock,      \* number of writes begun; the source of updated_at
    held,       \* history: the records the store has held, by id
    loose       \* history: ids whose entry may lag behind the record

vars == <<durable, config, phase, wired, store, index, todo, writer, clock, held, loose>>

-----------------------------------------------------------------------------
\* A record is told from another of the same id by the time of its last update,
\* which the normalisation stamps, and the time of its creation.
Records == [updated : 1 .. MaxWrites, created : 1 .. MaxWrites]

Absent == [updated |-> 0, created |-> 0]

\* An entry names the digest of the record it was made from and the embedding.
\* A collection that served another database holds entries of no record of ours.
Entry(rec, model) == [digest |-> rec, model |-> model]

Entries == [digest : Records \cup {Absent}, model : Models]

NoEntry == [digest |-> Absent, model |-> "none"]

Configs == [enabled : BOOLEAN, model : Models, failOpen : BOOLEAN, rebuild : BOOLEAN]

Idle == [pc |-> "idle", rec |-> Absent, alone |-> TRUE]

Writes ==
    [pc : {"update", "get", "index"}, id : Memories,
     rec : Records, alone : BOOLEAN]

Busy(m) == {w \in Writers : writer[w].pc # "idle" /\ writer[w].id = m}

\* Mutant: the digest of the entry is not compared.
NeedsSyncByModel(m, entry, model) ==
    store[m] # Absent /\ (entry = NoEntry \/ entry.model # model)

\* MemoryVectorIndexRebuilder._classify: missing, incompatible or stale.
NeedsSync(m, entry, model) ==
    /\ store[m] # Absent
    /\ \/ entry = NoEntry
       \/ entry.model # model
       \/ entry.digest # store[m]

Orphans == {m \in Memories : index[m] # NoEntry /\ store[m] = Absent}

-----------------------------------------------------------------------------
Init ==
    /\ durable \in BOOLEAN
    /\ config \in Configs
    /\ phase = "down"
    /\ wired = FALSE
    /\ store = [m \in Memories |-> Absent]
    /\ index \in [Memories -> {NoEntry} \cup {Entry(Absent, k) : k \in Models}]
    /\ todo = {}
    /\ writer = [w \in Writers |-> Idle]
    /\ clock = 0
    /\ held = [m \in Memories |-> {}]
    /\ loose = Memories

\* The entries a new process starts from.
InheritedIndex == IF durable THEN index ELSE [m \in Memories |-> NoEntry]

\* A new configuration may name another embedding, and entries that a process
\* kept for itself are gone.
LooseAfterStart(c) == IF durable /\ c.model = config.model THEN loose ELSE Memories

\* _wire_memory_vector up to the rebuild: the index is created and, if it is to
\* be rebuilt, every record of the store classified.
Start(c) ==
    /\ phase = "down"
    /\ c.enabled
    /\ config' = c
    /\ wired' = TRUE
    /\ index' = InheritedIndex
    /\ loose' = LooseAfterStart(c)
    /\ \/ /\ c.rebuild
          /\ phase' = "rebuilding"
          /\ todo' = {m \in Memories : NeedsSync(m, InheritedIndex[m], c.model)}
       \/ /\ ~c.rebuild
          /\ phase' = "serving"
          /\ todo' = {}
    /\ UNCHANGED <<durable, store, writer, clock, held>>

\* The process serves without an index: none is configured, or the collection
\* cannot be reached or does not fit and the process fails open.  With fail-open
\* off it ends where it began.
StartWithoutIndex(c) ==
    /\ phase = "down"
    /\ \/ ~c.enabled
       \/ durable /\ c.failOpen
    /\ config' = c
    /\ phase' = "serving"
    /\ wired' = FALSE
    /\ index' = InheritedIndex
    /\ loose' = LooseAfterStart(c)
    /\ UNCHANGED <<durable, store, todo, writer, clock, held>>

\* MemoryVectorIndexRebuilder._upsert_batch, one record of a batch.
RebuildUpsert(m) ==
    /\ phase = "rebuilding"
    /\ m \in todo
    /\ index' = [index EXCEPT ![m] = Entry(store[m], config.model)]
    /\ todo' = todo \ {m}
    /\ UNCHANGED <<durable, config, phase, wired, store, writer, clock, held, loose>>

\* One orphan removed, once every batch is written.
RebuildDelete(m) ==
    /\ phase = "rebuilding"
    /\ todo = {}
    /\ m \in Orphans
    /\ index' = [index EXCEPT ![m] = NoEntry]
    /\ UNCHANGED <<durable, config, phase, wired, store, todo, writer, clock, held, loose>>

RebuildDone ==
    /\ phase = "rebuilding"
    /\ todo = {}
    /\ Orphans = {}
    /\ phase' = "serving"
    /\ loose' = {}
    /\ UNCHANGED <<durable, config, wired, store, index, todo, writer, clock, held>>

\* A request of the rebuild fails: what it has done stays done, and the process
\* serves without the index or ends.
RebuildFails ==
    /\ phase = "rebuilding"
    /\ durable
    /\ phase' = IF config.failOpen THEN "serving" ELSE "down"
    /\ wired' = FALSE
    /\ todo' = {}
    /\ UNCHANGED <<durable, config, store, index, writer, clock, held, loose>>

-----------------------------------------------------------------------------
\* SQLiteMemoryStore.update, first transaction: the stored record is read for
\* its creation time.  A promoted record brings its own.
WriteBegin(w, m) ==
    /\ phase = "serving"
    /\ writer[w].pc = "idle"
    /\ clock < MaxWrites
    /\ clock' = clock + 1
    /\ LET created == IF m \in TurnMemories /\ store[m] # Absent
                      THEN store[m].created
                      ELSE clock + 1
           write == [pc |-> "update", id |-> m, alone |-> Busy(m) = {},
                     rec |-> [updated |-> clock + 1, created |-> created]]
       IN  writer' = [v \in Writers |->
                        IF v = w THEN write
                        ELSE IF v \in Busy(m) THEN [writer[v] EXCEPT !.alone = FALSE]
                        ELSE writer[v]]
    /\ UNCHANGED <<durable, config, phase, wired, store, index, todo, held, loose>>

\* ON CONFLICT: every column is replaced but created_at.
Upserted(old, new) ==
    IF old = Absent THEN new ELSE [new EXCEPT !.created = old.created]

\* Second transaction: the record is inserted or replaced.
StoreUpsert(w) ==
    /\ writer[w].pc = "update"
    /\ LET m == writer[w].id
           rec == Upserted(store[m], writer[w].rec)
       IN  /\ store' = [store EXCEPT ![m] = rec]
           /\ held' = [held EXCEPT ![m] = @ \cup {rec}]
    /\ writer' = [writer EXCEPT ![w].pc = "get"]
    /\ UNCHANGED <<durable, config, phase, wired, index, todo, clock, loose>>

\* A turn of a process with an index goes on to the entry.
GoesOnToIndex(w) == wired /\ writer[w].id \in TurnMemories

\* Mutant: the turn goes on with the record it sent.
ReadBackIgnored(w) ==
    /\ writer[w].pc = "get"
    /\ GoesOnToIndex(w)
    /\ writer' = [writer EXCEPT ![w].pc = "index"]
    /\ UNCHANGED <<durable, config, phase, wired, store, index, todo, clock, held, loose>>

\* Third transaction: the stored record is read back and returned.
ReadBack(w) ==
    /\ writer[w].pc = "get"
    /\ GoesOnToIndex(w)
    /\ writer' = [writer EXCEPT ![w].pc = "index", ![w].rec = store[writer[w].id]]
    /\ UNCHANGED <<durable, config, phase, wired, store, index, todo, clock, held, loose>>

\* The write ends without an entry: a promotion, a process without an index, or
\* a turn that was cancelled while its thread was writing.
EndsWithoutEntry(w) ==
    /\ writer[w].pc \in {"get", "index"}
    /\ writer' = [writer EXCEPT ![w] = Idle]
    /\ loose' = loose \cup {writer[w].id}
    /\ UNCHANGED <<durable, config, phase, wired, store, index, todo, clock, held>>

\* _upsert_vector: a write that met no other write of the id leaves its entry in
\* step with the record.
IndexUpsert(w) ==
    /\ writer[w].pc = "index"
    /\ LET m == writer[w].id
       IN  /\ index' = [index EXCEPT ![m] = Entry(writer[w].rec, config.model)]
           /\ loose' = IF writer[w].alone THEN loose \ {m} ELSE loose \cup {m}
    /\ writer' = [writer EXCEPT ![w] = Idle]
    /\ UNCHANGED <<durable, config, phase, wired, store, todo, clock, held>>

\* The request fails or is not answered: the entry may have been written.
IndexUpsertFails(w) ==
    /\ writer[w].pc = "index"
    /\ durable
    /\ LET m == writer[w].id
       IN  /\ index' \in {index, [index EXCEPT ![m] = Entry(writer[w].rec, config.model)]}
           /\ loose' = loose \cup {m}
    /\ writer' = [writer EXCEPT ![w] = Idle]
    /\ UNCHANGED <<durable, config, phase, wired, store, todo, clock, held>>

\* The process ends: records and collection stay as they are.
Crash ==
    /\ phase # "down"
    /\ phase' = "down"
    /\ wired' = FALSE
    /\ todo' = {}
    /\ writer' = [w \in Writers |-> Idle]
    /\ loose' = loose \cup {m \in Memories : Busy(m) # {}}
    /\ UNCHANGED <<durable, config, store, index, clock, held>>

Next ==
    \/ \E c \in Configs : Start(c) \/ StartWithoutIndex(c)
    \/ \E m \in Memories : RebuildUpsert(m) \/ RebuildDelete(m)
    \/ RebuildDone
    \/ RebuildFails
    \/ \E w \in Writers :
           \/ \E m \in Memories : WriteBegin(w, m)
           \/ StoreUpsert(w)
           \/ ReadBack(w)
           \/ EndsWithoutEntry(w)
           \/ IndexUpsert(w)
           \/ IndexUpsertFails(w)
    \/ Crash

Spec == Init /\ [][Next]_vars

-----------------------------------------------------------------------------
MemoryTypeOK ==
    /\ durable \in BOOLEAN
    /\ config \in Configs
    /\ phase \in {"down", "rebuilding", "serving"}
    /\ wired \in BOOLEAN
    /\ store \in [Memories -> Records \cup {Absent}]
    /\ index \in [Memories -> Entries \cup {NoEntry}]
    /\ todo \subseteq Memories
    /\ writer \in [Writers -> Writes \cup {Idle}]
    /\ clock \in 0 .. MaxWrites
    /\ held \in [Memories -> SUBSET Records]
    /\ loose \subseteq Memories

\* The entry of m is the one the store's record calls for.
InStep(m) ==
    index[m] = IF store[m] = Absent THEN NoEntry ELSE Entry(store[m], config.model)

\* An entry lags behind its record only for a reason: another write of the id at
\* the same time, a failed or missing index request, a promotion, a stop in the
\* middle, or a start with another embedding or with a fresh index.  A completed
\* rebuild and a write that ran alone leave no lag, so a second rebuild of the
\* same state has nothing to do (MemoryVectorIndexRebuilder.rebuild,
\* MemoryWriteStep._upsert_vector).
LagHasAReason ==
    \A m \in Memories : m \notin loose /\ Busy(m) = {} => InStep(m)

\* The index holds nothing the canonical store has not held before it: the
\* record is written first and the entry is made from the record that the store
\* returned (MemoryWriteStep.run).
EntriesWereStored ==
    \A m \in Memories : index[m].digest \in held[m] \cup {Absent}

\* A record keeps its creation time, whichever of two first writes of the id
\* read the store before the other wrote, and also when a promotion that was cut
\* off is repeated with a new time (SQLiteMemoryStore.update).
CreatedAtFixed ==
    [][\A m \in Memories : store[m] # Absent => store'[m].created = store[m].created]_vars
=============================================================================
