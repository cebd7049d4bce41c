---------------------------- MODULE StoresProofs ----------------------------
(***************************************************************************)
(* The vector index beside the memories, for any memories, writers,        *)
(* embeddings and bound, and the database file with its migrations and     *)
(* backups, for any processes and any files that a release left.           *)
(***************************************************************************)
EXTENDS MemoryIndex, StateDatabase, SetInduction

-----------------------------------------------------------------------------
(***************************************************************************)
(* The vector index beside the memories.                                   *)
(***************************************************************************)
Active(w) == writer[w].pc # "idle"

StoreHeld == \A m \in Memories : store[m] \in held[m] \cup {Absent}

QuietUnlessServing == phase # "serving" => \A w \in Writers : writer[w] = Idle

AloneIsAlone ==
    \A v, w \in Writers :
        v # w /\ Active(v) /\ Active(w) /\ writer[v].id = writer[w].id => ~writer[w].alone

WritesKnowTheRecord ==
    \A w \in Writers :
        /\ writer[w].pc \in {"get", "index"} => store[writer[w].id] # Absent
        /\ writer[w].pc = "index" =>
               /\ writer[w].rec \in held[writer[w].id]
               /\ writer[w].alone => writer[w].rec = store[writer[w].id]

RebuildOnCourse ==
    phase = "rebuilding" =>
        \A m \in Memories :
            IF m \in todo THEN store[m] # Absent
            ELSE store[m] # Absent => index[m] = Entry(store[m], config.model)

\* What is preserved beside the properties: where a write in flight stands and
\* what a running rebuild has left to do.
Support ==
    /\ StoreHeld
    /\ QuietUnlessServing
    /\ AloneIsAlone
    /\ WritesKnowTheRecord
    /\ RebuildOnCourse

MemoryInv == MemoryTypeOK /\ Support /\ EntriesWereStored /\ LagHasAReason

-----------------------------------------------------------------------------
\* The entries of an absent and of a present record are different things.
LEMMA RecordFacts ==
    /\ Absent \notin Records
    /\ NoEntry \notin Entries
    /\ \A r \in Records : r # Absent
    /\ \A r \in Records \cup {Absent}, k \in Models : Entry(r, k) \in Entries
    /\ \A r, s \in Records : [r EXCEPT !.created = s.created] \in Records
  BY NoneIsNoModel, MaxWritesAssumption DEF Absent, Records, NoEntry, Entries, Entry

\* What a write in progress has read and where it stands.
LEMMA WriteTyping ==
    ASSUME MemoryTypeOK, NEW w \in Writers, Active(w)
    PROVE  /\ writer[w] \in Writes
           /\ writer[w].pc \in {"update", "get", "index"}
           /\ writer[w].id \in Memories
           /\ writer[w].rec \in Records
           /\ writer[w].alone \in BOOLEAN
  <1>1. writer[w] \in Writes \cup {Idle}
    BY DEF MemoryTypeOK
  <1>2. writer[w] # Idle
    BY SMTT(30) DEF Active, Idle
  <1> QED BY <1>1, <1>2 DEF Writes

\* Every variable keeps to its type.
LEMMA TypeStep == MemoryTypeOK /\ Support /\ [Next]_vars => MemoryTypeOK'
  <1> SUFFICES ASSUME MemoryTypeOK, Support, [Next]_vars PROVE MemoryTypeOK'
    OBVIOUS
  <1> USE DEF MemoryTypeOK
  <1>i. Idle \in Writes \cup {Idle}
    OBVIOUS
  <1>1. ASSUME NEW c \in Configs, Start(c) PROVE MemoryTypeOK'
    BY <1>1 DEF Start, InheritedIndex, LooseAfterStart
  <1>2. ASSUME NEW c \in Configs, StartWithoutIndex(c) PROVE MemoryTypeOK'
    BY Zenon, <1>2 DEF StartWithoutIndex, InheritedIndex, LooseAfterStart
  <1>3. ASSUME NEW m \in Memories, RebuildUpsert(m) PROVE MemoryTypeOK'
    <2>1. Entry(store[m], config.model) \in Entries
      BY RecordFacts DEF Configs
    <2> QED BY <1>3, <2>1 DEF RebuildUpsert
  <1>4. ASSUME NEW m \in Memories, RebuildDelete(m) PROVE MemoryTypeOK'
    BY <1>4 DEF RebuildDelete
  <1>5. CASE RebuildDone
    BY <1>5 DEF RebuildDone
  <1>6. CASE RebuildFails
    BY Zenon, <1>6 DEF RebuildFails
  <1>7. ASSUME NEW w \in Writers, NEW m \in Memories, WriteBegin(w, m) PROVE MemoryTypeOK'
    <2>1. clock + 1 \in 1 .. MaxWrites /\ clock' \in 0 .. MaxWrites
      BY <1>7, MaxWritesAssumption DEF WriteBegin
    <2> DEFINE created == IF m \in TurnMemories /\ store[m] # Absent
                          THEN store[m].created ELSE clock + 1
               write == [pc |-> "update", id |-> m, alone |-> Busy(m) = {},
                         rec |-> [updated |-> clock + 1, created |-> created]]
    <2>2. created \in 1 .. MaxWrites
      BY <2>1 DEF Records
    <2>3. [updated |-> clock + 1, created |-> created] \in Records
      BY <2>1, <2>2 DEF Records
    <2>4. write \in Writes
      BY <2>3 DEF Writes
    <2>5. ASSUME NEW v \in Busy(m) PROVE [writer[v] EXCEPT !.alone = FALSE] \in Writes
      <3>1. v \in Writers /\ Active(v)
        BY DEF Busy, Active
      <3> QED BY Zenon, <3>1, WriteTyping DEF Writes
    <2>6. writer' = [v \in Writers |->
                        IF v = w THEN write
                        ELSE IF v \in Busy(m) THEN [writer[v] EXCEPT !.alone = FALSE]
                        ELSE writer[v]]
      BY <1>7 DEF WriteBegin
    <2> HIDE DEF write
    <2>7. writer' \in [Writers -> Writes \cup {Idle}]
      BY <2>4, <2>5, <2>6
    <2> QED BY Zenon, <1>7, <2>1, <2>7 DEF WriteBegin
  <1>8. ASSUME NEW w \in Writers, StoreUpsert(w) PROVE MemoryTypeOK'
    <2>1. Active(w)
      BY <1>8 DEF StoreUpsert, Active
    <2> DEFINE m == writer[w].id
               rec == Upserted(store[m], writer[w].rec)
    <2>2. m \in Memories /\ writer[w].rec \in Records /\ writer[w] \in Writes
      BY <2>1, WriteTyping
    <2>3. rec \in Records
      BY <2>2, RecordFacts DEF Upserted
    <2>4. [writer[w] EXCEPT !.pc = "get"] \in Writes
      BY <2>2 DEF Writes
    <2>5. /\ store' = [store EXCEPT ![m] = rec]
          /\ held' = [held EXCEPT ![m] = @ \cup {rec}]
          /\ writer' = [writer EXCEPT ![w] = [writer[w] EXCEPT !.pc = "get"]]
      BY <1>8 DEF StoreUpsert
    <2> HIDE DEF m, rec
    <2>6. store' \in [Memories -> Records \cup {Absent}]
      BY <2>2, <2>3, <2>5
    <2>7. held' \in [Memories -> SUBSET Records]
      BY <2>2, <2>3, <2>5
    <2>8. writer' \in [Writers -> Writes \cup {Idle}]
      BY <2>4, <2>5
    <2> QED BY <1>8, <2>6, <2>7, <2>8 DEF StoreUpsert
  <1>9. ASSUME NEW w \in Writers, ReadBack(w) PROVE MemoryTypeOK'
    <2>1. Active(w)
      BY <1>9 DEF ReadBack, Active
    <2>2. writer[w].id \in Memories /\ writer[w] \in Writes
      BY <2>1, WriteTyping
    <2>3. store[writer[w].id] \in Records
      BY <1>9, <2>2 DEF ReadBack, Support, WritesKnowTheRecord
    <2>4. [[writer[w] EXCEPT !.pc = "index"] EXCEPT !.rec = store[writer[w].id]] \in Writes
      BY Zenon, <2>2, <2>3 DEF Writes
    <2>5. writer' \in [Writers -> Writes \cup {Idle}]
      BY <1>9, <2>4 DEF ReadBack
    <2> QED BY <1>9, <2>5 DEF ReadBack
  <1>10. ASSUME NEW w \in Writers, EndsWithoutEntry(w) PROVE MemoryTypeOK'
    <2>1. Active(w)
      BY <1>10 DEF EndsWithoutEntry, Active
    <2> QED BY <1>10, <1>i, <2>1, WriteTyping DEF EndsWithoutEntry
  <1>11. ASSUME NEW w \in Writers, IndexUpsert(w) PROVE MemoryTypeOK'
    <2>1. Active(w)
      BY <1>11 DEF IndexUpsert, Active
    <2>2. writer[w].id \in Memories /\ Entry(writer[w].rec, config.model) \in Entries
      BY RecordFacts, <2>1, WriteTyping DEF Configs
    <2> QED BY <1>11, <1>i, <2>2 DEF IndexUpsert
  <1>12. ASSUME NEW w \in Writers, IndexUpsertFails(w) PROVE MemoryTypeOK'
    <2>1. Active(w)
      BY <1>12 DEF IndexUpsertFails, Active
    <2>2. writer[w].id \in Memories /\ Entry(writer[w].rec, config.model) \in Entries
      BY RecordFacts, <2>1, WriteTyping DEF Configs
    <2> QED BY <1>12, <1>i, <2>2 DEF IndexUpsertFails
  <1>13. CASE Crash
    BY Zenon, <1>13, <1>i DEF Crash
  <1>14. CASE UNCHANGED vars
    BY <1>14 DEF vars
  <1> QED BY SMTT(30), <1>1, <1>2, <1>3, <1>4, <1>5, <1>6, <1>7, <1>8, <1>9, <1>10, <1>11, <1>12,
             <1>13, <1>14 DEF Next

-----------------------------------------------------------------------------
\* A writer that leaves changes nothing for the others.
LEMMA LeaveKeepsSupport ==
    ASSUME MemoryTypeOK, Support, NEW w \in Writers, Active(w),
           writer' = [writer EXCEPT ![w] = Idle],
           UNCHANGED <<config, phase, store, todo, held>>
    PROVE  Support'
  <1>0. phase = "serving"
    BY DEF Support, QuietUnlessServing, Active, Idle
  <1>1. \A v \in Writers : IF v = w THEN writer'[v] = Idle ELSE writer'[v] = writer[v]
    BY DEF MemoryTypeOK
  <1>2. \A v \in Writers : Active(v)' => v # w /\ writer'[v] = writer[v] /\ Active(v)
    BY <1>1 DEF Active, Idle
  <1>3. StoreHeld'
    BY DEF Support, StoreHeld
  <1>4. QuietUnlessServing'
    BY <1>0 DEF QuietUnlessServing
  <1>5. AloneIsAlone'
    BY <1>2 DEF Support, AloneIsAlone
  <1>6. WritesKnowTheRecord'
    BY <1>2 DEF Support, WritesKnowTheRecord, Active
  <1>7. RebuildOnCourse'
    BY SMTT(30), <1>0 DEF RebuildOnCourse
  <1> QED BY <1>3, <1>4, <1>5, <1>6, <1>7 DEF Support

\* A step keeps what the writers, the rebuild and the store know of each other.
LEMMA SupportStep == MemoryTypeOK /\ Support /\ [Next]_vars => Support'
  <1> SUFFICES ASSUME MemoryTypeOK, Support, [Next]_vars PROVE Support'
    OBVIOUS
  <1> USE DEF Support
  <1>1. ASSUME NEW c \in Configs, Start(c) PROVE Support'
    <2>0. \A w \in Writers : writer'[w] = Idle
      BY <1>1 DEF Start, QuietUnlessServing
    <2>i. Idle.pc = "idle"
      BY DEF Idle
    <2>1. \A w \in Writers : writer'[w].pc = "idle"
      BY <2>0, <2>i
    <2>2. RebuildOnCourse'
      <3>1. CASE c.rebuild
        <4> SUFFICES ASSUME NEW m \in Memories
                     PROVE  IF m \in todo' THEN store'[m] # Absent
                            ELSE store'[m] # Absent => index'[m] = Entry(store'[m], config'.model)
          BY DEF RebuildOnCourse
        <4>1. m \in todo' <=> NeedsSync(m, InheritedIndex[m], c.model)
          BY <1>1, <3>1 DEF Start
        <4>2. index'[m] = InheritedIndex[m] /\ store'[m] = store[m] /\ config'.model = c.model
          BY <1>1 DEF Start
        <4>3. InheritedIndex[m] \in Entries \cup {NoEntry}
          BY DEF InheritedIndex, MemoryTypeOK
        <4> QED BY <4>1, <4>2, <4>3 DEF NeedsSync, Entry, Entries
      <3>2. CASE ~c.rebuild
        BY <1>1, <3>2 DEF Start, RebuildOnCourse
      <3> QED BY <3>1, <3>2
    <2>3. QuietUnlessServing' /\ AloneIsAlone' /\ WritesKnowTheRecord'
      BY SMTT(30), <2>0, <2>1 DEF QuietUnlessServing, AloneIsAlone, WritesKnowTheRecord, Active
    <2> QED BY <1>1, <2>2, <2>3 DEF Start, StoreHeld
  <1>2. ASSUME NEW c \in Configs, StartWithoutIndex(c) PROVE Support'
    BY SMTT(30), <1>2 DEF StartWithoutIndex, StoreHeld, QuietUnlessServing, AloneIsAlone,
                WritesKnowTheRecord, RebuildOnCourse, Active
  <1>3. ASSUME NEW m \in Memories, RebuildUpsert(m) PROVE Support'
    <2>1. RebuildOnCourse'
      BY <1>3 DEF RebuildUpsert, RebuildOnCourse, MemoryTypeOK
    <2> QED BY <1>3, <2>1 DEF RebuildUpsert, StoreHeld, QuietUnlessServing, AloneIsAlone,
                              WritesKnowTheRecord, Active
  <1>4. ASSUME NEW m \in Memories, RebuildDelete(m) PROVE Support'
    <2>1. RebuildOnCourse'
      BY SMTT(30), <1>4 DEF RebuildDelete, RebuildOnCourse, MemoryTypeOK, Orphans
    <2> QED BY <1>4, <2>1 DEF RebuildDelete, StoreHeld, QuietUnlessServing, AloneIsAlone,
                              WritesKnowTheRecord, Active
  <1>5. CASE RebuildDone
    BY <1>5 DEF RebuildDone, StoreHeld, QuietUnlessServing, AloneIsAlone,
                WritesKnowTheRecord, RebuildOnCourse, Active
  <1>6. CASE RebuildFails
    BY <1>6 DEF RebuildFails, StoreHeld, QuietUnlessServing, AloneIsAlone,
                WritesKnowTheRecord, RebuildOnCourse, Active
  <1>7. ASSUME NEW w \in Writers, NEW m \in Memories, WriteBegin(w, m) PROVE Support'
    <2>1. /\ writer'[w].pc = "update" /\ writer'[w].id = m
          /\ writer'[w].alone = (Busy(m) = {})
      BY <1>7 DEF WriteBegin
    <2>2. ASSUME NEW v \in Writers, v # w
          PROVE  /\ writer'[v].pc = writer[v].pc
                 /\ Active(v) => writer'[v].id = writer[v].id /\ writer'[v].rec = writer[v].rec
                 /\ Active(v) /\ writer[v].id = m => writer'[v].alone = FALSE
                 /\ Active(v) /\ writer[v].id # m => writer'[v].alone = writer[v].alone
      <3>1. CASE v \in Busy(m)
        <4>1. Active(v) /\ writer[v].id = m
          BY <3>1 DEF Busy, Active
        <4>2. writer'[v] = [writer[v] EXCEPT !.alone = FALSE]
          BY <1>7, <2>2, <3>1 DEF WriteBegin
        <4> QED BY <4>1, <4>2, WriteTyping DEF Writes
      <3>2. CASE v \notin Busy(m)
        BY Zenon, <1>7, <2>2, <3>2 DEF WriteBegin, Busy, Active
      <3> QED BY Zenon, <3>1, <3>2
    <2>3. AloneIsAlone'
      <3> SUFFICES ASSUME NEW u \in Writers, NEW v \in Writers, u # v, Active(u)', Active(v)',
                          writer'[u].id = writer'[v].id
                   PROVE  ~writer'[v].alone
        BY DEF AloneIsAlone
      <3>1. CASE u # w /\ v # w
        <4>1. Active(u) /\ Active(v) /\ writer[u].id = writer[v].id
          BY Zenon, <2>2, <3>1 DEF Active
        <4>2. writer'[v].alone = FALSE \/ writer'[v].alone = writer[v].alone
          BY Zenon, <2>2, <3>1, <4>1
        <4> QED BY <4>1, <4>2 DEF AloneIsAlone
      <3>2. CASE u = w
        BY Zenon, <2>1, <2>2, <3>2 DEF Active
      <3>3. CASE v = w
        <4>1. Active(u) /\ writer[u].id = m
          BY Zenon, <2>1, <2>2, <3>3 DEF Active
        <4> QED BY Zenon, <2>1, <3>3, <4>1 DEF Busy, Active
      <3> QED BY <3>1, <3>2, <3>3
    <2>4. WritesKnowTheRecord'
      <3> SUFFICES ASSUME NEW v \in Writers, writer'[v].pc \in {"get", "index"}
                   PROVE  /\ store'[writer'[v].id] # Absent
                          /\ writer'[v].pc = "index" =>
                                 /\ writer'[v].rec \in held'[writer'[v].id]
                                 /\ writer'[v].alone => writer'[v].rec = store'[writer'[v].id]
        BY DEF WritesKnowTheRecord
      <3>1. v # w /\ Active(v) /\ writer[v].pc = writer'[v].pc
        BY Zenon, <2>1, <2>2 DEF Active
      <3>2. writer'[v].id = writer[v].id /\ writer'[v].rec = writer[v].rec
        BY Zenon, <2>2, <3>1
      <3>3. writer'[v].alone => writer[v].alone
        BY Zenon, <2>2, <3>1
      <3>4. store' = store /\ held' = held
        BY <1>7 DEF WriteBegin
      <3> QED BY SMTT(30), <3>1, <3>2, <3>3, <3>4 DEF WritesKnowTheRecord
    <2> QED BY <1>7, <2>3, <2>4 DEF WriteBegin, StoreHeld, QuietUnlessServing, RebuildOnCourse
  <1>8. ASSUME NEW w \in Writers, StoreUpsert(w) PROVE Support'
    <2> DEFINE m == writer[w].id
               rec == Upserted(store[m], writer[w].rec)
    <2>0. Active(w) /\ phase = "serving"
      BY <1>8 DEF StoreUpsert, Active, QuietUnlessServing, Idle
    <2>1. m \in Memories /\ writer[w].rec \in Records /\ writer[w] \in Writes
      BY <2>0, WriteTyping
    <2>2. rec \in Records /\ rec # Absent
      BY <2>1, RecordFacts DEF Upserted, MemoryTypeOK
    <2>3. /\ store' = [store EXCEPT ![m] = rec]
          /\ held' = [held EXCEPT ![m] = @ \cup {rec}]
          /\ phase' = phase
      BY <1>8 DEF StoreUpsert
    <2>4. writer'[w].pc = "get" /\ writer'[w].id = m /\ writer'[w].alone = writer[w].alone
      BY <1>8, <2>1 DEF StoreUpsert, MemoryTypeOK, Writes
    <2>5. \A v \in Writers : v # w => writer'[v] = writer[v]
      BY <1>8 DEF StoreUpsert, MemoryTypeOK
    <2> HIDE DEF m, rec
    <2>6. StoreHeld'
      BY <2>1, <2>2, <2>3 DEF StoreHeld, MemoryTypeOK
    <2>7. AloneIsAlone'
      BY <2>0, <2>4, <2>5 DEF AloneIsAlone, Active, m
    <2>8. WritesKnowTheRecord'
      <3> SUFFICES ASSUME NEW v \in Writers, writer'[v].pc \in {"get", "index"}
                   PROVE  /\ store'[writer'[v].id] # Absent
                          /\ writer'[v].pc = "index" =>
                                 /\ writer'[v].rec \in held'[writer'[v].id]
                                 /\ writer'[v].alone => writer'[v].rec = store'[writer'[v].id]
        BY SMTT(30) DEF WritesKnowTheRecord
      <3>1. CASE v = w
        BY SMTT(30), <2>1, <2>2, <2>3, <2>4, <3>1 DEF MemoryTypeOK
      <3>2. CASE v # w
        <4>1. writer'[v] = writer[v] /\ Active(v) /\ writer[v].id \in Memories
          BY <2>5, <3>2, WriteTyping DEF Active
        <4>2. writer[v].alone => writer[v].id # m
          BY <2>0, <3>2, <4>1 DEF AloneIsAlone, m
        <4> QED BY SMTT(30), <2>1, <2>2, <2>3, <4>1, <4>2 DEF WritesKnowTheRecord, MemoryTypeOK
      <3> QED BY SMTT(30), <3>1, <3>2
    <2> QED BY <2>0, <2>3, <2>6, <2>7, <2>8 DEF QuietUnlessServing, RebuildOnCourse
  <1>9. ASSUME NEW w \in Writers, ReadBack(w) PROVE Support'
    <2>0. Active(w) /\ phase = "serving"
      BY <1>9 DEF ReadBack, Active, QuietUnlessServing, Idle
    <2>1. writer[w].id \in Memories /\ writer[w] \in Writes
      BY <2>0, WriteTyping
    <2>2. /\ writer'[w].pc = "index" /\ writer'[w].id = writer[w].id
          /\ writer'[w].alone = writer[w].alone
          /\ writer'[w].rec = store[writer[w].id]
      BY <1>9, <2>1 DEF ReadBack, MemoryTypeOK, Writes
    <2>3. \A v \in Writers : v # w => writer'[v] = writer[v]
      BY <1>9 DEF ReadBack, MemoryTypeOK
    <2>4. AloneIsAlone'
      BY <2>0, <2>2, <2>3 DEF AloneIsAlone, Active
    <2>5. store[writer[w].id] # Absent /\ store[writer[w].id] \in held[writer[w].id]
      BY <1>9, <2>1 DEF ReadBack, WritesKnowTheRecord, StoreHeld
    <2>6. store' = store /\ held' = held
      BY <1>9 DEF ReadBack
    <2>7. WritesKnowTheRecord'
      <3> SUFFICES ASSUME NEW v \in Writers, writer'[v].pc \in {"get", "index"}
                   PROVE  /\ store'[writer'[v].id] # Absent
                          /\ writer'[v].pc = "index" =>
                                 /\ writer'[v].rec \in held'[writer'[v].id]
                                 /\ writer'[v].alone => writer'[v].rec = store'[writer'[v].id]
        BY DEF WritesKnowTheRecord
      <3>1. CASE v = w
        BY <2>2, <2>5, <2>6, <3>1
      <3>2. CASE v # w
        BY <2>3, <2>6, <3>2 DEF WritesKnowTheRecord
      <3> QED BY SMTT(30), <3>1, <3>2
    <2> QED BY <1>9, <2>0, <2>4, <2>7 DEF ReadBack, StoreHeld, QuietUnlessServing, RebuildOnCourse
  <1>10. ASSUME NEW w \in Writers, EndsWithoutEntry(w) PROVE Support'
    BY Zenon, <1>10, LeaveKeepsSupport DEF EndsWithoutEntry, Active
  <1>11. ASSUME NEW w \in Writers, IndexUpsert(w) PROVE Support'
    BY Zenon, <1>11, LeaveKeepsSupport DEF IndexUpsert, Active
  <1>12. ASSUME NEW w \in Writers, IndexUpsertFails(w) PROVE Support'
    BY Zenon, <1>12, LeaveKeepsSupport DEF IndexUpsertFails, Active
  <1>13. CASE Crash
    BY SMTT(30), <1>13 DEF Crash, StoreHeld, QuietUnlessServing, AloneIsAlone,
                 WritesKnowTheRecord, RebuildOnCourse, Active, Idle
  <1>14. CASE UNCHANGED vars
    BY <1>14 DEF vars, StoreHeld, QuietUnlessServing, AloneIsAlone,
                 WritesKnowTheRecord, RebuildOnCourse, Active
  <1> QED BY SMTT(30), <1>1, <1>2, <1>3, <1>4, <1>5, <1>6, <1>7, <1>8, <1>9, <1>10, <1>11, <1>12,
             <1>13, <1>14 DEF Next

-----------------------------------------------------------------------------
\* Only IndexUpsert, IndexUpsertFails and the rebuild write entries, and what they
\* write the store has held.
LEMMA EntriesStep == MemoryTypeOK /\ Support /\ EntriesWereStored /\ [Next]_vars
                     => EntriesWereStored'
  <1> SUFFICES ASSUME MemoryTypeOK, Support, EntriesWereStored, [Next]_vars
               PROVE  EntriesWereStored'
    OBVIOUS
  <1> USE DEF MemoryTypeOK, EntriesWereStored
  <1>e. \A r, k : Entry(r, k).digest = r
    BY DEF Entry
  <1>n. NoEntry.digest = Absent
    BY DEF NoEntry
  <1>1. ASSUME NEW c \in Configs, Start(c) PROVE EntriesWereStored'
    BY <1>1, <1>n DEF Start, InheritedIndex
  <1>2. ASSUME NEW c \in Configs, StartWithoutIndex(c) PROVE EntriesWereStored'
    BY <1>2, <1>n DEF StartWithoutIndex, InheritedIndex
  <1>3. ASSUME NEW m \in Memories, RebuildUpsert(m) PROVE EntriesWereStored'
    BY <1>3, <1>e DEF RebuildUpsert, Support, StoreHeld
  <1>4. ASSUME NEW m \in Memories, RebuildDelete(m) PROVE EntriesWereStored'
    BY <1>4, <1>n DEF RebuildDelete
  <1>5. CASE RebuildDone \/ RebuildFails \/ Crash
    BY <1>5 DEF RebuildDone, RebuildFails, Crash
  <1>6. ASSUME NEW w \in Writers, NEW m \in Memories, WriteBegin(w, m) PROVE EntriesWereStored'
    BY SMTT(30), <1>6 DEF WriteBegin
  <1>7. ASSUME NEW w \in Writers, StoreUpsert(w) PROVE EntriesWereStored'
    <2>1. index' = index /\ \A m \in Memories : held[m] \subseteq held'[m]
      BY <1>7 DEF StoreUpsert
    <2> QED BY <2>1
  <1>8. ASSUME NEW w \in Writers, ReadBack(w) \/ EndsWithoutEntry(w) PROVE EntriesWereStored'
    BY SMTT(30), <1>8 DEF ReadBack, EndsWithoutEntry
  <1>9. ASSUME NEW w \in Writers, IndexUpsert(w) \/ IndexUpsertFails(w) PROVE EntriesWereStored'
    <2>1. writer[w].rec \in held[writer[w].id]
      BY SMTT(30), <1>9 DEF IndexUpsert, IndexUpsertFails, Support, WritesKnowTheRecord
    <2>2. \/ index' = index
          \/ index' = [index EXCEPT ![writer[w].id] = Entry(writer[w].rec, config.model)]
      BY <1>9 DEF IndexUpsert, IndexUpsertFails
    <2>3. held' = held
      BY <1>9 DEF IndexUpsert, IndexUpsertFails
    <2> QED BY SMTT(30), <2>1, <2>2, <2>3, <1>e
  <1>10. CASE UNCHANGED vars
    BY <1>10 DEF vars
  <1> QED BY Zenon, <1>1, <1>2, <1>3, <1>4, <1>5, <1>6, <1>7, <1>8, <1>9, <1>10 DEF Next

\* An id that nobody writes after a write of another id left had no writer before.
LEMMA OthersNotBusy ==
    ASSUME NEW w \in Writers, NEW m \in Memories, m # writer[w].id,
           \A v \in Writers : v # w => writer'[v] = writer[v], Busy(m)' = {}
    PROVE  Busy(m) = {}
  <1> SUFFICES ASSUME NEW v \in Busy(m) PROVE FALSE
    OBVIOUS
  <1>1. v \in Writers /\ v # w /\ writer[v].pc # "idle" /\ writer[v].id = m
    BY DEF Busy
  <1>2. writer'[v] = writer[v]
    BY <1>1
  <1>3. v \in Busy(m)'
    BY <1>1, <1>2 DEF Busy
  <1> QED BY <1>3

\* A write that leaves without an entry, or with one that may be old, marks its id.
LEMMA LagAfterLeaving ==
    ASSUME MemoryTypeOK, LagHasAReason, NEW w \in Writers, Active(w),
           writer' = [writer EXCEPT ![w] = Idle],
           UNCHANGED <<config, store>>,
           \A m \in Memories : m # writer[w].id => index'[m] = index[m],
           loose' = loose \cup {writer[w].id}
    PROVE  LagHasAReason'
  <1> SUFFICES ASSUME NEW m \in Memories, m \notin loose', Busy(m)' = {}
               PROVE  InStep(m)'
    BY SMTT(30) DEF LagHasAReason
  <1>1. m # writer[w].id /\ m \notin loose
    BY SMTT(30)
  <1>2. \A v \in Writers : v # w => writer'[v] = writer[v]
    BY SMTT(30) DEF MemoryTypeOK
  <1>3. Busy(m) = {}
    BY SMTT(30), <1>1, <1>2, OthersNotBusy
  <1>4. InStep(m)
    BY SMTT(30), <1>1, <1>3 DEF LagHasAReason
  <1> QED BY SMTT(30), <1>1, <1>4 DEF InStep

\* A step leaves an entry behind its record only for a named reason.
LEMMA LagStep == MemoryTypeOK /\ Support /\ LagHasAReason /\ [Next]_vars => LagHasAReason'
  <1> SUFFICES ASSUME MemoryTypeOK, Support, LagHasAReason, [Next]_vars
               PROVE  LagHasAReason'
    BY SMTT(30)
  <1> USE DEF LagHasAReason
  <1>1. ASSUME NEW c \in Configs, Start(c) PROVE LagHasAReason'
    BY <1>1 DEF Start, InheritedIndex, LooseAfterStart, InStep, Busy
  <1>2. ASSUME NEW c \in Configs, StartWithoutIndex(c) PROVE LagHasAReason'
    BY SMTT(30), <1>2 DEF StartWithoutIndex, InheritedIndex, LooseAfterStart, InStep, Busy
  <1>3. ASSUME NEW m \in Memories, RebuildUpsert(m) PROVE LagHasAReason'
    <2>1. store[m] # Absent /\ index'[m] = Entry(store[m], config.model)
      BY <1>3 DEF RebuildUpsert, Support, RebuildOnCourse, MemoryTypeOK
    <2>2. \A n \in Memories : n # m => index'[n] = index[n]
      BY SMTT(30), <1>3 DEF RebuildUpsert
    <2> QED BY SMTT(30), <1>3, <2>1, <2>2 DEF RebuildUpsert, InStep, Busy
  <1>4. ASSUME NEW m \in Memories, RebuildDelete(m) PROVE LagHasAReason'
    <2>1. store[m] = Absent /\ index'[m] = NoEntry
      BY <1>4 DEF RebuildDelete, Orphans, MemoryTypeOK
    <2>2. \A n \in Memories : n # m => index'[n] = index[n]
      BY SMTT(30), <1>4 DEF RebuildDelete
    <2> QED BY <1>4, <2>1, <2>2 DEF RebuildDelete, InStep, Busy
  <1>5. CASE RebuildDone
    <2>1. \A m \in Memories : InStep(m)
      BY <1>5 DEF RebuildDone, Orphans, Support, RebuildOnCourse, InStep
    <2> QED BY SMTT(30), <1>5, <2>1 DEF RebuildDone, InStep
  <1>6. CASE RebuildFails
    BY <1>6 DEF RebuildFails, InStep, Busy
  <1>7. ASSUME NEW w \in Writers, NEW m \in Memories, WriteBegin(w, m) PROVE LagHasAReason'
    <2>1. ASSUME NEW n \in Memories, Busy(n)' = {} PROVE Busy(n) = {}
      <3>1. \A v \in Writers : v # w /\ Active(v) =>
                writer'[v].pc = writer[v].pc /\ writer'[v].id = writer[v].id
        <4> SUFFICES ASSUME NEW v \in Writers, v # w, Active(v)
                     PROVE  writer'[v].pc = writer[v].pc /\ writer'[v].id = writer[v].id
          OBVIOUS
        <4>1. writer[v] \in Writes
          BY WriteTyping
        <4>2. writer'[v] = writer[v] \/ writer'[v] = [writer[v] EXCEPT !.alone = FALSE]
          BY <1>7 DEF WriteBegin
        <4> QED BY SMTT(30), <4>1, <4>2 DEF Writes
      <3>2. writer[w].pc = "idle"
        BY <1>7 DEF WriteBegin
      <3> QED BY <2>1, <3>1, <3>2 DEF Busy, Active
    <2> QED BY <1>7, <2>1 DEF WriteBegin, InStep
  <1>8. ASSUME NEW w \in Writers, StoreUpsert(w) PROVE LagHasAReason'
    <2>1. Active(w)
      BY <1>8 DEF StoreUpsert, Active
    <2>2. writer[w].id \in Memories /\ writer[w] \in Writes
      BY <2>1, WriteTyping
    <2>3. writer'[w].pc = "get" /\ writer'[w].id = writer[w].id
      BY <1>8, <2>2 DEF StoreUpsert, MemoryTypeOK, Writes
    <2>4. \A v \in Writers : v # w => writer'[v] = writer[v]
      BY <1>8 DEF StoreUpsert, MemoryTypeOK
    <2>5. ASSUME NEW m \in Memories, Busy(m)' = {}
          PROVE  m # writer[w].id /\ Busy(m) = {}
      BY <2>1, <2>3, <2>4, <2>5 DEF Busy
    <2>6. \A m \in Memories : m # writer[w].id => store'[m] = store[m]
      BY <1>8 DEF StoreUpsert, MemoryTypeOK
    <2> QED BY <1>8, <2>5, <2>6 DEF StoreUpsert, InStep
  <1>9. ASSUME NEW w \in Writers, ReadBack(w) PROVE LagHasAReason'
    <2>1. Active(w)
      BY <1>9 DEF ReadBack, Active
    <2>2. writer[w].id \in Memories /\ writer[w] \in Writes
      BY <2>1, WriteTyping
    <2>3. writer'[w].pc = "index" /\ writer'[w].id = writer[w].id
      BY <1>9, <2>2 DEF ReadBack, MemoryTypeOK, Writes
    <2>4. \A v \in Writers : v # w => writer'[v] = writer[v]
      BY <1>9 DEF ReadBack, MemoryTypeOK
    <2>5. ASSUME NEW m \in Memories, Busy(m)' = {} PROVE Busy(m) = {}
      BY <2>1, <2>3, <2>4, <2>5 DEF Busy
    <2> QED BY <1>9, <2>5 DEF ReadBack, InStep
  <1>10. ASSUME NEW w \in Writers, EndsWithoutEntry(w) PROVE LagHasAReason'
    BY Zenon, <1>10, LagAfterLeaving DEF EndsWithoutEntry, Active
  <1>11. ASSUME NEW w \in Writers, IndexUpsert(w) PROVE LagHasAReason'
    <2>0. Active(w)
      BY SMTT(30), <1>11 DEF IndexUpsert, Active
    <2>1. writer[w].id \in Memories
      BY SMTT(30), <2>0, WriteTyping
    <2>2. /\ writer' = [writer EXCEPT ![w] = Idle]
          /\ store' = store /\ config' = config
          /\ index' = [index EXCEPT ![writer[w].id] = Entry(writer[w].rec, config.model)]
      BY <1>11 DEF IndexUpsert
    <2>3. \A m \in Memories : m # writer[w].id => index'[m] = index[m]
      BY <2>2
    <2>4. CASE ~writer[w].alone
      BY Zenon, <1>11, <2>0, <2>2, <2>3, <2>4, LagAfterLeaving DEF IndexUpsert
    <2>5. CASE writer[w].alone
      <3> SUFFICES ASSUME NEW m \in Memories, m \notin loose', Busy(m)' = {}
                   PROVE  InStep(m)'
        BY SMTT(30)
      <3>1. CASE m = writer[w].id
        <4>1. store[m] # Absent /\ writer[w].rec = store[m]
          BY SMTT(30), <1>11, <2>5, <3>1 DEF IndexUpsert, Support, WritesKnowTheRecord
        <4>2. index'[m] = Entry(store[m], config.model)
          BY SMTT(30), <2>1, <2>2, <3>1, <4>1 DEF MemoryTypeOK
        <4> QED BY SMTT(30), <2>2, <4>1, <4>2 DEF InStep
      <3>2. CASE m # writer[w].id
        <4>1. m \notin loose
          BY SMTT(30), <1>11, <2>5, <3>2 DEF IndexUpsert
        <4>2. \A v \in Writers : v # w => writer'[v] = writer[v]
          BY SMTT(30), <2>2 DEF MemoryTypeOK
        <4>3. Busy(m) = {}
          BY <3>2, <4>2, OthersNotBusy
        <4> QED BY SMTT(30), <2>2, <2>3, <3>2, <4>1, <4>3 DEF InStep
      <3> QED BY <3>1, <3>2
    <2> QED BY SMTT(30), <2>4, <2>5
  <1>12. ASSUME NEW w \in Writers, IndexUpsertFails(w) PROVE LagHasAReason'
    <2>1. Active(w)
      BY <1>12 DEF IndexUpsertFails, Active
    <2>2. \A m \in Memories : m # writer[w].id => index'[m] = index[m]
      BY SMTT(30), <1>12 DEF IndexUpsertFails, MemoryTypeOK
    <2> QED BY Zenon, <1>12, <2>1, <2>2, LagAfterLeaving DEF IndexUpsertFails
  <1>13. CASE Crash
    BY SMTT(30), <1>13 DEF Crash, InStep
  <1>14. CASE UNCHANGED vars
    BY <1>14 DEF vars, InStep, Busy
  <1> QED BY SMTT(30), <1>1, <1>2, <1>3, <1>4, <1>5, <1>6, <1>7, <1>8, <1>9, <1>10, <1>11, <1>12,
             <1>13, <1>14 DEF Next

-----------------------------------------------------------------------------
\* At the start nothing is stored and nothing is being written.
LEMMA InitInv == Init => MemoryInv
  <1> SUFFICES ASSUME Init PROVE MemoryInv
    OBVIOUS
  <1>i. Idle.pc = "idle" /\ Idle \in Writes \cup {Idle}
    BY DEF Idle
  <1>e. \A k \in Models : Entry(Absent, k) \in Entries /\ Entry(Absent, k).digest = Absent
    BY DEF Entries, Entry
  <1>n. NoEntry.digest = Absent
    BY DEF NoEntry
  <1>1. MemoryTypeOK
    <2>1. index \in [Memories -> Entries \cup {NoEntry}]
      BY <1>e DEF Init
    <2>2. writer \in [Writers -> Writes \cup {Idle}]
      BY <1>i DEF Init
    <2>3. clock \in 0 .. MaxWrites
      BY MaxWritesAssumption DEF Init
    <2> QED BY Zenon, <2>1, <2>2, <2>3 DEF Init, MemoryTypeOK
  <1>2. Support
    BY SMTT(30), <1>i DEF Init, Support, StoreHeld, QuietUnlessServing, AloneIsAlone,
                WritesKnowTheRecord, RebuildOnCourse, Active
  <1>3. EntriesWereStored
    BY <1>e, <1>n DEF Init, EntriesWereStored
  <1>4. LagHasAReason
    BY DEF Init, LagHasAReason
  <1> QED BY <1>1, <1>2, <1>3, <1>4 DEF MemoryInv

\* The invariant of the index holds in every behaviour.
LEMMA InvHolds == Spec => []MemoryInv
  <1>1. Init => MemoryInv
    BY InitInv
  <1>2. MemoryInv /\ [Next]_vars => MemoryInv'
    BY TypeStep, SupportStep, EntriesStep, LagStep DEF MemoryInv
  <1> QED BY <1>1, <1>2, PTL DEF Spec

\* Every variable of the model keeps to its type, whatever the interleaving of
\* turns, promotions, rebuilds and restarts.
THEOREM MemoryTyped == Spec => []MemoryTypeOK
  <1>1. MemoryInv => MemoryTypeOK
    BY DEF MemoryInv
  <1> QED BY <1>1, InvHolds, PTL

\* An index entry lags behind its record only for one of the named reasons: a
\* completed rebuild (MemoryVectorIndexRebuilder.rebuild) and a write that met no
\* other (MemoryWriteStep) leave record and entry in step.
THEOREM LagExplained == Spec => []LagHasAReason
  <1>1. MemoryInv => LagHasAReason
    BY DEF MemoryInv
  <1> QED BY <1>1, InvHolds, PTL

\* No entry is made from a record that the canonical store has not held
\* (MemoryWriteStep.run writes the record first and uses what the store returns).
THEOREM EntriesComeFromRecords == Spec => []EntriesWereStored
  <1>1. MemoryInv => EntriesWereStored
    BY DEF MemoryInv
  <1> QED BY <1>1, InvHolds, PTL

\* No write changes the creation time of a stored record (SQLiteMemoryStore.update
\* leaves created_at out of its ON CONFLICT list).
THEOREM CreationTimesStand == Spec => CreatedAtFixed
  <1>1. ASSUME MemoryInv, [Next]_vars, NEW m \in Memories, store[m] # Absent
        PROVE  store'[m].created = store[m].created
    <2>1. CASE \E w \in Writers : StoreUpsert(w)
      <3>1. PICK w \in Writers : StoreUpsert(w)
        BY <2>1
      <3>2. Active(w) /\ MemoryTypeOK
        BY <1>1, <3>1 DEF StoreUpsert, Active, MemoryInv
      <3>3. writer[w].rec \in Records
        BY <3>2, WriteTyping
      <3>4. store' = [store EXCEPT ![writer[w].id] =
                         Upserted(store[writer[w].id], writer[w].rec)]
        BY <3>1 DEF StoreUpsert
      <3>5. CASE writer[w].id = m
        <4>1. store'[m] = [writer[w].rec EXCEPT !.created = store[m].created]
          BY SMTT(30), <1>1, <3>2, <3>4, <3>5 DEF Upserted, MemoryTypeOK
        <4> QED BY <3>3, <4>1 DEF Records
      <3>6. CASE writer[w].id # m
        BY <3>2, <3>4, <3>6 DEF MemoryTypeOK
      <3> QED BY <3>5, <3>6
    <2>2. CASE ~\E w \in Writers : StoreUpsert(w)
      <3>1. store' = store
        BY Zenon, <1>1, <2>2 DEF Next, vars, Start, StartWithoutIndex, RebuildUpsert, RebuildDelete,
           RebuildDone, RebuildFails, WriteBegin, ReadBack, EndsWithoutEntry, IndexUpsert,
           IndexUpsertFails, Crash
      <3> QED BY <3>1
    <2> QED BY <2>1, <2>2
  <1>2. MemoryInv /\ [Next]_vars =>
          [\A m \in Memories : store[m] # Absent => store'[m].created = store[m].created]_vars
    BY <1>1
  <1> QED BY <1>2, InvHolds, PTL DEF Spec, CreatedAtFixed

-----------------------------------------------------------------------------
(***************************************************************************)
(* The database file.  A version that a process has read may be old when it *)
(* migrates: the invariant says what any file on disk is like, and that a  *)
(* process that has the file open has it at the current version.           *)
(***************************************************************************)
\* restore_backup: what lies at the path after a restore is the content the manifest
\* has the checksum of, whatever happened to the copy and whichever process died.
THEOREM RestoreIsFaithful == DatabaseSpec => []RestoredIsBackup
  <1> DEFINE I == /\ restore # "idle" =>
                       (\A p \in Openers : opener[p].pc = "down") /\ backupFile = manifest
                  /\ restore = "restored" => file = manifest
  <1>1. DatabaseInit => I
    BY SMTT(30) DEF DatabaseInit
  <1>2. I /\ [DatabaseNext]_databaseVars => I'
    <2> SUFFICES ASSUME I, [DatabaseNext]_databaseVars PROVE I'
      OBVIOUS
    <2>1. ASSUME NEW p \in Openers, OpenDatabase(p) PROVE I'
      BY <2>1 DEF OpenDatabase
    <2>2. ASSUME NEW p \in Openers,
                 Migrate(p) \/ WriteData(p) \/ CopyBackup(p) \/ WriteManifest(p) \/ StopProcess(p)
          PROVE  I'
      BY <2>2 DEF Migrate, WriteData, CopyBackup, WriteManifest, StopProcess
    <2>3. CASE BackupRots \/ CheckRestore \/ EndRestore \/ UNCHANGED databaseVars
      BY <2>3 DEF BackupRots, CheckRestore, ChecksumOK, EndRestore, databaseVars
    <2>4. CASE ReplaceFile
      BY <2>4 DEF ReplaceFile, Recovered
    <2> QED
      BY SMTT(30), <2>1, <2>2, <2>3, <2>4 DEF DatabaseNext
  <1>3. I => RestoredIsBackup
    BY DEF RestoredIsBackup
  <1> QED
    BY <1>1, <1>2, <1>3, PTL DEF DatabaseSpec

\* The registry has the migrations v1 to v9.
LEMMA NineMigrations == CurrentVersion = 9 /\ CurrentVersion \in Nat
  BY DEF CurrentVersion, Migrations

\* A column of a new table is none that a later migration adds.
LEMMA CoreColumns == \A T : AuditVersions \notin Core(T)
  <1>1. \A t : <<t, "core">> # <<"safety_audit", "model_versions">>
    OBVIOUS
  <1> QED
    BY <1>1 DEF Core, AuditVersions

\* A column of another name is not the audit column.
LEMMA AddedColumns == \A c, d : d # "model_versions" => <<c, d>> # AuditVersions
  BY DEF AuditVersions

\* Only v9 adds the audit column, and what may be skipped before it is skipped for
\* the one column it adds.
MigrationOK(m) ==
    /\ AuditVersions \notin m.create \cup m.add
    /\ m.skip # None => m.create = {} /\ m.add = {m.skip}

\* The first eight migrations are of that shape.
LEMMA MigrationShape ==
    ASSUME NEW v \in 1 .. 8
    PROVE  MigrationOK(Migrations[v])
  <1>1. MigrationOK(BaselineV1)
    BY SMTT(30), CoreColumns, AddedColumns DEF MigrationOK, BaselineV1
  <1>2. MigrationOK(RuntimeLearningStateV2)
    BY SMTT(30), CoreColumns, AddedColumns DEF MigrationOK, RuntimeLearningStateV2
  <1>3. MigrationOK(ConversationTranscriptsV3)
    BY CoreColumns, AddedColumns DEF MigrationOK, ConversationTranscriptsV3
  <1>4. MigrationOK(SafetyAuditV4)
    BY CoreColumns, AddedColumns DEF MigrationOK, SafetyAuditV4
  <1>5. MigrationOK(ReviewCandidateTypeV5)
    BY CoreColumns, AddedColumns DEF MigrationOK, ReviewCandidateTypeV5
  <1>6. MigrationOK(BackgroundJobPressureV6)
    BY CoreColumns, AddedColumns DEF MigrationOK, BackgroundJobPressureV6
  <1>7. MigrationOK(PresentationHintsV7)
    BY CoreColumns, AddedColumns DEF MigrationOK, PresentationHintsV7
  <1>8. MigrationOK(TranscriptCleanupV8)
    BY CoreColumns, AddedColumns DEF MigrationOK, TranscriptCleanupV8
  <1>9. v \in {1, 2, 3, 4, 5, 6, 7, 8}
    OBVIOUS
  <1>10. \/ v = 1 /\ Migrations[v] = BaselineV1
         \/ v = 2 /\ Migrations[v] = RuntimeLearningStateV2
         \/ v = 3 /\ Migrations[v] = ConversationTranscriptsV3
         \/ v = 4 /\ Migrations[v] = SafetyAuditV4
         \/ v = 5 /\ Migrations[v] = ReviewCandidateTypeV5
         \/ v = 6 /\ Migrations[v] = BackgroundJobPressureV6
         \/ v = 7 /\ Migrations[v] = PresentationHintsV7
         \/ v = 8 /\ Migrations[v] = TranscriptCleanupV8
    BY <1>9 DEF Migrations
  <1> QED
    BY Zenon, <1>1, <1>2, <1>3, <1>4, <1>5, <1>6, <1>7, <1>8, <1>10

\* v9 makes the table of the user controls, adds the audit column and is skipped for
\* it.
LEMMA LastMigration ==
    /\ Migrations[9].create = {UserControls}
    /\ Migrations[9].add = {AuditVersions}
    /\ Migrations[9].skip = AuditVersions
  <1>1. Migrations[9] = UserControlAndAuditVersionsV9
    BY DEF Migrations
  <1>2. Core({"user_controls"}) = {UserControls}
    BY DEF Core, UserControls
  <1>3. /\ UserControlAndAuditVersionsV9.create = Core({"user_controls"})
        /\ UserControlAndAuditVersionsV9.add = {AuditVersions}
        /\ UserControlAndAuditVersionsV9.skip = AuditVersions
    BY DEF UserControlAndAuditVersionsV9, AuditVersions
  <1> QED
    BY <1>1, <1>2, <1>3

\* Every column a migration makes is one of the required ones.
LEMMA MigrationColumns ==
    ASSUME NEW v \in 1 .. CurrentVersion
    PROVE  Migrations[v].create \cup Migrations[v].add \subseteq Columns
  BY DEF Columns, RequiredColumns, SchemaAt

\* The columns at a version are those of the one before and what its migration makes.
LEMMA SchemaGrows ==
    ASSUME NEW v \in Nat
    PROVE  SchemaAt(v + 1) = SchemaAt(v) \cup Migrations[v + 1].create \cup Migrations[v + 1].add
  <1>1. 1 .. v + 1 = (1 .. v) \cup {v + 1}
    OBVIOUS
  <1> QED
    BY <1>1 DEF SchemaAt

\* A file whose version, history and columns agree.
MigratedFile(f) ==
    /\ f \in Files
    /\ f.version \in 1 .. CurrentVersion =>
         f.history = 1 .. f.version /\ SchemaAt(f.version) \subseteq f.schema
    /\ f.version = 0 => f.history = {}
    /\ f.version \in 0 .. CurrentVersion =>
         (AuditVersions \in f.schema => UserControls \in f.schema)

\* The parts of a database file.
LEMMA FileParts ==
    ASSUME NEW f \in Files
    PROVE  /\ f.version \in Nat /\ f.history \in SUBSET Nat /\ f.schema \in SUBSET Columns
           /\ f.data \in Nat /\ f.torn \in BOOLEAN
  BY DEF Files

\* _apply_pending_migration takes a file from one version to the next.
LEMMA MigrationMoves ==
    ASSUME NEW f, MigratedFile(f), NEW v \in 1 .. CurrentVersion, f.version = v - 1
    PROVE  \/ ApplyMigration(f, v) = None
           \/ MigratedFile(ApplyMigration(f, v)) /\ ApplyMigration(f, v).version = v
  <1> DEFINE m == Migrations[v]
             created == f.schema \cup m.create
             g == ApplyMigration(f, v)
  <1>1. /\ v \in 1 .. 9 /\ CurrentVersion = 9
        /\ f \in Files /\ f.version \in 0 .. CurrentVersion
        /\ f.history = 1 .. f.version
        /\ SchemaAt(f.version) \subseteq f.schema
        /\ (AuditVersions \in f.schema => UserControls \in f.schema)
    <2>0. CurrentVersion = 9 /\ v \in 1 .. 9 /\ f \in Files
      BY NineMigrations DEF MigratedFile
    <2>1. CASE f.version = 0
      <3>1. SchemaAt(0) = {}
        BY DEF SchemaAt
      <3>2. f.history = {} /\ 1 .. f.version = {} /\ f.version \in 0 .. CurrentVersion
        BY SMTT(30), <2>0, <2>1 DEF MigratedFile
      <3> QED
        BY <2>0, <2>1, <3>1, <3>2 DEF MigratedFile
    <2>2. CASE f.version # 0
      BY <2>2, NineMigrations DEF MigratedFile
    <2> QED
      BY <2>1, <2>2
  <1>2. m.create \cup m.add \subseteq Columns
    BY MigrationColumns
  <1>3. SchemaAt(v) = SchemaAt(f.version) \cup m.create \cup m.add
    <2>1. f.version \in Nat /\ v = f.version + 1
      BY <1>1
    <2> QED
      BY <2>1, SchemaGrows
  <1>4. f.history \cup {v} = 1 .. v
    BY SMTT(30), <1>1
  <1>5. CASE m.skip # None /\ m.skip \in f.schema /\ v \notin f.history
    <2>1. g = [f EXCEPT !.version = v, !.history = @ \cup {v}]
      BY SMTT(30), <1>5 DEF ApplyMigration
    <2>2. m.create \cup m.add \subseteq f.schema
      <3>1. CASE v = 9
        BY SMTT(30), <1>1, <1>5, <3>1, LastMigration
      <3>2. CASE v \in 1 .. 8
        BY <1>5, <3>2, MigrationShape DEF MigrationOK
      <3> QED
        BY SMTT(30), <1>1, <3>1, <3>2
    <2>3. g \in Files /\ g.version = v /\ g.history = 1 .. v /\ g.schema = f.schema
      <3> DEFINE h == 1 .. v
      <3>1. g = [f EXCEPT !.version = v, !.history = h]
        BY Zenon, <1>4, <2>1
      <3>2. v \in Nat /\ h \in SUBSET Nat /\ f \in Files
        BY <1>1
      <3> HIDE DEF g, m, h
      <3>3. g \in Files /\ g.version = v /\ g.history = h /\ g.schema = f.schema
        BY Zenon, <3>1, <3>2, FileParts DEF Files
      <3> QED
        BY <3>3 DEF h
    <2> HIDE DEF g, m
    <2> QED
      BY <1>1, <1>3, <2>2, <2>3 DEF MigratedFile, g
  <1>6. CASE /\ ~(m.skip # None /\ m.skip \in f.schema) /\ v \notin f.history
             /\ ~\E c \in m.add : c \in created \/ c[1] \notin TablesOf(created)
    <2>1. g = [f EXCEPT !.version = v, !.history = @ \cup {v}, !.schema = created \cup m.add]
      BY <1>6 DEF ApplyMigration
    <2>2. g \in Files /\ g.version = v /\ g.history = 1 .. v /\ g.schema = f.schema \cup m.create \cup m.add
      <3> DEFINE h == 1 .. v
                 c == created \cup m.add
      <3>1. g = [f EXCEPT !.version = v, !.history = h, !.schema = c]
        BY Zenon, <1>4, <2>1
      <3>2. v \in Nat /\ h \in SUBSET Nat /\ f \in Files
        BY <1>1
      <3>3. c \in SUBSET Columns
        BY <1>1, <1>2, FileParts
      <3> HIDE DEF g, m, h, c
      <3>4. g \in Files /\ g.version = v /\ g.history = h /\ g.schema = c
        BY Zenon, <3>1, <3>2, <3>3, FileParts DEF Files
      <3> QED
        BY <3>4 DEF h, c
    <2>3. AuditVersions \in g.schema => UserControls \in g.schema
      <3>1. CASE v = 9
        BY Zenon, <1>1, <2>2, <3>1, LastMigration
      <3>2. CASE v \in 1 .. 8
        BY SMTT(30), <1>1, <2>2, <3>2, MigrationShape DEF MigrationOK
      <3> QED
        BY <1>1, <3>1, <3>2
    <2> HIDE DEF g, m
    <2> QED
      BY <1>1, <1>3, <2>2, <2>3 DEF MigratedFile, g
  <1> QED
    BY Zenon, <1>5, <1>6 DEF ApplyMigration

\* A migration that is in the history fails, and with it the transaction.
LEMMA AppliedTwice ==
    ASSUME NEW f, NEW v \in f.history
    PROVE  ApplyMigration(f, v) = None
  BY DEF ApplyMigration

\* _apply_pending_migration leaves a database file or fails.
LEMMA MigrationTyped ==
    ASSUME NEW f \in Files, NEW v \in 1 .. CurrentVersion
    PROVE  ApplyMigration(f, v) \in Files \cup {None}
  <1> DEFINE m == Migrations[v]
             created == f.schema \cup m.create
             h == f.history \cup {v}
             c == created \cup m.add
  <1>1. v \in Nat /\ CurrentVersion \in Nat
    BY SMTT(30), NineMigrations
  <1>2. h \in SUBSET Nat /\ c \in SUBSET Columns
    BY <1>1, FileParts, MigrationColumns
  <1> HIDE DEF h, c
  <1>3. [f EXCEPT !.version = v, !.history = h] \in Files
    BY Zenon, <1>1, <1>2, FileParts DEF Files
  <1>4. [f EXCEPT !.version = v, !.history = h, !.schema = c] \in Files
    BY Zenon, <1>1, <1>2, FileParts DEF Files
  <1> QED
    BY <1>3, <1>4 DEF ApplyMigration, h, c

\* The transaction of _apply_pending, migration by migration.
After(f, seen, after) ==
    /\ after \in [0 .. CurrentVersion - seen -> Files \cup {None}]
    /\ after[0] = f
    /\ \A n \in 1 .. CurrentVersion - seen :
         after[n] = IF after[n - 1] = None THEN None ELSE ApplyMigration(after[n - 1], seen + n)
    /\ ApplyPending(f, seen) = after[CurrentVersion - seen]

\* The loop of the pending migrations passes through one file per version.
LEMMA PendingStepByStep ==
    ASSUME NEW f \in Files, NEW seen \in 0 .. CurrentVersion - 1
    PROVE  \E after : After(f, seen, after)
  <1> DEFINE N == CurrentVersion - seen
             V == Files \cup {None}
             def(h) == [n \in 0 .. N |->
                          IF n = 0 THEN f
                          ELSE IF h[n - 1] = None THEN None ELSE ApplyMigration(h[n - 1], seen + n)]
             step == [n \in Nat |-> [g \in V |->
                          IF g = None \/ n >= N THEN None ELSE ApplyMigration(g, seen + (n + 1))]]
  <1>1. CurrentVersion = 9 /\ N \in Nat /\ N > 0 /\ seen \in Nat
    BY SMTT(30), NineMigrations
  <1>2. None \notin Files
    BY SMTT(30), FilesAsReleased
  <1>3. step \in [Nat -> [V -> V]]
    <2> SUFFICES ASSUME NEW n \in Nat, NEW g \in V, g # None, ~(n >= N)
                 PROVE  ApplyMigration(g, seen + (n + 1)) \in V
      OBVIOUS
    <2>1. seen + (n + 1) \in 1 .. CurrentVersion
      BY SMTT(30), <1>1
    <2> QED
      BY SMTT(30), <2>1, MigrationTyped
  <1>4. PICK w : Steps(w, V, f, step)
    <2> HIDE DEF step
    <2> QED
      BY Zenon, <1>3, NatRecursion
  <1>5. /\ w \in [Nat -> V] /\ w[0] = f
        /\ \A n \in Nat : w[n + 1] = step[n][w[n]]
    BY Zenon, <1>4 DEF Steps
  <1>6. \A n \in 1 .. N : w[n] = IF w[n - 1] = None THEN None ELSE ApplyMigration(w[n - 1], seen + n)
    <2> SUFFICES ASSUME NEW n \in 1 .. N
                 PROVE  w[n] = IF w[n - 1] = None THEN None ELSE ApplyMigration(w[n - 1], seen + n)
      BY SMTT(30)
    <2>1. n - 1 \in Nat /\ (n - 1) + 1 = n /\ ~(n - 1 >= N)
      BY SMTT(30), <1>1
    <2>2. w[n] = step[n - 1][w[n - 1]] /\ w[n - 1] \in V
      BY SMTT(30), <1>5, <2>1
    <2> QED
      BY <2>1, <2>2
  <1> DEFINE a == [n \in 0 .. N |-> w[n]]
  <1>7. /\ a \in [0 .. N -> V] /\ a[0] = f
        /\ \A n \in 1 .. N : a[n] = IF a[n - 1] = None THEN None ELSE ApplyMigration(a[n - 1], seen + n)
    <2>1. \A n \in 1 .. N : n - 1 \in 0 .. N /\ n \in 0 .. N
      BY SMTT(30), <1>1
    <2>2. 0 \in 0 .. N /\ 0 .. N \subseteq Nat
      BY SMTT(30), <1>1
    <2> HIDE DEF N
    <2> QED
      BY SMTT(30), <1>5, <1>6, <2>1, <2>2
  <1> HIDE DEF a
  <1>8. a = def(a)
    <2>1. \A n \in 0 .. N : n # 0 => n \in 1 .. N
      BY SMTT(30), <1>1
    <2> HIDE DEF N
    <2> QED
      BY SMTT(30), <1>7, <2>1
  <1> DEFINE b == CHOOSE h : h = def(h)
  <1>9. ApplyPending(f, seen) = b[N]
    BY DEF ApplyPending
  <1>10. b = def(b)
    <2> HIDE DEF def
    <2> QED
      BY SMTT(30), <1>8
  <1> HIDE DEF b
  <1>11. b[0] = f /\ DOMAIN b = 0 .. N
    BY SMTT(30), <1>1, <1>10
  <1>12. \A n \in 1 .. N : b[n] = IF b[n - 1] = None THEN None ELSE ApplyMigration(b[n - 1], seen + n)
    BY SMTT(30), <1>1, <1>10
  <1>13. \A n \in 0 .. N : b[n] \in V
    <2> DEFINE S == {n \in Nat : n <= N => b[n] \in V}
    <2>1. 0 \in S
      BY SMTT(30), <1>11
    <2>2. \A n \in Nat : n \in S => n + 1 \in S
      <3> SUFFICES ASSUME NEW n \in Nat, n \in S, n + 1 <= N
                   PROVE  b[n + 1] \in V
        OBVIOUS
      <3>1. n + 1 \in 1 .. N /\ (n + 1) - 1 = n /\ seen + (n + 1) \in 1 .. CurrentVersion /\ n <= N
        BY <1>1
      <3>2. b[n + 1] = IF b[n] = None THEN None ELSE ApplyMigration(b[n], seen + (n + 1))
        BY <1>12, <3>1
      <3>3. b[n] \in V
        BY <3>1
      <3> QED
        BY SMTT(30), <3>1, <3>2, <3>3, MigrationTyped
    <2>3. \A n \in Nat : n \in S
      <3> HIDE DEF S
      <3> QED
        BY <2>1, <2>2, NatInducts
    <2> QED
      BY SMTT(30), <1>1, <2>3
  <1>14. b \in [0 .. N -> V]
    <2>1. b = [n \in 0 .. N |-> b[n]]
      <3> HIDE DEF N
      <3> QED
        BY <1>10
    <2> QED
      BY <1>13, <2>1
  <1>15. After(f, seen, b)
    BY <1>9, <1>11, <1>12, <1>14 DEF After
  <1> QED
    BY <1>15

\* Read at the file's own version, the transaction ends at the current one or not
\* at all.
LEMMA PendingMoves ==
    ASSUME NEW f, MigratedFile(f), f.version < CurrentVersion
    PROVE  LET g == ApplyPending(f, f.version)
           IN  g = None \/ (MigratedFile(g) /\ g.version = CurrentVersion)
  <1> DEFINE seen == f.version
             N == CurrentVersion - seen
  <1>1. CurrentVersion = 9 /\ f \in Files /\ seen \in 0 .. CurrentVersion - 1 /\ N \in Nat
    BY NineMigrations, FileParts DEF MigratedFile
  <1>2. PICK after : After(f, seen, after)
    BY <1>1, PendingStepByStep
  <1> DEFINE S == {n \in Nat : n <= N =>
                     \/ after[n] = None
                     \/ MigratedFile(after[n]) /\ after[n].version = seen + n}
  <1>3. 0 \in S
    BY <1>1, <1>2 DEF After
  <1>4. \A n \in Nat : n \in S => n + 1 \in S
    <2> SUFFICES ASSUME NEW n \in Nat, n \in S, n + 1 <= N, after[n + 1] # None
                 PROVE  MigratedFile(after[n + 1]) /\ after[n + 1].version = seen + (n + 1)
      OBVIOUS
    <2> DEFINE v == seen + (n + 1)
    <2>1. n + 1 \in 1 .. N /\ (n + 1) - 1 = n /\ v \in 1 .. CurrentVersion /\ v - 1 = seen + n /\ n <= N
      BY <1>1
    <2>2. after[n + 1] = IF after[n] = None THEN None ELSE ApplyMigration(after[n], v)
      BY <1>2, <2>1 DEF After
    <2>3. after[n] # None /\ MigratedFile(after[n]) /\ after[n].version = v - 1
      BY <2>1, <2>2
    <2> HIDE DEF v
    <2>4. MigratedFile(ApplyMigration(after[n], v)) /\ ApplyMigration(after[n], v).version = v
      BY <2>1, <2>2, <2>3, MigrationMoves
    <2>5. MigratedFile(after[n + 1]) /\ after[n + 1].version = v
      BY <2>2, <2>3, <2>4
    <2> QED
      BY <2>5 DEF v
  <1>5. \A n \in Nat : n \in S
    <2> HIDE DEF S
    <2> QED
      BY <1>3, <1>4, NatInducts
  <1>6. ApplyPending(f, seen) = after[N]
    BY <1>2 DEF After
  <1>7. seen + N = CurrentVersion /\ N <= N
    BY <1>1
  <1> QED
    BY <1>1, <1>5, <1>6, <1>7

\* Read at a version another process has gone beyond since, it fails: the first
\* migration is in the history.
LEMMA PendingTooLate ==
    ASSUME NEW f \in Files, NEW seen \in 0 .. CurrentVersion - 1, seen + 1 \in f.history
    PROVE  ApplyPending(f, seen) = None
  <1> DEFINE N == CurrentVersion - seen
  <1>1. CurrentVersion = 9 /\ seen \in Nat /\ N \in Nat /\ 1 <= N
    BY NineMigrations
  <1>2. PICK after : After(f, seen, after)
    BY PendingStepByStep
  <1> DEFINE S == {n \in Nat : n + 1 <= N => after[n + 1] = None}
  <1>3. 0 \in S
    <2>1. 1 \in 1 .. N /\ 1 - 1 = 0 /\ 0 + 1 = 1
      BY <1>1
    <2>2. after[1] = IF f = None THEN None ELSE ApplyMigration(f, seen + 1)
      BY <1>2, <2>1 DEF After
    <2> QED
      BY <2>1, <2>2, AppliedTwice
  <1>4. \A n \in Nat : n \in S => n + 1 \in S
    <2> SUFFICES ASSUME NEW n \in Nat, n \in S, (n + 1) + 1 <= N
                 PROVE  after[(n + 1) + 1] = None
      OBVIOUS
    <2> DEFINE k == (n + 1) + 1
    <2>1. k \in 1 .. N /\ k - 1 = n + 1 /\ n + 1 <= N
      BY <1>1
    <2>2. after[k] = IF after[k - 1] = None THEN None ELSE ApplyMigration(after[k - 1], seen + k)
      BY <1>2, <2>1 DEF After
    <2> QED
      BY <2>1, <2>2
  <1>5. \A n \in Nat : n \in S
    <2> HIDE DEF S
    <2> QED
      BY <1>3, <1>4, NatInducts
  <1>6. N - 1 \in Nat /\ (N - 1) + 1 = N
    BY <1>1
  <1>7. after[N] = None
    BY <1>1, <1>5, <1>6
  <1> QED
    BY <1>2, <1>7 DEF After

-----------------------------------------------------------------------------
DatabasePcs == {"down", "migrate", "open", "copied", "failed"}

\* A process that has read the version, or is open, saw the file that is still
\* there, or one from before another process migrated it.
OpenerInv(o) ==
    /\ o \in [pc : DatabasePcs, seen : Nat]
    /\ o.pc # "down" => restore = "idle" /\ file # None
    /\ o.pc = "migrate" => o.seen <= file.version /\ file.version <= CurrentVersion
                           /\ o.seen < CurrentVersion
    /\ o.pc \in {"open", "copied"} => file.version = CurrentVersion

\* The file and its copy are as migrations leave a file.
DatabaseInv ==
    /\ file = None \/ MigratedFile(file)
    /\ backupFile = None \/ MigratedFile(backupFile)
    /\ opener \in [Openers -> [pc : DatabasePcs, seen : Nat]]
    /\ \A p \in Openers : OpenerInv(opener[p])
    /\ restore = "checked" => backupFile # None

\* A file that is there at the start is one that a release left.
LEMMA EveryInitialFile ==
    ASSUME NEW f \in InitialFiles, f # None
    PROVE  MigratedFile(f)
  <1>1. f \in Files
    BY FilesAsReleased
  <1>2. f.version \in Nat
    BY <1>1, FileParts
  <1>3. CASE f.version = 0
    BY <1>1, <1>3, FilesAsReleased, NineMigrations DEF MigratedFile
  <1>4. CASE f.version \in 1 .. CurrentVersion
    <2>1. f.schema = SchemaAt(f.version) /\ f.history = 1 .. f.version
      BY <1>1, <1>4, FilesAsReleased
    <2>2. AuditVersions \in SchemaAt(f.version) => UserControls \in SchemaAt(f.version)
      <3>1. CASE f.version = 9
        BY <3>1, NineMigrations, LastMigration DEF SchemaAt
      <3>2. CASE f.version \in 1 .. 8
        BY <3>2, MigrationShape DEF SchemaAt, MigrationOK
      <3> QED
        BY <1>4, <3>1, <3>2, NineMigrations
    <2> QED
      BY <1>1, <1>4, <2>1, <2>2, NineMigrations DEF MigratedFile
  <1>5. CASE f.version > CurrentVersion
    BY <1>1, <1>5, NineMigrations DEF MigratedFile
  <1> QED
    BY <1>2, <1>3, <1>4, <1>5, NineMigrations

\* quick_check and the stores leave what a migration wrote.
LEMMA SameSchema ==
    ASSUME NEW f, MigratedFile(f), NEW g \in Files,
           g.version = f.version, g.history = f.history, g.schema = f.schema
    PROVE  MigratedFile(g)
  BY DEF MigratedFile

\* Opening a file that a crash tore leaves version, history and columns as they were.
LEMMA RecoveredFile ==
    ASSUME NEW f, MigratedFile(f)
    PROVE  MigratedFile(Recovered(f)) /\ Recovered(f).version = f.version
  <1>1. f \in Files
    BY DEF MigratedFile
  <1> DEFINE g == [f EXCEPT !.torn = TRUE]
  <1>2. g \in Files /\ g.version = f.version /\ g.history = f.history /\ g.schema = f.schema
    BY <1>1, FileParts DEF Files
  <1> HIDE DEF g
  <1>3. MigratedFile(g)
    BY <1>2, SameSchema
  <1> QED
    BY <1>2, <1>3 DEF Recovered, g

\* A file that sqlite has just made is at version zero.
LEMMA EmptyIsMigrated == MigratedFile(EmptyFile)
  <1>1. EmptyFile \in Files
    BY DEF EmptyFile, Files
  <1> QED
    BY <1>1, NineMigrations DEF EmptyFile, MigratedFile

\* A file at the current version passes ensure_current's last checks.
LEMMA CurrentIsValid ==
    ASSUME NEW f, MigratedFile(f), f.version = CurrentVersion
    PROVE  ValidCurrent(f)
  BY NineMigrations DEF MigratedFile, ValidCurrent, RequiredColumns

\* A process that moves leaves the others where they were.
LEMMA MoveKeeps ==
    ASSUME DatabaseInv, NEW p \in Openers, NEW pc \in DatabasePcs, NEW seen \in Nat,
           Move(p, pc, seen)
    PROVE  /\ opener' \in [Openers -> [pc : DatabasePcs, seen : Nat]]
           /\ opener'[p] = [pc |-> pc, seen |-> seen]
           /\ \A q \in Openers : q # p => opener'[q] = opener[q]
  BY DEF DatabaseInv, Move

\* The invariant after a step of one process: its own part, and what the others
\* need of the file.
LEMMA OneProcessMoves ==
    ASSUME DatabaseInv, NEW p \in Openers, NEW pc \in DatabasePcs, NEW seen \in Nat,
           Move(p, pc, seen), OpenerInv([pc |-> pc, seen |-> seen])',
           UNCHANGED restore,
           file # None => /\ file' # None
                          /\ \/ file'.version = file.version
                             \/ /\ file.version < CurrentVersion
                                /\ file'.version = CurrentVersion
    PROVE  \A q \in Openers : OpenerInv(opener[q])'
  <1> SUFFICES ASSUME NEW q \in Openers PROVE OpenerInv(opener[q])'
    OBVIOUS
  <1>1. CASE q = p
    <2>1. opener'[q] = [pc |-> pc, seen |-> seen]
      BY <1>1, MoveKeeps
    <2> QED
      BY <2>1 DEF OpenerInv
  <1>2. CASE q # p
    <2>1. opener'[q] = opener[q]
      BY <1>2, MoveKeeps
    <2>2. OpenerInv(opener[q]) /\ opener[q] \in [pc : DatabasePcs, seen : Nat]
      BY DEF DatabaseInv
    <2>3. file # None => file.version \in Nat
      BY FileParts DEF DatabaseInv, MigratedFile
    <2>4. PICK o \in [pc : DatabasePcs, seen : Nat] : o = opener[q]
      BY <2>2
    <2>5. opener'[q] = o /\ OpenerInv(o)
      BY <2>1, <2>2, <2>4 DEF OpenerInv
    <2>6. o.pc # "down" => restore' = "idle" /\ file # None /\ file' # None
      BY <2>5 DEF OpenerInv
    <2>7. o.pc = "migrate" => /\ o.seen <= file'.version /\ file'.version <= CurrentVersion
                              /\ o.seen < CurrentVersion
      BY <2>3, <2>5, <2>6, NineMigrations DEF OpenerInv
    <2>8. o.pc \in {"open", "copied"} => file'.version = CurrentVersion
      BY <2>3, <2>5, <2>6, NineMigrations DEF OpenerInv
    <2> QED
      BY <2>5, <2>6, <2>7, <2>8 DEF OpenerInv
  <1> QED
    BY <1>1, <1>2

\* A process opens the file and reads its version ...
LEMMA OpenKeeps ==
    ASSUME DatabaseInv, NEW p \in Openers, OpenDatabase(p)
    PROVE  DatabaseInv'
  <1> DEFINE e == OrElse(file, EmptyFile)
             f == Recovered(e)
  <1>1. MigratedFile(e) /\ (file # None => e = file)
    BY EmptyIsMigrated DEF DatabaseInv, OrElse
  <1>2. MigratedFile(f) /\ f.version = e.version
    BY <1>1, RecoveredFile
  <1>3. file' = f /\ f # None /\ f.version \in Nat
    BY <1>2, FilesAsReleased, FileParts DEF OpenDatabase, MigratedFile
  <1>4. PICK pc \in {"failed", "open", "migrate"} :
          /\ Move(p, pc, f.version)
          /\ pc = "open" => f.version = CurrentVersion
          /\ pc = "migrate" => f.version <= CurrentVersion /\ f.version # CurrentVersion
    <2>1. CASE f.torn \/ ~Supported(f.version)
      BY <2>1 DEF OpenDatabase
    <2>2. CASE ~f.torn /\ Supported(f.version) /\ f.version = CurrentVersion
      BY <2>2 DEF OpenDatabase
    <2>3. CASE ~f.torn /\ Supported(f.version) /\ f.version # CurrentVersion /\ f.version = 0 /\ ~Adoptable(f)
      BY <2>3 DEF OpenDatabase
    <2>4. CASE ~f.torn /\ Supported(f.version) /\ f.version # CurrentVersion /\ ~(f.version = 0 /\ ~Adoptable(f))
      BY <2>4 DEF OpenDatabase, Supported
    <2> QED
      BY <2>1, <2>2, <2>3, <2>4
  <1> HIDE DEF f
  <1>n. PICK n \in Nat : n = f.version
    BY <1>3
  <1>5. pc \in DatabasePcs /\ n \in Nat /\ CurrentVersion = 9
    BY <1>n, NineMigrations DEF DatabasePcs
  <1>6. restore = "idle" /\ restore' = restore /\ backupFile' = backupFile
    BY DEF OpenDatabase
  <1>7. OpenerInv([pc |-> pc, seen |-> n])'
    BY <1>n, <1>3, <1>4, <1>5, <1>6 DEF OpenerInv
  <1>8. file # None => file' # None /\ file'.version = file.version
    BY <1>1, <1>2, <1>3
  <1>9. Move(p, pc, n)
    BY <1>n, <1>4
  <1>10. \A q \in Openers : OpenerInv(opener[q])'
    BY <1>5, <1>6, <1>7, <1>8, <1>9, OneProcessMoves
  <1>11. opener' \in [Openers -> [pc : DatabasePcs, seen : Nat]]
    BY <1>5, <1>9, MoveKeeps
  <1> QED
    BY <1>2, <1>3, <1>6, <1>10, <1>11 DEF DatabaseInv, MigratedFile

\* ... runs what is pending, in one transaction, from the version it has read ...
LEMMA MigrateKeeps ==
    ASSUME DatabaseInv, NEW p \in Openers, Migrate(p)
    PROVE  DatabaseInv'
  <1> DEFINE seen == opener[p].seen
             result == ApplyPending(file, seen)
             pc == IF result # None /\ ValidCurrent(file') THEN "open" ELSE "failed"
  <1>1. /\ opener[p].pc = "migrate" /\ file' = OrElse(result, file) /\ Move(p, pc, seen)
        /\ restore' = restore /\ backupFile' = backupFile
    BY DEF Migrate
  <1>2. OpenerInv(opener[p])
    BY DEF DatabaseInv
  <1>3. /\ file # None /\ restore = "idle" /\ seen \in Nat
        /\ seen <= file.version /\ file.version <= CurrentVersion /\ seen < CurrentVersion
    BY <1>1, <1>2 DEF OpenerInv
  <1>4. MigratedFile(file) /\ file \in Files /\ file.version \in Nat /\ CurrentVersion = 9
    BY <1>3, FileParts, NineMigrations DEF DatabaseInv, MigratedFile
  <1>5. \/ result = None
        \/ MigratedFile(result) /\ result.version = CurrentVersion /\ file.version < CurrentVersion
    <2>1. CASE seen = file.version
      <3>1. file.version < CurrentVersion
        BY <1>3, <2>1
      <3> QED
        BY <1>4, <2>1, <3>1, PendingMoves
    <2>2. CASE seen # file.version
      <3>1. seen + 1 \in 1 .. file.version /\ seen \in 0 .. CurrentVersion - 1
            /\ file.version \in 1 .. CurrentVersion
        BY <1>3, <1>4, <2>2
      <3>2. seen + 1 \in file.history
        BY <1>4, <3>1 DEF MigratedFile
      <3> QED
        BY <1>4, <3>1, <3>2, PendingTooLate
    <2> QED
      BY <2>1, <2>2
  <1> HIDE DEF result
  <1>6. /\ MigratedFile(file')
        /\ result = None => file' = file
        /\ result # None => file' = result
    BY <1>1, <1>4, <1>5 DEF OrElse
  <1>7. file' # None /\ (\/ file'.version = file.version
                         \/ file.version < CurrentVersion /\ file'.version = CurrentVersion)
    BY <1>5, <1>6, <1>3, FilesAsReleased DEF MigratedFile
  <1>8. pc \in DatabasePcs /\ (pc = "open" => file'.version = CurrentVersion) /\ pc \in {"open", "failed"}
    BY <1>5, <1>6 DEF DatabasePcs
  <1>n. PICK c \in DatabasePcs, n \in Nat : c = pc /\ n = seen
    BY <1>3, <1>8
  <1>m. Move(p, c, n) /\ (c = "open" => file'.version = CurrentVersion) /\ c \in {"open", "failed"}
    BY <1>1, <1>8, <1>n
  <1> HIDE DEF pc, seen
  <1>9. OpenerInv([pc |-> c, seen |-> n])'
    BY <1>1, <1>3, <1>7, <1>m DEF OpenerInv
  <1>10. \A q \in Openers : OpenerInv(opener[q])'
    BY <1>1, <1>7, <1>9, <1>m, OneProcessMoves
  <1>11. opener' \in [Openers -> [pc : DatabasePcs, seen : Nat]]
    BY <1>m, MoveKeeps
  <1> QED
    BY <1>1, <1>6, <1>10, <1>11 DEF DatabaseInv

\* ... and writes to it.
LEMMA WriteKeeps ==
    ASSUME DatabaseInv, NEW p \in Openers, WriteData(p)
    PROVE  DatabaseInv'
  <1>1. OpenerInv(opener[p]) /\ opener[p].pc = "open"
    BY DEF DatabaseInv, WriteData
  <1>2. file # None /\ MigratedFile(file) /\ file \in Files
    BY <1>1 DEF DatabaseInv, OpenerInv, MigratedFile
  <1>3. file' = [file EXCEPT !.data = @ + 1]
    BY DEF WriteData
  <1>4. /\ file' \in Files /\ file'.version = file.version
        /\ file'.history = file.history /\ file'.schema = file.schema
    BY <1>2, <1>3, FileParts DEF Files
  <1>5. MigratedFile(file') /\ file' # None
    BY <1>2, <1>4, SameSchema, FilesAsReleased
  <1>6. opener' = opener /\ restore' = restore /\ backupFile' = backupFile
    BY DEF WriteData
  <1>7. \A q \in Openers : OpenerInv(opener[q])'
    BY <1>2, <1>4, <1>5, <1>6 DEF DatabaseInv, OpenerInv
  <1> QED
    BY <1>5, <1>6, <1>7 DEF DatabaseInv

\* A process stops or takes a backup.
LEMMA ProcessKeeps ==
    ASSUME DatabaseInv, NEW p \in Openers, StopProcess(p) \/ CopyBackup(p) \/ WriteManifest(p)
    PROVE  DatabaseInv'
  <1>1. /\ file' = file /\ restore' = restore
        /\ backupFile' = backupFile \/ backupFile' = file
        /\ backupFile # None => backupFile' = backupFile
    BY DEF StopProcess, CopyBackup, WriteManifest
  <1>2. OpenerInv(opener[p]) /\ opener[p].seen \in Nat
    BY DEF DatabaseInv, OpenerInv
  <1>3. PICK pc \in {"down", "copied"}, seen \in {0, opener[p].seen} :
          Move(p, pc, seen) /\ (pc = "copied" => opener[p].pc = "open")
    BY DEF StopProcess, CopyBackup, WriteManifest
  <1>4. pc \in DatabasePcs /\ seen \in Nat
    BY <1>2, <1>3 DEF DatabasePcs
  <1>5. OpenerInv([pc |-> pc, seen |-> seen])'
    BY <1>1, <1>2, <1>3, <1>4 DEF OpenerInv
  <1>6. \A q \in Openers : OpenerInv(opener[q])'
    BY <1>1, <1>3, <1>4, <1>5, OneProcessMoves
  <1>7. opener' \in [Openers -> [pc : DatabasePcs, seen : Nat]]
    BY <1>3, <1>4, MoveKeeps
  <1> QED
    BY <1>1, <1>6, <1>7 DEF DatabaseInv

\* The backup decays, is checked and replaces the file.
LEMMA RestoreKeeps ==
    ASSUME DatabaseInv, BackupRots \/ CheckRestore \/ ReplaceFile \/ EndRestore
    PROVE  DatabaseInv'
  <1>1. opener' = opener
    BY DEF BackupRots, CheckRestore, ReplaceFile, EndRestore
  <1>2. CASE BackupRots
    <2>1. MigratedFile(backupFile) /\ backupFile \in Files /\ backupFile' = [backupFile EXCEPT !.torn = TRUE]
      BY <1>2 DEF BackupRots, DatabaseInv, MigratedFile
    <2>2. /\ backupFile' \in Files /\ backupFile'.version = backupFile.version
          /\ backupFile'.history = backupFile.history /\ backupFile'.schema = backupFile.schema
      BY <2>1, FileParts DEF Files
    <2>3. MigratedFile(backupFile') /\ backupFile' # None
      BY <2>1, <2>2, SameSchema, FilesAsReleased
    <2>4. file' = file /\ restore' = restore
      BY <1>2 DEF BackupRots
    <2> QED
      BY <1>1, <2>3, <2>4 DEF DatabaseInv, OpenerInv
  <1>3. CASE CheckRestore
    BY <1>1, <1>3 DEF CheckRestore, BackupComplete, DatabaseInv, OpenerInv
  <1>4. CASE ReplaceFile
    <2>1. MigratedFile(backupFile) /\ file' = Recovered(backupFile) /\ backupFile' = backupFile
          /\ restore' # "checked" /\ restore # "idle"
      BY <1>4 DEF ReplaceFile, DatabaseInv
    <2>2. MigratedFile(file')
      BY <2>1, RecoveredFile
    <2>3. \A q \in Openers : opener[q].pc = "down" /\ opener[q] \in [pc : DatabasePcs, seen : Nat]
      BY <2>1 DEF DatabaseInv, OpenerInv
    <2> QED
      BY <1>1, <2>1, <2>2, <2>3 DEF DatabaseInv, OpenerInv
  <1>5. CASE EndRestore
    BY <1>1, <1>5 DEF EndRestore, DatabaseInv, OpenerInv
  <1> QED
    BY <1>2, <1>3, <1>4, <1>5

\* However many processes open the file, whatever lay there and wherever one of them
\* dies, ensure_current never leaves it between two versions, and no process is open
\* on anything but the current schema.
THEOREM MigrationsAreAtomic == DatabaseSpec => []NeverHalfMigrated
  <1>1. DatabaseInit => DatabaseInv
    <2> SUFFICES ASSUME DatabaseInit PROVE DatabaseInv
      OBVIOUS
    <2>1. opener \in [Openers -> [pc : DatabasePcs, seen : Nat]]
          /\ \A p \in Openers : opener[p].pc = "down"
      BY DEF DatabaseInit, DatabasePcs
    <2>2. file = None \/ MigratedFile(file)
      BY EveryInitialFile DEF DatabaseInit
    <2>3. restore = "idle" /\ backupFile = None
      BY DEF DatabaseInit
    <2> QED
      BY <2>1, <2>2, <2>3 DEF DatabaseInv, OpenerInv
  <1>2. DatabaseInv /\ [DatabaseNext]_databaseVars => DatabaseInv'
    <2> SUFFICES ASSUME DatabaseInv, [DatabaseNext]_databaseVars PROVE DatabaseInv'
      OBVIOUS
    <2>1. CASE UNCHANGED databaseVars
      BY <2>1 DEF databaseVars, DatabaseInv, OpenerInv
    <2>2. CASE \E p \in Openers :
                 \/ OpenDatabase(p) \/ Migrate(p) \/ WriteData(p)
                 \/ StopProcess(p) \/ CopyBackup(p) \/ WriteManifest(p)
      BY <2>2, OpenKeeps, MigrateKeeps, WriteKeeps, ProcessKeeps
    <2>3. CASE BackupRots \/ CheckRestore \/ ReplaceFile \/ EndRestore
      BY <2>3, RestoreKeeps
    <2> QED
      BY <2>1, <2>2, <2>3 DEF DatabaseNext
  <1>3. DatabaseInv => NeverHalfMigrated
    <2> SUFFICES ASSUME DatabaseInv PROVE NeverHalfMigrated
      OBVIOUS
    <2>1. file # None /\ file.version \in 1 .. CurrentVersion =>
            file.history = 1 .. file.version /\ SchemaAt(file.version) \subseteq file.schema
      BY DEF DatabaseInv, MigratedFile
    <2>2. ASSUME NEW p \in Openers, opener[p].pc \in {"open", "copied"}
          PROVE  file.version = CurrentVersion /\ ValidCurrent(file)
      <3>1. file # None /\ file.version = CurrentVersion /\ MigratedFile(file)
        BY <2>2 DEF DatabaseInv, OpenerInv
      <3> QED
        BY <3>1, CurrentIsValid
    <2> QED
      BY <2>1, <2>2 DEF NeverHalfMigrated
  <1> QED
    BY <1>1, <1>2, <1>3, PTL DEF DatabaseSpec
=============================================================================
