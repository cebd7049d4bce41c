------------------------------ MODULE MCStores ------------------------------
(***************************************************************************)
(* What the runtime keeps and looks up again, one scene each: the vector   *)
(* index beside the memories, the database file, the search for memories,  *)
(* the retrieval from other sources, the transcript, and the turns that    *)
(* write history and transcript.  A behaviour stays in its scene.          *)
(***************************************************************************)
EXTENDS MCMemoryIndex, StateDatabase, Retrieval, ObservationTurn

VARIABLE scene

storeVars == <<scene, vars, databaseVars, retrievalVars, turnVars>>

-----------------------------------------------------------------------------
\* No file, a young database without versions, an adoptable one, one that is not,
\* old, current and later versions.
Unversioned(schema) == [EmptyFile EXCEPT !.schema = schema]

Versioned(v) == [EmptyFile EXCEPT !.version = v, !.history = 1 .. v, !.schema = SchemaAt(v)]

MCInitialFiles ==
    {None, Unversioned(Core({"memories"})), Unversioned(RequiredColumns),
     Unversioned(Core({"memories", "delivery_outbox", "user_controls", "safety_audit"})
                     \cup {<<"delivery_outbox", "hints">>, AuditVersions}),
     Unversioned(Core({"background_jobs", "reviews"})),
     [EmptyFile EXCEPT !.version = 10, !.history = 1 .. 10, !.schema = RequiredColumns]}
    \cup {Versioned(v) : v \in {1, 5, 8, 9}}

-----------------------------------------------------------------------------
Row(text, weight) == [text |-> text, weight |-> weight]

MCScopeOf == <<"ann", "bob">>

MCRowsOf == <<{Row({"tea"}, 1), Row({"tea", "cat"}, 0)}, {Row({"tea"}, 0)}>>

MCQueryTexts ==
    {[words |-> {"tea"}, plain |-> TRUE], [words |-> {"cat"}, plain |-> FALSE]}

MCQueryScopes == {"ann", None}

MCSimilarity(q, t) == IF q = t THEN 2 ELSE IF q \cap t # {} THEN 1 ELSE -1

MCBm25(q, t) == 5 - Cardinality(t)

Passage(id, source, actor, until) ==
    [id |-> id, source |-> source, actor |-> actor, space |-> "home",
     words |-> {"tea"}, until |-> until]

MCPassages ==
    {Passage(1, "transcript", "ann", 1), Passage(2, "transcript", "ann", None),
     Passage(3, "project_context", None, 1)}

-----------------------------------------------------------------------------
Line(id, key, at, retention, hold) ==
    [id |-> id, key |-> key, actor |-> key, at |-> at, retention |-> retention,
     hold |-> hold, text |-> <<id, 0>>]

MCBatches ==
    {<<Line(1, "ann", 0, 1, None), Line(2, "ann", 0, 1, None)>>,
     <<Line(3, "ann", 1, 2, None)>>, <<Line(4, "bob", 0, None, None)>>}

MCHeldRows == {Line(6, "ann", 0, 0, 1)}

Request(op, actor, cutoff, dry, only) ==
    [op |-> op, actor |-> actor, cutoff |-> cutoff, dry |-> dry, transcriptOnly |-> only]

MCRequests ==
    {Request("c1", "ann", 1, TRUE, TRUE), Request("c1", "ann", 1, FALSE, TRUE),
     Request("c2", None, 2, FALSE, TRUE), Request("c2", None, 2, FALSE, FALSE)}

Observation(n, kind, len) ==
    [n |-> n, kind |-> kind, key |-> "ann", actor |-> "ann", at |-> 0, len |-> len,
     trusted |-> TRUE, activity |-> "voice_joined"]

MCObservations ==
    {Observation(1, "actor_message", 1), Observation(2, "actor_message", 2),
     Observation(3, "activity_event", 0)}

MCDelivered ==
    {[n |-> 4, key |-> "ann", actor |-> "ann", at |-> 0, ok |-> TRUE, len |-> 1],
     [n |-> 5, key |-> "ann", actor |-> "ann", at |-> 0, ok |-> FALSE, len |-> 1]}

-----------------------------------------------------------------------------
MemoryAtRest ==
    /\ Init /\ ~durable /\ index = [m \in Memories |-> NoEntry]
    /\ config = CHOOSE c \in Configs : TRUE

DatabaseAtRest == DatabaseInit /\ file = None

RetrievalAtRest == RetrievalInit /\ retriever = "text"

\* No turn is under way; and the same without turns to come.
TurnsAtRest == TurnInit /\ ~cleanupEnabled /\ rows = {}

NoTurns ==
    /\ TranscriptInit /\ ~cleanupEnabled /\ rows = {}
    /\ turns = {} /\ submits = <<>> /\ reported = {} /\ barred = {}
    /\ history = [k \in ConversationKeys |-> <<>>] /\ window = BuildWindow(<<>>)

MCInit ==
    \/ scene = "index" /\ Init /\ DatabaseAtRest /\ RetrievalAtRest /\ NoTurns
    \/ scene = "database" /\ MemoryAtRest /\ DatabaseInit /\ RetrievalAtRest /\ NoTurns
    \/ scene \in {"search", "sources"}
       /\ MemoryAtRest /\ DatabaseAtRest /\ RetrievalInit /\ NoTurns
    \/ scene = "transcript" /\ MemoryAtRest /\ DatabaseAtRest /\ RetrievalAtRest /\ TurnInit
    \/ scene = "turns" /\ MemoryAtRest /\ DatabaseAtRest /\ RetrievalAtRest /\ TurnsAtRest

\* The bounds of the last two scenes are met: nothing more happens.
Rest == scene \in {"transcript", "turns"} /\ UNCHANGED storeVars

MCNext ==
    \/ /\ scene = "index" /\ Next
       /\ UNCHANGED <<scene, databaseVars, retrievalVars, turnVars>>
    \/ /\ scene = "database" /\ DatabaseNext
       /\ UNCHANGED <<scene, vars, retrievalVars, turnVars>>
    \/ /\ scene = "search" /\ MemoryStep
       /\ UNCHANGED <<scene, vars, databaseVars, turnVars>>
    \/ /\ scene = "sources" /\ SourceStep
       /\ UNCHANGED <<scene, vars, databaseVars, turnVars>>
    \/ /\ scene = "transcript" /\ TranscriptNext
       /\ UNCHANGED <<turns, submits, history, reported, window, barred>>
       /\ UNCHANGED <<scene, vars, databaseVars, retrievalVars>>
    \/ /\ scene = "turns" /\ TurnNext
       /\ UNCHANGED <<scene, vars, databaseVars, retrievalVars>>
    \/ Rest

MCSpec == MCInit /\ [][MCNext]_storeVars
=============================================================================
