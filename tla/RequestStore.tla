---------------------------- MODULE RequestStore ----------------------------
(***************************************************************************)
(* The table of finished requests (storage.Backend on SQLite and           *)
(* PostgreSQL) and the two ways of reading it page by page: the request    *)
(* list, whose cursor is the created_at of the last row of a page, and the *)
(* requests of a session, which are skipped by number.  Rows are stamped   *)
(* before they are saved, each by the goroutine of its request, so that an *)
(* older row may come in behind a younger one.                             *)
(***************************************************************************)
EXTENDS Integers, FiniteSetsExt

CONSTANTS
    Sessions,
    Containing,     \* of a name: the sessions whose names contain it
    Finished,       \* requests that finish: [session, big, gzip], where big means at least
                    \* MinSize long, and gzip that the upstream has compressed the answer
    PageSize,
    MaxRows,        \* bound on the rows
    MaxMillis,      \* bound on the clock
    NoCursor

ASSUME RequestStoreAssumption ==
    /\ Containing \in [Sessions -> SUBSET Sessions]
    /\ \A s \in Sessions : s \in Containing[s]
    /\ Finished \subseteq [session : Sessions, big : BOOLEAN, gzip : BOOLEAN]
    /\ PageSize \in Nat \ {0} /\ MaxRows \in Nat /\ MaxMillis \in Nat
    /\ NoCursor \notin Nat

VARIABLES
    engine,         \* "sqlite" or "postgres"
    compressing,    \* CompressionConfig.Enabled
    millis,         \* time.Now().UnixMilli()
    saving,         \* stamped rows whose goroutine has yet to save them
    saved,          \* history: rows whose SaveRequest has returned
    rows,           \* the table requests
    reading,        \* a client: "idle", "list", "session", "end" or "failed"
    wanted,         \* the session it asks for
    cursor,         \* X-Next-Cursor of the page it has
    offset,         \* how many rows of the session it has asked for
    pages,          \* history: the pages it has got
    atStart         \* history: the table when it began

client == <<reading, wanted, cursor, offset, pages, atStart>>
tableVars == <<engine, compressing, millis, saving, saved, rows, client>>

RequestStoreInit ==
    /\ engine \in {"sqlite", "postgres"} /\ compressing \in BOOLEAN
    /\ millis = 1
    /\ saving = {} /\ saved = {} /\ rows = {}
    /\ reading = "idle" /\ wanted \in Sessions
    /\ cursor = NoCursor /\ offset = 0
    /\ pages = {} /\ atStart = {}

-----------------------------------------------------------------------------
(* How often the bytes of a body are compressed                            *)

Layers(r) == IF r.gzip THEN 1 ELSE 0

\* Mutant: the switch is ignored.
CompressAlways(r) == Layers(r) + IF r.big THEN 1 ELSE 0

CompressBody(r) == Layers(r) + IF compressing /\ r.big THEN 1 ELSE 0

\* Mutant: only what is configured is undone.
DecompressConfigured(layers) == IF compressing /\ layers > 1 THEN layers - 1 ELSE layers

\* By the magic number: whatever is compressed is decompressed, once.
DecompressBody(layers) == IF layers > 0 THEN layers - 1 ELSE layers

\* GetSessionRequests of SQLite returns what is in the table.
SessionBody(layers) == IF engine = "sqlite" THEN layers ELSE DecompressBody(layers)

-----------------------------------------------------------------------------
(* Saving                                                                  *)

Millisecond ==
    /\ millis < MaxMillis
    /\ millis' = millis + 1
    /\ UNCHANGED <<engine, compressing, saving, saved, rows, client>>

\* storedReq, with the time of now
Stamp(f) ==
    LET n == Cardinality(saving \cup saved) IN
    /\ n < MaxRows
    /\ saving' = saving \cup {[id |-> n + 1, session |-> f.session, big |-> f.big,
                               gzip |-> f.gzip, at |-> millis]}
    /\ UNCHANGED <<engine, compressing, millis, saved, rows, client>>

Returns(r) ==
    /\ r \in saving
    /\ saving' = saving \ {r} /\ saved' = saved \cup {r}
    /\ UNCHANGED <<engine, compressing, millis, client>>

SaveSQLite(r) ==
    /\ engine = "sqlite"
    /\ Returns(r)
    /\ rows' = rows \cup {r}

\* A TEXT column of PostgreSQL takes valid UTF-8 only, which gzip does not produce:
\* INSERT fails and main logs it.
SavePostgres(r) ==
    /\ engine = "postgres"
    /\ Returns(r)
    /\ rows' = IF CompressBody(r) > 0 THEN rows ELSE rows \cup {r}

-----------------------------------------------------------------------------
(* Reading                                                                 *)

Earliest(S) == Min({r.at : r \in S})

\* LIMIT and OFFSET over ORDER BY created_at DESC, which leaves rows of one
\* millisecond in any order: what may be on the page after skip rows.
PagesAfter(S, skip) ==
    LET Newest(T, n) ==
          {P \in SUBSET T : /\ Cardinality(P) = Min({n, Cardinality(T)})
                            /\ \A p \in P, q \in T \ P : p.at >= q.at}
    IN UNION {Newest(S \ P, PageSize) : P \in Newest(S, skip)}

\* Mutant: the next page starts at the cursor.
BelowOrAt(at, c) == c = NoCursor \/ at <= c

Below(at, c) == c = NoCursor \/ at < c

\* session_id LIKE '%s%', and the page below the cursor
QueryRequests(s, c) == PagesAfter({r \in rows : r.session \in Containing[s] /\ Below(r.at, c)}, 0)

\* session_id = s
GetSessionRequests(s, skip) == PagesAfter({r \in rows : r.session = s}, skip)

Begin(how) ==
    /\ reading = "idle"
    /\ reading' = how
    /\ atStart' = rows
    /\ UNCHANGED <<engine, compressing, millis, saving, saved, rows, wanted, cursor, offset, pages>>

\* Mutant: a page that is just full counts as the last.
MoreThanFull(P) == Cardinality(P) > PageSize

\* A full page comes with the header X-Next-Cursor.
HasNext(P) == Cardinality(P) = PageSize

\* GET /api/requests; a client asks again while there is a cursor.
ListRequests ==
    /\ reading = "list" /\ (engine = "sqlite" \/ cursor = NoCursor)
    /\ \E P \in QueryRequests(wanted, cursor) :
         /\ pages' = pages \cup {P}
         /\ reading' = IF HasNext(P) THEN "list" ELSE "end"
         /\ cursor' = IF HasNext(P) THEN Earliest(P) ELSE NoCursor
    /\ UNCHANGED <<engine, compressing, millis, saving, saved, rows, wanted, offset, atStart>>

\* created_at is a TIMESTAMP there and the cursor goes in as an integer: status 500.
ListFails ==
    /\ reading = "list" /\ engine = "postgres" /\ cursor # NoCursor
    /\ reading' = "failed"
    /\ UNCHANGED <<engine, compressing, millis, saving, saved, rows, wanted, cursor, offset,
                   pages, atStart>>

\* Mutant: off by one.
NextOffsetSkipping == offset + PageSize + 1

NextOffset == offset + PageSize

\* GET /api/sessions/{id}
ListSession ==
    /\ reading = "session"
    /\ \E P \in GetSessionRequests(wanted, offset) :
         /\ pages' = pages \cup {P}
         /\ reading' = IF Cardinality(P) = PageSize THEN "session" ELSE "end"
    /\ offset' = NextOffset
    /\ UNCHANGED <<engine, compressing, millis, saving, saved, rows, wanted, cursor, atStart>>

RequestStoreNext ==
    \/ Millisecond
    \/ \E f \in Finished : Stamp(f)
    \/ \E r \in saving : SaveSQLite(r) \/ SavePostgres(r)
    \/ Begin("list") \/ Begin("session")
    \/ ListRequests \/ ListFails \/ ListSession

RequestStoreSpec == RequestStoreInit /\ [][RequestStoreNext]_tableVars

\* Of the client only: it goes on reading.
RequestStoreFairness == WF_tableVars(ListRequests)

-----------------------------------------------------------------------------
(* sqlite.go:293-309, handler.go:159-168: a client that follows the        *)
(* cursors sees the list from young to old and no row twice, while rows    *)
(* keep coming in, some of them late.                                      *)
PagesDescend ==
    cursor # NoCursor \/ reading = "end" =>
        \A P, Q \in pages : P # Q /\ offset = 0 =>
            \/ \A p \in P, q \in Q : p.at > q.at
            \/ \A p \in P, q \in Q : p.at < q.at

(* handler.go:159-168: pages descend, and at the end the client has seen   *)
(* every row that was there when it began and that its filter matches, but *)
(* for those of the same millisecond as the last row of some page.         *)
ListComplete ==
    /\ PagesDescend
    /\ reading = "end" /\ offset = 0 =>
         \A r \in atStart : r.session \in Containing[wanted] =>
             r \in UNION pages \/ \E P \in pages : P # {} /\ r.at = Earliest(P)

(* handler.go:305-318: rows that come in shift the others back, so that a  *)
(* client that counts its way through a session may see some twice but     *)
(* misses none that was there, unless two share a millisecond.             *)
SessionComplete ==
    reading = "end" /\ offset > 0 =>
        \/ \E r, q \in rows : r # q /\ r.session = q.session /\ r.at = q.at
        \/ {r \in atStart : r.session = wanted} \subseteq UNION pages

(* compress.go:28-71, sqlite.go:152-161: the list shows a body as it was   *)
(* saved, but one that is compressed already and too short to be           *)
(* compressed again is shown in plain; the requests of a session are shown *)
(* wrong exactly if the store has compressed them.                         *)
BodiesBack ==
    \A r \in rows :
        LET stored == CompressBody(r)
        IN /\ DecompressBody(stored) = Layers(r) <=> ~r.gzip \/ (compressing /\ r.big)
           /\ SessionBody(stored) = Layers(r) <=> ~(compressing /\ r.big)

(* postgres.go:162-191: every finished request is in the table, but on     *)
(* PostgreSQL those that were compressed, by the upstream or by the store. *)
OnlyGzipIsLost ==
    saved \ rows = {r \in saved : engine = "postgres" /\ (r.gzip \/ (compressing /\ r.big))}

(* What becomes of a body between SaveRequest and the pages that show it,  *)
(* on either engine, compressed by the upstream, by the store or not.      *)
BodiesKept == BodiesBack /\ OnlyGzipIsLost

(* handler.go:159-168: a client that goes on following the cursors comes   *)
(* to the end of the list however many rows share a millisecond.           *)
ListEnds == engine = "sqlite" => (reading = "list" ~> reading = "end")
=============================================================================
