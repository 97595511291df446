------------------------------ MODULE StudioLists ------------------------------
(* The lists of the Studio API. A client follows the cursor of the profile list, or
   the offset of the cluster task list, while profiles are created, updated and
   deleted. Pure helpers: the CSV export and import of profiles, and the tiling of
   their windows (src/api/server.ts, calculateGridLayout of src/synchronizer/index.ts). *)
EXTENDS PureInput, FiniteSets, SequencesExt

CONSTANTS Listed,         \* profile ids, as numbers: localeCompare is their order
          PageLimits,     \* page sizes a client may ask for
          FetchCap,       \* tasks one request reads at most (500)
          MaxTasks,       \* bound: tasks in the queue
          MaxListTime,    \* bound: changes of the catalogue
          CellLength,   \* bound: characters of a cell
          MaxWindows,   \* bound: windows on the screen
          ScreenSizes   \* [width, height] of the screen

VARIABLES catalog,   \* profile -> updatedAt, 0 if there is none
          listTime,
          client,    \* [list, limit, cursor, seen, more]
          touched    \* history: profiles changed since the list began

listVars == <<catalog, listTime, client, touched>>

NoCursor == [updatedAt |-> 0, id |-> 0]
Start == [list |-> "none", limit |-> 1, cursor |-> NoCursor, offset |-> 0, total |-> 0, seen |-> << >>, more |-> FALSE]

ListsInit ==
    /\ catalog \in [Listed -> 0..1] /\ listTime = 1
    /\ client = Start /\ touched = {}

\* The order of the list: updatedAt falls, then the id does.
Before(p, q) == catalog[p] > catalog[q] \/ (catalog[p] = catalog[q] /\ p > q)

Existing == {p \in Listed : catalog[p] # 0}
Sorted == CHOOSE s \in [1..Cardinality(Existing) -> Existing] :
             \A i, j \in 1..Cardinality(Existing) : i < j => Before(s[i], s[j])

\* Mutant: the page begins at the cursor's own profile.
AfterCursorInclusive(p, cursor) ==
    cursor = NoCursor \/ catalog[p] < cursor.updatedAt \/ (catalog[p] = cursor.updatedAt /\ p <= cursor.id)

AfterCursor(p, cursor) ==
    cursor = NoCursor \/ catalog[p] < cursor.updatedAt \/ (catalog[p] = cursor.updatedAt /\ p < cursor.id)

\* startIndex: the first profile strictly after the cursor, or past the end.
StartIndex(sorted, cursor) ==
    LET after == {i \in DOMAIN sorted : AfterCursor(sorted[i], cursor)} IN
    IF after = {} THEN Len(sorted) + 1 ELSE CHOOSE i \in after : \A j \in after : i <= j

Page(sorted, from, limit) == SubSeq(sorted, from, IF from + limit - 1 <= Len(sorted) THEN from + limit - 1 ELSE Len(sorted))

BeginProfiles(limit) ==
    /\ client.list = "none"
    /\ client' = [Start EXCEPT !.list = "profiles", !.limit = limit, !.more = TRUE] /\ touched' = {}
    /\ UNCHANGED <<catalog, listTime>>

\* One request of the profile list and its nextCursor.
NextProfiles ==
    /\ client.list = "profiles" /\ client.more
    /\ LET sorted == Sorted
           from == StartIndex(sorted, client.cursor)
           items == Page(sorted, from, client.limit)
           more == from - 1 + client.limit < Len(sorted) /\ items # << >> IN
       client' = [client EXCEPT !.seen = @ \o items, !.more = more,
                    !.cursor = IF more THEN [updatedAt |-> catalog[items[Len(items)]], id |-> items[Len(items)]] ELSE @]
    /\ UNCHANGED <<catalog, listTime, touched>>

\* A profile is created or updated now, or deleted.
Touch(p) ==
    /\ listTime < MaxListTime /\ listTime' = listTime + 1
    /\ \E at \in {0, listTime, listTime + 1} : catalog' = [catalog EXCEPT ![p] = at]
    /\ touched' = touched \cup {p}
    /\ UNCHANGED client

-------------------------------------------------------------------------------
BeginTasks(limit, total) ==
    /\ client.list = "none"
    /\ client' = [Start EXCEPT !.list = "tasks", !.limit = limit, !.total = total, !.more = TRUE]
    /\ UNCHANGED <<catalog, listTime, touched>>

\* listClusterTasks reads one task past the page, up to the cap.
Fetched(offset, limit, total) ==
    LET wanted == IF offset + limit + 1 < FetchCap THEN offset + limit + 1 ELSE FetchCap IN
    IF total < wanted THEN total ELSE wanted

\* One request of the task list; X-Has-More tells the client to go on.
NextTasks ==
    /\ client.list = "tasks" /\ client.more
    /\ LET raw == Fetched(client.offset, client.limit, client.total)
           last == IF raw < client.offset + client.limit THEN raw ELSE client.offset + client.limit IN
       client' = [client EXCEPT !.seen = @ \o [i \in 1..(last - client.offset) |-> client.offset + i],
                                !.offset = @ + client.limit, !.more = raw > client.offset + client.limit]
    /\ UNCHANGED <<catalog, listTime, touched>>

ListsNext ==
    \/ \E l \in PageLimits : BeginProfiles(l) \/ \E n \in 0..MaxTasks : BeginTasks(l, n)
    \/ NextProfiles \/ NextTasks
    \/ \E p \in Listed : Touch(p)

ListsSpec == ListsInit /\ [][ListsNext]_listVars

-------------------------------------------------------------------------------
Times(x) == Cardinality({i \in DOMAIN client.seen : client.seen[i] = x})

\* A profile nobody changed since the first page is listed once when the cursor
\* ends, and never twice, whatever was created, updated or deleted in between.
ListedOnce ==
    client.list = "profiles" =>
       \A p \in Listed \ touched : /\ Times(p) <= 1
                                   /\ ~client.more => (Times(p) = 1 <=> catalog[p] # 0)

\* A client that follows X-Has-More sees every task while the queue holds fewer
\* than one request can read.
TasksReached ==
    client.list = "tasks" /\ ~client.more /\ client.total < FetchCap
    => client.seen = [i \in 1..client.total |-> i]

-------------------------------------------------------------------------------
(* Pure helpers *)

\* A character is a letter, a space, a quotation mark or one of the separators.
Characters == {"a", " ", "quote", "comma", "tab"}
Separators == {"comma", "tab"}

Blanks == {" ", "tab"}

\* trim(): without the blanks at the ends.
Trim(s) ==
    LET kept == {i \in DOMAIN s : s[i] \notin Blanks} IN
    IF kept = {} THEN << >> ELSE SubSeq(s, Min(kept), Max(kept))

Cells == BoundedSeq(Characters, CellLength)

\* csvCell: the cell in quotation marks, its own doubled.
CsvCell(s) ==
    <<"quote">> \o FoldLeft(LAMBDA out, c : out \o IF c = "quote" THEN <<c, c>> ELSE <<c>>, << >>, s) \o <<"quote">>

CsvRow(cells) == CsvCell(cells[1]) \o <<"comma">> \o CsvCell(cells[2])

\* parseCsvLine: a doubled mark inside quotes stands for one, a separator outside
\* ends the cell. "skip" says that the next character was read already.
ParseStep(line, state, i) ==
    LET c == line[i] IN
    IF state.skip THEN [state EXCEPT !.skip = FALSE]
    ELSE IF c = "quote"
         THEN IF state.quoted /\ i < Len(line) /\ line[i + 1] = "quote"
              THEN [state EXCEPT !.current = Append(@, c), !.skip = TRUE]
              ELSE [state EXCEPT !.quoted = ~@]
    ELSE IF ~state.quoted /\ c \in Separators
         THEN [state EXCEPT !.fields = Append(@, Trim(state.current)), !.current = << >>]
    ELSE [state EXCEPT !.current = Append(@, c)]

ParseCsvLine(line) ==
    LET end == FoldLeft(LAMBDA state, i : ParseStep(line, state, i),
                        [fields |-> << >>, current |-> << >>, quoted |-> FALSE, skip |-> FALSE],
                        [i \in 1..Len(line) |-> i]) IN
    Append(end.fields, Trim(end.current))

\* The import reads the rows twice: one bad distribution refuses them all before
\* the first profile is created. A row is [name, engine, distribution].
RowOK(row) == row.distribution = "none" \/ row.engine = "chromium"
Imported(rows) ==
    IF \E i \in DOMAIN rows : rows[i].name # << >> /\ ~RowOK(rows[i]) THEN [code |-> "INVALID_INPUT", created |-> {}]
    ELSE [code |-> "OK", created |-> {i \in DOMAIN rows : rows[i].name # << >>}]

-------------------------------------------------------------------------------
Columns(n) == IF n = 2 \/ n <= 4 THEN 2 ELSE IF n <= 9 THEN 3 ELSE 4
Rows(n) == IF n = 2 THEN 1 ELSE IF n <= 6 THEN 2 ELSE IF n <= 9 THEN 3 ELSE (n + 3) \div 4

\* calculateGridLayout: equal tiles, row by row.
GridLayout(n, screen) ==
    LET w == screen.width \div Columns(n)
        h == screen.height \div Rows(n) IN
    [i \in 1..n |-> [x |-> ((i - 1) % Columns(n)) * w, y |-> ((i - 1) \div Columns(n)) * h, width |-> w, height |-> h]]

-------------------------------------------------------------------------------
ImportRows == [name : {<< >>, <<"a">>}, engine : {"chromium", "firefox"}, distribution : {"none", "chromix-152"}]
TablesGiven ==
    \/ Given("csv", {<<a, b>> : a \in Cells, b \in {<<"a">>, <<"quote">>}})
    \/ Given("import", BoundedSeq(ImportRows, 2))
    \/ Given("grid", [n : 1..MaxWindows, screen : ScreenSizes])
TablesAnswers ==
    \/ Answers("csv", ParseCsvLine(CsvRow(input.value)))
    \/ Answers("import", Imported(input.value))
    \/ Answers("grid", GridLayout(input.value.n, input.value.screen))

\* What the export writes the import reads back, cell by cell, whatever separators
\* and quotation marks a name holds; only the spaces and tabs at its ends are lost.
CsvRoundTrip ==
    Evaluated("csv") => answer[1] = <<Trim(input.value[1]), Trim(input.value[2])>>

\* An import refused over the distribution of any row has created nothing, and one
\* that is accepted has created every named row.
ImportAllOrNone ==
    Evaluated("import") =>
       answer[1].created = IF answer[1].code = "OK" THEN {i \in DOMAIN input.value : input.value[i].name # << >>} ELSE {}

\* The windows of a layout lie on the screen and no two overlap, for every number
\* of windows, also where the number of rows changes.
TilesDisjoint ==
    Evaluated("grid") =>
       LET tiles == answer[1]
           on(t) == t.x + t.width <= input.value.screen.width /\ t.y + t.height <= input.value.screen.height
           apart(s, t) == \/ s.x + s.width <= t.x \/ t.x + t.width <= s.x
                          \/ s.y + s.height <= t.y \/ t.y + t.height <= s.y IN
       \A i \in DOMAIN tiles : on(tiles[i]) /\ \A j \in DOMAIN tiles : i # j => apart(tiles[i], tiles[j])
===============================================================================
