------------------------------- MODULE RunPages -------------------------------
(***************************************************************************)
(* The list of a repository's runs, page after page.  A page is one        *)
(* statement: the runs before the cursor, latest start first, one more     *)
(* than fit; the cursor is the start and the id of the last run shown.     *)
(*                                                                         *)
(* Between two pages runs are stored, started again and deleted.           *)
(***************************************************************************)
EXTENDS Naturals, FiniteSets

CONSTANTS
  RunIds,      \* ids in the order of the database: a set of numbers
  PageSize,
  LastStart,   \* bound: instants at which runs start
  MaxMoves     \* bound: changes while the pages are read

ASSUME RunPagesAssumption ==
  /\ RunIds \subseteq Nat \ {0} /\ IsFiniteSet(RunIds)
  /\ PageSize \in Nat \ {0} /\ LastStart \in Nat /\ MaxMoves \in Nat

Absent == 0

VARIABLES
  startedAt,  \* of each run, or absent
  reader,     \* the cursor of the next page, and whether there is one
  \* observation and bound
  shown,      \* how often each run was shown, up to twice
  moved,      \* runs stored, started again or deleted since the first page
  moves

runPagesVars == <<startedAt, reader, shown, moved, moves>>

Top == [start |-> LastStart + 1, id |-> 0]

RunPagesTypeOK ==
  /\ startedAt \in [RunIds -> 0 .. LastStart]
  /\ reader \in [cursor : [start : 1 .. LastStart + 1, id : RunIds \cup {0}],
                 state : {"first", "more", "end"}]
  /\ shown \in [RunIds -> 0 .. 2]
  /\ moved \in SUBSET RunIds
  /\ moves \in 0 .. MaxMoves

RunPagesInit ==
  /\ startedAt \in [RunIds -> 0 .. LastStart]
  /\ reader = [cursor |-> Top, state |-> "first"]
  /\ shown = [r \in RunIds |-> 0]
  /\ moved = {} /\ moves = 0

Listed == {r \in RunIds : startedAt[r] # Absent}

\* ORDER BY started_at DESC, id DESC: r comes before s.
Precedes(r, s) ==
  startedAt[r] > startedAt[s] \/ (startedAt[r] = startedAt[s] /\ r > s)

\* Mutant: the runs that started with the last one shown are left out.
BeforeCursor_NoTies(r) == startedAt[r] < reader.cursor.start

\* buildListConditions
BeforeCursor(r) ==
  \/ startedAt[r] < reader.cursor.start
  \/ startedAt[r] = reader.cursor.start /\ r < reader.cursor.id

\* listWorkspacePipelineRuns
ListPage ==
  LET rows == {r \in Listed : BeforeCursor(r)}
      Rank(r) == Cardinality({s \in rows : Precedes(s, r)})
      fetched == {r \in rows : Rank(r) <= PageSize}
      page == {r \in rows : Rank(r) < PageSize}
  IN
  /\ reader.state # "end"
  /\ shown' = [r \in RunIds |-> IF r \in page /\ shown[r] < 2 THEN shown[r] + 1 ELSE shown[r]]
  /\ IF Cardinality(fetched) > PageSize
       THEN \E last \in page :
              /\ Rank(last) = PageSize - 1
              /\ reader' = [cursor |-> [start |-> startedAt[last], id |-> last], state |-> "more"]
       ELSE reader' = [cursor |-> Top, state |-> "end"]
  /\ UNCHANGED <<startedAt, moved, moves>>

\* A run is stored, or starts again - or a late delivery takes its start back.
Upsert(r) ==
  /\ moves < MaxMoves /\ moves' = moves + 1
  /\ \E t \in 1 .. LastStart : startedAt[r] # t /\ startedAt' = [startedAt EXCEPT ![r] = t]
  /\ moved' = moved \cup {r}
  /\ UNCHANGED <<reader, shown>>

\* deleteWorkspacePipelineRun, or the nightly cleanup.
DeleteRun(r) ==
  /\ moves < MaxMoves /\ moves' = moves + 1
  /\ r \in Listed
  /\ startedAt' = [startedAt EXCEPT ![r] = Absent]
  /\ moved' = moved \cup {r}
  /\ UNCHANGED <<reader, shown>>

RunPagesNext ==
  \/ ListPage
  \/ \E r \in RunIds : Upsert(r) \/ DeleteRun(r)

RunPagesSpec == RunPagesInit /\ [][RunPagesNext]_runPagesVars

-----------------------------------------------------------------------------

\* Whatever happens to the others between two pages, a run that is not touched is
\* on one page, never on two and in the end never on none: it has been shown just
\* when the cursor says so.
EachRunOnce ==
  \A r \in Listed \ moved :
    shown[r] = IF reader.state # "end" /\ BeforeCursor(r) THEN 0 ELSE 1

=============================================================================
