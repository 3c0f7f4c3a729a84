----------------------------- MODULE Dashboard -----------------------------
(***************************************************************************)
(* The case store as the dashboard reads it.  Both implementations of       *)
(* CaseStore are kept side by side and take the same upserts; a request of  *)
(* the dashboard asks one of them, in several calls between which the       *)
(* engine goes on storing cases.  Requests only read, so one is enough.     *)
(*                                                                         *)
(* Time is a clock that moves when a case is created: no two cases are      *)
(* created at the same instant.  A store call that fails answers like an    *)
(* empty store, or, for a count, with the length of the page.               *)
(***************************************************************************)
EXTENDS Integers, Sequences, FiniteSets

CONSTANTS Keys,
          Absent,     \* no row
          Unset,      \* a field of a filter that is not set
          PageSizes,  \* the limits clients ask for
          MaxLimit,   \* the most cases a page has
          MaxClock    \* bound: cases created

States == {"running", "waiting", "finished"}
Stores == {"memory", "postgres"}
Times  == 0..MaxClock
Rows   == [state : States, created : Times]

ASSUME DashboardAssumption ==
  /\ PageSizes \subseteq Nat \ {0} /\ MaxLimit \in Nat \ {0} /\ MaxClock \in Nat
  /\ Absent \notin Rows /\ Unset \notin States /\ Unset \notin Times

VARIABLES
  clock,
  born,      \* the creation times a case of each key has been made with
  tables,    \* the rows of each store
  request,   \* the request that is under way
  due,       \* history: the cases a client who reads the pages must be shown; none once a
             \* call has failed, or a case of a listing of finished cases is active again
  reopened,  \* history: keys listed as Finished and then stored as active again
  ended      \* history: keys counted as active and then stored as Finished

vars == <<clock, born, tables, request, due, reopened, ended>>

NoRequest == [op |-> "none"]
Answered  == request.op \in {"paged", "answered"}  \* bound: nothing is stored afterwards

Init ==
  /\ clock = 0 /\ born = [k \in Keys |-> {}]
  /\ tables = [d \in Stores |-> [k \in Keys |-> Absent]]
  /\ request = NoRequest /\ due = {} /\ reopened = {} /\ ended = {}

-----------------------------------------------------------------------------
(* The stores.                                                              *)

\* Case::new: an owner makes a case, or spawn_child makes a child, which with a given key
\* may be one that there was before.
Create(k) ==
  /\ clock < MaxClock /\ ~Answered
  /\ clock' = clock + 1
  /\ born' = [born EXCEPT ![k] = @ \cup {clock + 1}]
  /\ UNCHANGED <<tables, request, due, reopened, ended>>

\* DO UPDATE SET names every column, created_at too.
PostgresRowReplaced(old, row) == row

MemoryRow(old, row) == row
PostgresRow(old, row) == IF old = Absent THEN row ELSE [row EXCEPT !.created = old.created]

\* The copy that is stored is any that was made of the case, in any state.
Upsert(k, s, t) ==
  LET row == [state |-> s, created |-> t]
      old == tables["memory"][k]
  IN /\ t \in born[k] /\ ~Answered
     /\ tables' = [tables EXCEPT !["memory"][k] = MemoryRow(@, row),
                                 !["postgres"][k] = PostgresRow(@, row)]
     /\ IF old # Absent /\ old.state = "finished" /\ s # "finished"
          THEN /\ due' = IF request.op \in {"list", "count"} /\ request.state = "finished" THEN {} ELSE due
               /\ reopened' = IF request.op = "calls" THEN reopened \cup (request.found["finished"] \cap {k}) ELSE reopened
          ELSE UNCHANGED <<due, reopened>>
     /\ ended' = IF request.op = "calls" /\ s = "finished" THEN ended \cup (request.counted \cap {k}) ELSE ended
     /\ UNCHANGED <<clock, born, request>>

OfState(s) == [state |-> s, created_after |-> Unset, created_before |-> Unset]

\* The in-memory store drops a row for each field of the filter that it misses.  The bound
\* updated_after is compared like created_after and left out.
MemoryMatches(row, f) ==
  /\ ~(f.state # Unset /\ row.state # f.state)
  /\ ~(f.created_after # Unset /\ row.created <= f.created_after)
  /\ ~(f.created_before # Unset /\ row.created >= f.created_before)

\* A time bound that includes its end.
PostgresMatchesFrom(row, f) ==
  /\ f.state = Unset \/ row.state = f.state
  /\ f.created_after = Unset \/ row.created >= f.created_after
  /\ f.created_before = Unset \/ row.created < f.created_before

PostgresMatches(row, f) ==
  /\ f.state = Unset \/ row.state = f.state
  /\ f.created_after = Unset \/ row.created > f.created_after
  /\ f.created_before = Unset \/ row.created < f.created_before

Found(d, f) ==
  {k \in Keys : /\ tables[d][k] # Absent
                /\ IF d = "memory" THEN MemoryMatches(tables[d][k], f)
                   ELSE PostgresMatches(tables[d][k], f)}

\* The answer of list is ordered by created_at, oldest first: a case has its place behind
\* those that are older.
Place(d, f, k) == Cardinality({j \in Found(d, f) : tables[d][j].created < tables[d][k].created})

Listed(d, f) == [k \in Found(d, f) |-> Place(d, f, k)]

Limit(size) == IF size < MaxLimit THEN size ELSE MaxLimit

Page(d, f, offset, size) == {k \in Found(d, f) : Place(d, f, k) \in offset..(offset + Limit(size) - 1)}

-----------------------------------------------------------------------------
(* GET /api/cases for every case or for those of one state: a client reads  *)
(* page after page until the total says that there is no more, and moves on *)
(* by the size that it asked for.                                           *)

PagesStart(d, s, size) ==
  /\ request = NoRequest
  /\ request' = [op |-> "list", store |-> d, state |-> s, size |-> size, offset |-> 0,
                 items |-> {}, shown |-> {}]
  /\ due' = IF s \in {Unset, "finished"} THEN Found(d, OfState(s)) ELSE {}
  /\ UNCHANGED <<clock, born, tables, reopened, ended>>

PageList ==
  /\ request.op = "list"
  /\ \/ /\ request' = [request EXCEPT !.op = "count",
                         !.items = Page(request.store, OfState(request.state), request.offset, request.size)]
        /\ UNCHANGED due
     \/ /\ request' = [request EXCEPT !.op = "count", !.items = {}]
        /\ due' = {}
  /\ UNCHANGED <<clock, born, tables, reopened, ended>>

PageAnswered(total) ==
  request' = [request EXCEPT
    !.op = IF request.offset + request.size < total THEN "list" ELSE "paged",
    !.offset = IF request.offset + request.size < total THEN @ + request.size ELSE @,
    !.shown = @ \cup request.items, !.items = {}]

PageCount ==
  /\ request.op = "count"
  /\ \/ PageAnswered(Cardinality(Found(request.store, OfState(request.state)))) /\ UNCHANGED due
     \/ PageAnswered(Cardinality(request.items)) /\ due' = {}
  /\ UNCHANGED <<clock, born, tables, reopened, ended>>

-----------------------------------------------------------------------------
(* compute_stats, and the listing of the active cases.  The statistics      *)
(* count the running and the waiting cases, list the finished and then the  *)
(* active ones, and answer with the two counts beside what they compute     *)
(* from the lists.  A count stands here for the cases it counts.  All cases *)
(* are younger than the window of the statistics.                           *)

CountOf(s) == [call |-> "count", state |-> s]
ListOf(s)  == [call |-> "list", state |-> s]

ActiveFirst == <<CountOf("running"), CountOf("waiting"), ListOf("running"), ListOf("waiting"),
                 ListOf("finished")>>

StatsCalls == <<CountOf("running"), CountOf("waiting"), ListOf("finished"), ListOf("running"),
                ListOf("waiting")>>

ActiveCalls == <<ListOf("running"), ListOf("waiting")>>

CallsStart(d, calls) ==
  /\ request = NoRequest
  /\ request' = [op |-> "calls", store |-> d, calls |-> calls, at |-> 1, counted |-> {},
                 found |-> [s \in States |-> {}]]
  /\ UNCHANGED <<clock, born, tables, due, reopened, ended>>

CallReturns(c, answer) ==
  request' = [request EXCEPT
    !.at = @ + 1,
    !.op = IF request.at = Len(request.calls) THEN "answered" ELSE @,
    !.counted = IF c.call = "count" THEN @ \cup answer ELSE @,
    !.found[c.state] = IF c.call = "list" THEN answer ELSE @]

CallNext ==
  /\ request.op = "calls"
  /\ LET c == request.calls[request.at] IN
       \E answer \in {Found(request.store, OfState(c.state)), {}} : CallReturns(c, answer)
  /\ UNCHANGED <<clock, born, tables, due, reopened, ended>>

Next ==
  \/ \E k \in Keys : Create(k) \/ \E s \in States, t \in born[k] : Upsert(k, s, t)
  \/ \E d \in Stores :
       \/ \E s \in States \cup {Unset}, size \in PageSizes : PagesStart(d, s, size)
       \/ CallsStart(d, StatsCalls) \/ CallsStart(d, ActiveCalls)
  \/ PageList \/ PageCount
  \/ CallNext

Spec == Init /\ [][Next]_vars

-----------------------------------------------------------------------------
Recreated == {k \in Keys : \E t, u \in born[k] : t # u}

(* A client that pages through all cases, or through the finished ones, is  *)
(* shown every case that was there when it began, though cases are stored   *)
(* and finish between its pages, if it asks for pages no larger than the    *)
(* server makes them.  PostgreSQL keeps the creation time by which the      *)
(* pages are ordered; the in-memory store takes it over from a case made    *)
(* again under the same key, and then the pages shift.                      *)
PagesMissNone ==
  (request.op = "paged" /\ request.size <= MaxLimit /\ (request.store = "memory" => Recreated = {})) =>
    due \subseteq request.shown

FinishedAndActive == request.found["finished"] \cap (request.found["running"] \cup request.found["waiting"])

CountedAndFinished == request.counted \cap request.found["finished"]

(* The rate of completed cases, the finished among those listed, has no     *)
(* case twice: Finished is listed first and is final, unless a case of the  *)
(* key is made or run again.  The counts that are shown beside the rate do  *)
(* not add up with it: they were taken before, and have a case that is      *)
(* listed as finished if it ended in between, but only then.                *)
CountedOnce ==
  request.op = "answered" => FinishedAndActive \subseteq reopened /\ CountedAndFinished \subseteq ended

Filters == [state : States \cup {Unset}, created_after : Times \cup {Unset},
            created_before : Times \cup {Unset}]

(* The two stores can stand for each other: the same upserts lead to the    *)
(* same answer to any filter, in the same order, as long as no key is used  *)
(* for a second case.                                                       *)
StoresAgree ==
  Recreated = {} => \A f \in Filters : Listed("memory", f) = Listed("postgres", f)

\* What strengthens these to inductive invariants: both stores hold the same cases in the
\* same states, and a case that a request found finished still is, or was reopened.
RowsInv ==
  /\ clock \in Times /\ born \in [Keys -> SUBSET Times]
  /\ tables \in [Stores -> [Keys -> Rows \cup {Absent}]]
  /\ \A k \in Keys : LET m == tables["memory"][k]  p == tables["postgres"][k] IN
       /\ m = Absent <=> p = Absent
       /\ m # Absent => m.state = p.state /\ m.created \in born[k] /\ p.created \in born[k]

Asks == [op : {"calls", "answered"}, store : Stores, calls : {StatsCalls, ActiveCalls},
         at : 1..6, counted : SUBSET Keys, found : [States -> SUBSET Keys]]

RequestInv ==
  /\ "op" \in DOMAIN request
  /\ request.op \in {"none", "list", "count", "paged", "calls", "answered"}
  /\ request.op \in {"calls", "answered"} => request \in Asks
  /\ request.op = "calls" => request.at <= Len(request.calls)

\* The statistics list the finished cases by their third call.
FinalInv ==
  /\ request.op = "calls" =>
       /\ request.at <= 3 /\ request.calls = StatsCalls => \A s \in States : request.found[s] = {}
       /\ request.calls = ActiveCalls => request.found["finished"] = {}
       /\ \A k \in request.found["finished"] \ reopened :
            tables[request.store][k] # Absent /\ tables[request.store][k].state = "finished"
       /\ \A k \in request.counted \ ended : tables[request.store][k] # Absent
                                            /\ tables[request.store][k].state # "finished"
  /\ request.op \in {"calls", "answered"} =>
       FinishedAndActive \subseteq reopened /\ CountedAndFinished \subseteq ended

\* A case a client must be shown was on a page, or is where it has yet to read: what enters
\* the list can only push it back.
ShownOrAhead(k, from) ==
  LET d == request.store  f == OfState(request.state) IN
  k \in request.shown \/ (k \in Found(d, f) /\ Place(d, f, k) >= from)

RowsFinite == \A d \in Stores : IsFiniteSet({k \in Keys : tables[d][k] # Absent})

Paging == [op : {"list", "count", "paged"}, store : Stores, state : States \cup {Unset},
           size : PageSizes, offset : Nat, items : SUBSET Keys, shown : SUBSET Keys]

PagesInv ==
  /\ RowsFinite
  /\ request.op \in {"list", "count", "paged"} =>
       /\ request \in Paging
       /\ due # {} => request.state \in {Unset, "finished"}
       /\ request.size <= MaxLimit /\ (request.store = "memory" => Recreated = {}) => \A k \in due :
            /\ request.op = "list" => ShownOrAhead(k, request.offset)
            /\ request.op = "count" => k \in request.items \/ ShownOrAhead(k, request.offset + request.size)
            /\ request.op = "paged" => k \in request.shown
=============================================================================
