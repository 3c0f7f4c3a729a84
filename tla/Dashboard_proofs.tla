-------------------------- MODULE Dashboard_proofs --------------------------
(***************************************************************************)
(* That the rate of completed cases has no case twice, that pages miss no   *)
(* case, and that the two case stores can stand for each other, for any     *)
(* number of cases and creations.                                           *)
(***************************************************************************)
EXTENDS Dashboard, FiniteSetTheorems, TLAPS

USE DashboardAssumption

LEMMA InitRows == Init => RowsInv
BY DEF Init, RowsInv, Stores, Times

\* Both stores take the same upsert; PostgreSQL may keep another creation time.
LEMMA UpsertRows ==
  ASSUME RowsInv, NEW k \in Keys, NEW s \in States, NEW t \in born[k], Upsert(k, s, t)
  PROVE  RowsInv'
<1> USE DEF RowsInv
<1> DEFINE row == [state |-> s, created |-> t]
<1>1. t \in Times /\ row \in Rows /\ row # Absent
  BY DEF Rows
<1>2. "memory" \in Stores /\ "postgres" \in Stores
  BY DEF Stores
<1>3. tables' = [tables EXCEPT !["memory"][k] = MemoryRow(@, row),
                               !["postgres"][k] = PostgresRow(@, row)]
  BY DEF Upsert
<1> DEFINE new == PostgresRow(tables["postgres"][k], row)
<1>4. /\ tables'["memory"] = [tables["memory"] EXCEPT ![k] = row]
      /\ tables'["postgres"] = [tables["postgres"] EXCEPT ![k] = new]
      /\ \A d \in Stores : d \in {"memory", "postgres"}
  BY <1>2, <1>3 DEF MemoryRow, Stores
<1>5. new \in Rows /\ new.state = s /\ new.created \in born[k]
  <2>1. CASE tables["postgres"][k] = Absent
    BY <1>1, <2>1 DEF PostgresRow
  <2>2. CASE tables["postgres"][k] # Absent
    <3>1. tables["postgres"][k] \in Rows /\ tables["postgres"][k].created \in born[k]
      BY <1>2, <2>2
    <3> QED BY <1>1, <2>2, <3>1 DEF PostgresRow, Rows
  <2> QED BY <2>1, <2>2
<1>6. new # Absent
  BY <1>5
<1>7. born' = born /\ clock' = clock
  BY DEF Upsert
<1>8. tables' \in [Stores -> [Keys -> Rows \cup {Absent}]]
  BY <1>1, <1>3, <1>5 DEF MemoryRow
<1> HIDE DEF new
<1>9. ASSUME NEW j \in Keys
      PROVE  /\ tables'["memory"][j] = Absent <=> tables'["postgres"][j] = Absent
             /\ tables'["memory"][j] # Absent =>
                  /\ tables'["memory"][j].state = tables'["postgres"][j].state
                  /\ tables'["memory"][j].created \in born[j]
                  /\ tables'["postgres"][j].created \in born[j]
  <2>1. CASE j = k
    <3>1. tables'["memory"][j] = row /\ tables'["postgres"][j] = new
      BY <1>2, <1>4, <2>1
    <3> QED BY <1>1, <1>5, <1>6, <2>1, <3>1
  <2>2. CASE j # k
    BY <1>2, <1>4, <2>2
  <2> QED BY <2>1, <2>2
<1> QED BY <1>7, <1>8, <1>9

LEMMA NextRows == RowsInv /\ [Next]_vars => RowsInv'
<1> SUFFICES ASSUME RowsInv, [Next]_vars PROVE RowsInv'
  OBVIOUS
<1>1. ASSUME NEW k \in Keys, Create(k) PROVE RowsInv'
  <2>1. clock + 1 \in Times
    BY <1>1 DEF Create, RowsInv, Times
  <2> QED BY <1>1, <2>1 DEF Create, RowsInv
<1>2. ASSUME NEW k \in Keys, NEW s \in States, NEW t \in born[k], Upsert(k, s, t) PROVE RowsInv'
  BY <1>2, UpsertRows
<1>3. CASE UNCHANGED <<clock, born, tables>>
  BY <1>3 DEF RowsInv
<1>4. ASSUME NEW d \in Stores,
             (\E s \in States \cup {Unset}, size \in PageSizes : PagesStart(d, s, size))
               \/ CallsStart(d, StatsCalls) \/ CallsStart(d, ActiveCalls)
      PROVE  RowsInv'
  BY <1>3, <1>4 DEF PagesStart, CallsStart
<1>5. CASE PageList \/ PageCount \/ CallNext \/ UNCHANGED vars
  BY <1>3, <1>5 DEF PageList, PageCount, CallNext, vars
<1> QED BY <1>1, <1>2, <1>4, <1>5 DEF Next

LEMMA RowsInvariant == Spec => []RowsInv
BY InitRows, NextRows, PTL DEF Spec

\* A row that was made once has one creation time, so that both stores hold it alike.
LEMMA TablesEqual == RowsInv /\ Recreated = {} => tables["memory"] = tables["postgres"]
<1> SUFFICES ASSUME RowsInv, Recreated = {}, NEW k \in Keys
             PROVE  tables["memory"][k] = tables["postgres"][k]
  BY DEF RowsInv, Stores
<1>1. \A t, u \in born[k] : t = u
  BY DEF Recreated
<1>2. /\ tables["memory"][k] \in Rows \cup {Absent}
      /\ tables["postgres"][k] \in Rows \cup {Absent}
  BY DEF RowsInv, Stores
<1> QED BY <1>1, <1>2 DEF RowsInv, Rows

LEMMA MatchAlike ==
  ASSUME NEW row \in Rows, NEW f \in Filters
  PROVE  MemoryMatches(row, f) <=> PostgresMatches(row, f)
<1>1. /\ row.created \in Int
      /\ f.created_after \in Int \/ f.created_after = Unset
      /\ f.created_before \in Int \/ f.created_before = Unset
  BY DEF Rows, Filters, Times
<1>2. ~(f.created_after # Unset /\ row.created <= f.created_after)
        <=> f.created_after = Unset \/ row.created > f.created_after
  BY <1>1
<1>3. ~(f.created_before # Unset /\ row.created >= f.created_before)
        <=> f.created_before = Unset \/ row.created < f.created_before
  BY <1>1
<1> QED BY <1>2, <1>3 DEF MemoryMatches, PostgresMatches

(* As long as no key is used for a second case, the in-memory store and     *)
(* PostgreSQL give the same answer to every filter, in the same order.      *)
THEOREM StoresAgreeAlways == Spec => []StoresAgree
<1>1. RowsInv => StoresAgree
  <2> SUFFICES ASSUME RowsInv, Recreated = {}, NEW f \in Filters
               PROVE  Listed("memory", f) = Listed("postgres", f)
    BY DEF StoresAgree
  <2>1. tables["memory"] = tables["postgres"]
    BY TablesEqual
  <2>2. \A k \in Keys : tables["memory"][k] # Absent => tables["memory"][k] \in Rows
    BY DEF RowsInv, Stores
  <2>3. Found("memory", f) = Found("postgres", f)
    BY <2>1, <2>2, MatchAlike DEF Found
  <2>4. \A k : Place("memory", f, k) = Place("postgres", f, k)
    BY <2>1, <2>3 DEF Place
  <2> QED BY <2>3, <2>4 DEF Listed
<1> QED BY <1>1, RowsInvariant, PTL

-----------------------------------------------------------------------------
LEMMA CallsShape ==
  /\ Len(StatsCalls) = 5 /\ Len(ActiveCalls) = 2
  /\ \A i \in 1..5 : StatsCalls[i].state \in States /\ StatsCalls[i].call \in {"count", "list"}
  /\ \A i \in 1..2 : StatsCalls[i].call = "count" /\ StatsCalls[i].state # "finished"
  /\ StatsCalls[3] = ListOf("finished")
  /\ \A i \in 4..5 : StatsCalls[i].call = "list" /\ StatsCalls[i].state # "finished"
  /\ \A i \in 1..2 : /\ ActiveCalls[i].state \in States /\ ActiveCalls[i].state # "finished"
                      /\ ActiveCalls[i].call = "list"
<1>1. /\ Len(StatsCalls) = 5 /\ Len(ActiveCalls) = 2
      /\ StatsCalls[1] = CountOf("running") /\ StatsCalls[2] = CountOf("waiting")
      /\ StatsCalls[3] = ListOf("finished") /\ StatsCalls[4] = ListOf("running")
      /\ StatsCalls[5] = ListOf("waiting")
      /\ ActiveCalls[1] = ListOf("running") /\ ActiveCalls[2] = ListOf("waiting")
  BY DEF StatsCalls, ActiveCalls
<1>2. /\ \A i \in 1..5 : i \in {1, 2, 3, 4, 5}
      /\ \A i \in 1..2 : i \in {1, 2}
      /\ \A i \in 4..5 : i \in {4, 5}
  OBVIOUS
<1>3. \A s : /\ CountOf(s).call = "count" /\ CountOf(s).state = s
             /\ ListOf(s).call = "list" /\ ListOf(s).state = s
  BY DEF CountOf, ListOf
<1>4. {"running", "waiting", "finished"} = States /\ "running" # "finished" /\ "waiting" # "finished"
  BY DEF States
<1> QED BY <1>1, <1>2, <1>3, <1>4

\* What an answer leaves in the request.
LEMMA AnswerKept ==
  ASSUME RequestInv, CallNext
  PROVE  LET c == request.calls[request.at] IN
         /\ request \in Asks /\ request.op = "calls" /\ request.at \in 1..5
         /\ request.calls \in {StatsCalls, ActiveCalls}
         /\ request.at <= Len(request.calls)
         /\ c.state \in States /\ c.call \in {"count", "list"}
         /\ \E answer \in {Found(request.store, OfState(c.state)), {}} :
              request' = [op |-> IF request.at = Len(request.calls) THEN "answered" ELSE "calls",
                          store |-> request.store, calls |-> request.calls, at |-> request.at + 1,
                          counted |-> IF c.call = "count" THEN request.counted \cup answer
                                      ELSE request.counted,
                          found |-> [request.found EXCEPT ![c.state] =
                                       IF c.call = "list" THEN answer ELSE @]]
<1> DEFINE c == request.calls[request.at]
<1>1. /\ request \in Asks /\ request.op = "calls" /\ request.at <= Len(request.calls)
      /\ request.calls \in {StatsCalls, ActiveCalls} /\ request.at \in 1..6
  BY DEF CallNext, RequestInv, Asks
<1>2. request.at \in 1..5 /\ (request.calls = ActiveCalls => request.at \in 1..2)
  <2>1. Len(request.calls) \in {2, 5} /\ (request.calls = ActiveCalls => Len(request.calls) = 2)
    BY <1>1, CallsShape
  <2>2. \A n \in {2, 5}, a \in 1..6 : a <= n => a \in 1..5 /\ (n = 2 => a \in 1..2)
    OBVIOUS
  <2> QED BY <1>1, <2>1, <2>2
<1>3. c.state \in States /\ c.call \in {"count", "list"}
  BY <1>1, <1>2, CallsShape
<1>4. PICK answer \in {Found(request.store, OfState(c.state)), {}} : CallReturns(c, answer)
  BY DEF CallNext
<1>5. request' = [op |-> IF request.at = Len(request.calls) THEN "answered" ELSE "calls",
                  store |-> request.store, calls |-> request.calls, at |-> request.at + 1,
                  counted |-> IF c.call = "count" THEN request.counted \cup answer
                              ELSE request.counted,
                  found |-> [request.found EXCEPT ![c.state] =
                               IF c.call = "list" THEN answer ELSE @]]
  BY <1>1, <1>4 DEF CallReturns, Asks
<1> QED BY <1>1, <1>2, <1>3, <1>5

LEMMA NextRequest == RequestInv /\ [Next]_vars => RequestInv'
<1> SUFFICES ASSUME RequestInv, [Next]_vars PROVE RequestInv'
  OBVIOUS
<1> USE DEF RequestInv
<1>1. CASE UNCHANGED request
  BY <1>1
<1>2. ASSUME NEW k \in Keys, Create(k) \/ \E s \in States, t \in born[k] : Upsert(k, s, t)
      PROVE  UNCHANGED request
  BY <1>2 DEF Create, Upsert
<1>3. ASSUME NEW d \in Stores, NEW s \in States \cup {Unset}, NEW size \in PageSizes,
             PagesStart(d, s, size)
      PROVE  RequestInv'
  BY <1>3 DEF PagesStart
<1>4. ASSUME NEW d \in Stores, CallsStart(d, StatsCalls) \/ CallsStart(d, ActiveCalls)
      PROVE  RequestInv'
  <2>1. PICK calls \in {StatsCalls, ActiveCalls} :
          request' = [op |-> "calls", store |-> d, calls |-> calls, at |-> 1, counted |-> {},
                      found |-> [s \in States |-> {}]]
    BY <1>4 DEF CallsStart
  <2>2. Len(calls) \in {2, 5}
    BY CallsShape
  <2> QED BY <2>1, <2>2 DEF Asks
<1>5. CASE PageList
  BY <1>5 DEF PageList
<1>6. CASE PageCount
  BY <1>6 DEF PageCount, PageAnswered
<1>7. CASE CallNext
  <2> DEFINE c == request.calls[request.at]
  <2>1. /\ request \in Asks /\ request.at \in 1..5 /\ request.calls \in {StatsCalls, ActiveCalls}
        /\ request.at <= Len(request.calls) /\ c.state \in States
    BY <1>7, AnswerKept
  <2>2. PICK answer \in SUBSET Keys :
          request' = [op |-> IF request.at = Len(request.calls) THEN "answered" ELSE "calls",
                      store |-> request.store, calls |-> request.calls, at |-> request.at + 1,
                      counted |-> IF c.call = "count" THEN request.counted \cup answer
                                  ELSE request.counted,
                      found |-> [request.found EXCEPT ![c.state] =
                                   IF c.call = "list" THEN answer ELSE @]]
    <3>1. \A d, f : Found(d, f) \in SUBSET Keys
      BY DEF Found
    <3> QED BY <1>7, <3>1, AnswerKept
  <2>3. request.counted \in SUBSET Keys /\ request.found \in [States -> SUBSET Keys]
        /\ request.store \in Stores
    BY <2>1 DEF Asks
  <2>4. request'.counted \in SUBSET Keys /\ request'.found \in [States -> SUBSET Keys]
    BY <2>1, <2>2, <2>3
  <2>5. request' \in Asks
    BY <2>1, <2>2, <2>3, <2>4 DEF Asks
  <2>6. request'.op = "calls" => request'.at <= Len(request'.calls)
    <3>1. Len(request.calls) \in Nat
      BY <2>1, CallsShape
    <3> QED BY <2>1, <2>2, <3>1
  <2>7. "op" \in DOMAIN request' /\ request'.op \in {"calls", "answered"}
    BY <2>2
  <2> QED BY <2>5, <2>6, <2>7
<1>8. CASE UNCHANGED vars
  BY <1>8 DEF vars
<1> QED BY <1>1, <1>2, <1>3, <1>4, <1>5, <1>6, <1>7, <1>8 DEF Next

\* A finished case that a request has found is finished still, or it was reopened.
LEMMA NextFinal == RowsInv /\ RequestInv /\ FinalInv /\ [Next]_vars => FinalInv'
<1> SUFFICES ASSUME RowsInv, RequestInv, FinalInv, [Next]_vars PROVE FinalInv'
  OBVIOUS
<1> USE DEF FinalInv, FinishedAndActive, CountedAndFinished
<1>1. CASE UNCHANGED <<tables, request, reopened, ended>>
  BY <1>1
<1>2. ASSUME NEW k \in Keys, NEW s \in States, NEW t \in born[k], Upsert(k, s, t)
      PROVE  FinalInv'
  <2> DEFINE row == [state |-> s, created |-> t]
  <2>1. /\ request' = request
        /\ tables' = [tables EXCEPT !["memory"][k] = MemoryRow(@, row),
                                    !["postgres"][k] = PostgresRow(@, row)]
    BY <1>2 DEF Upsert
  <2>2. reopened \subseteq reopened' /\ ended \subseteq ended'
    BY <1>2 DEF Upsert
  <2>3. ASSUME request.op = "calls", NEW j \in request.found["finished"] \ reopened'
        PROVE  tables'[request.store][j] # Absent /\ tables'[request.store][j].state = "finished"
    <3>1. request \in Asks /\ request.store \in Stores /\ j \in Keys
      BY <2>3 DEF RequestInv, Asks, States
    <3>2. tables[request.store][j] # Absent /\ tables[request.store][j].state = "finished"
      BY <2>2, <2>3
    <3>3. CASE j # k
      <4>1. tables'[request.store][j] = tables[request.store][j]
        BY <2>1, <3>1, <3>3 DEF RowsInv
      <4> QED BY <3>2, <4>1
    <3>4. CASE j = k
      <4>1. tables["memory"][k] # Absent /\ tables["memory"][k].state = "finished"
        BY <3>1, <3>2, <3>4 DEF RowsInv, Stores
      <4>2. s = "finished"
        BY <1>2, <2>3, <3>4, <4>1 DEF Upsert
      <4>3. RowsInv'
        BY <1>2, UpsertRows
      <4>4. row \in Rows /\ row # Absent
        BY <1>2 DEF RowsInv, Rows
      <4>5. tables'["memory"][k] = row
        BY <2>1 DEF RowsInv, MemoryRow, Stores
      <4>6. tables'[request.store][k] # Absent /\ tables'[request.store][k].state = "finished"
        BY <3>1, <4>2, <4>3, <4>4, <4>5 DEF RowsInv, Stores
      <4> QED BY <3>4, <4>6
    <3> QED BY <3>3, <3>4
  <2>4. ASSUME request.op = "calls", NEW j \in request.counted \ ended'
        PROVE  tables'[request.store][j] # Absent /\ tables'[request.store][j].state # "finished"
    <3>1. request \in Asks /\ request.store \in Stores /\ j \in Keys
      BY <2>4 DEF RequestInv, Asks
    <3>2. tables[request.store][j] # Absent /\ tables[request.store][j].state # "finished"
      BY <2>2, <2>4
    <3>3. CASE j # k
      <4>1. tables'[request.store][j] = tables[request.store][j]
        BY <2>1, <3>1, <3>3 DEF RowsInv
      <4> QED BY <3>2, <4>1
    <3>4. CASE j = k
      <4>1. s # "finished"
        BY <1>2, <2>4, <3>4 DEF Upsert
      <4>2. RowsInv'
        BY <1>2, UpsertRows
      <4>3. row \in Rows /\ row # Absent
        BY <1>2 DEF RowsInv, Rows
      <4>4. tables'["memory"][k] = row
        BY <2>1 DEF RowsInv, MemoryRow, Stores
      <4>5. tables'[request.store][k] # Absent /\ tables'[request.store][k].state = s
        BY <3>1, <4>2, <4>3, <4>4 DEF RowsInv, Stores
      <4> QED BY <3>4, <4>1, <4>5
    <3> QED BY <3>3, <3>4
  <2> QED BY <2>1, <2>2, <2>3, <2>4
<1>3. ASSUME NEW d \in Stores, NEW s \in States \cup {Unset}, NEW size \in PageSizes,
             PagesStart(d, s, size)
      PROVE  FinalInv'
  BY <1>3 DEF PagesStart
<1>4. ASSUME NEW d \in Stores, CallsStart(d, StatsCalls) \/ CallsStart(d, ActiveCalls)
      PROVE  FinalInv'
  BY <1>4 DEF CallsStart, States
<1>5. CASE PageList
  <2>1. request'.op = "count"
    BY <1>5 DEF PageList, RequestInv
  <2> QED BY <2>1
<1>6. CASE PageCount
  <2>1. request'.op \in {"list", "paged"}
    BY <1>6 DEF PageCount, PageAnswered, RequestInv
  <2> QED BY <2>1
<1>7. CASE CallNext
  <2> DEFINE c == request.calls[request.at]  d == request.store
  <2>1. /\ request \in Asks /\ request.op = "calls" /\ request.at \in 1..5
        /\ request.calls \in {StatsCalls, ActiveCalls} /\ request.at <= Len(request.calls)
        /\ c.state \in States /\ c.call \in {"count", "list"}
    BY <1>7, AnswerKept
  <2>2. PICK answer \in {Found(d, OfState(c.state)), {}} :
          request' = [op |-> IF request.at = Len(request.calls) THEN "answered" ELSE "calls",
                      store |-> d, calls |-> request.calls, at |-> request.at + 1,
                      counted |-> IF c.call = "count" THEN request.counted \cup answer
                                  ELSE request.counted,
                      found |-> [request.found EXCEPT ![c.state] =
                                   IF c.call = "list" THEN answer ELSE @]]
    BY <1>7, AnswerKept
  <2>3. /\ request.found \in [States -> SUBSET Keys] /\ request.counted \subseteq Keys
        /\ d \in Stores /\ tables' = tables /\ reopened' = reopened /\ ended' = ended
    BY <1>7, <2>1 DEF Asks, CallNext
  <2>4. \A k \in answer : tables[d][k] # Absent /\ tables[d][k].state = c.state
    <3>1. Found(d, OfState(c.state)) = {k \in Keys : tables[d][k] # Absent /\ tables[d][k].state = c.state}
      BY <2>1, <2>3 DEF Found, OfState, MemoryMatches, PostgresMatches, Stores, States
    <3> QED BY <3>1
  <2>5. /\ request'.op \in {"calls", "answered"} /\ request'.store = d
        /\ request'.calls = request.calls /\ request'.at = request.at + 1
        /\ request'.counted = IF c.call = "count" THEN request.counted \cup answer ELSE request.counted
        /\ request'.found = [request.found EXCEPT ![c.state] = IF c.call = "list" THEN answer ELSE @]
    BY <2>2
  <2>6. CASE c.call = "count"
    <3>1. c.state # "finished" /\ request.at <= 2 /\ request.calls = StatsCalls
      BY <2>1, <2>6, CallsShape DEF ListOf
    <3>2. request'.found = request.found /\ \A s \in States : request.found[s] = {}
      BY <2>1, <2>3, <2>5, <2>6, <3>1
    <3>3. request'.counted = request.counted \cup answer
      BY <2>5, <2>6
    <3>4. StatsCalls # ActiveCalls
      BY CallsShape
    <3> QED BY <2>1, <2>3, <2>4, <2>5, <3>1, <3>2, <3>3, <3>4 DEF States
  <2>7. CASE c.call = "list" /\ c.state = "finished"
    <3>1. request.at = 3 /\ request.calls = StatsCalls
      BY <2>1, <2>7, CallsShape
    <3>2. request'.counted = request.counted
      BY <2>5, <2>7
    <3>3. request'.found["finished"] = answer /\ request'.found["running"] = {}
          /\ request'.found["waiting"] = {}
      BY <2>1, <2>3, <2>5, <2>7, <3>1 DEF States
    <3>4. request'.at = 4 /\ StatsCalls # ActiveCalls
      BY <2>5, <3>1, CallsShape
    <3>5. answer \cap request.counted \subseteq ended
      BY <2>1, <2>4, <2>7
    <3> QED BY <2>1, <2>3, <2>4, <2>5, <2>7, <3>1, <3>2, <3>3, <3>4, <3>5
  <2>8. CASE c.call = "list" /\ c.state # "finished"
    <3>1. request'.counted = request.counted /\ request'.found["finished"] = request.found["finished"]
      BY <2>3, <2>5, <2>8 DEF States
    <3>2. request.calls = StatsCalls => request.at >= 4
      BY <2>1, <2>8, CallsShape DEF ListOf
    <3>3. request'.found["running"] \cup request'.found["waiting"]
            \subseteq request.found["running"] \cup request.found["waiting"] \cup answer
      BY <2>1, <2>3, <2>5, <2>8 DEF States
    <3>4. \A k \in answer : k \in request.found["finished"] => k \in reopened
      BY <2>1, <2>4, <2>8
    <3>5. request'.calls = StatsCalls => ~(request'.at <= 3)
      BY <2>1, <2>5, <3>2
    <3>6. request'.calls = ActiveCalls => request'.found["finished"] = {}
      BY <2>1, <2>5, <3>1
    <3>7. /\ FinishedAndActive' \subseteq reopened' /\ CountedAndFinished' \subseteq ended'
      BY <2>1, <2>3, <2>5, <3>1, <3>3, <3>4
    <3>8. /\ \A k \in request'.found["finished"] \ reopened' :
               tables'[request'.store][k] # Absent /\ tables'[request'.store][k].state = "finished"
          /\ \A k \in request'.counted \ ended' :
               tables'[request'.store][k] # Absent /\ tables'[request'.store][k].state # "finished"
      BY <2>1, <2>3, <2>5, <3>1
    <3> QED BY <3>5, <3>6, <3>7, <3>8
  <2> QED BY <2>1, <2>6, <2>7, <2>8
<1>8. ASSUME NEW k \in Keys, Create(k) PROVE FinalInv'
  BY <1>1, <1>8 DEF Create
<1>9. CASE UNCHANGED vars
  BY <1>1, <1>9 DEF vars
<1> QED BY <1>2, <1>3, <1>4, <1>5, <1>6, <1>7, <1>8, <1>9 DEF Next

(* However many cases there are, the lists of one request have none as      *)
(* finished and as active unless it was made active again, and one that the *)
(* counts before have as active and the lists as finished did end in        *)
(* between.                                                                 *)
THEOREM CountedOnceAlways == Spec => []CountedOnce
<1>1. Init => RequestInv /\ FinalInv
  BY DEF Init, NoRequest, RequestInv, FinalInv
<1>2. FinalInv => CountedOnce
  BY DEF FinalInv, CountedOnce
<1> QED BY <1>1, <1>2, RowsInvariant, NextRequest, NextFinal, PTL DEF Spec

-----------------------------------------------------------------------------
LEMMA FoundOfState ==
  ASSUME NEW d \in Stores, NEW st \in States \cup {Unset}
  PROVE  Found(d, OfState(st)) =
           {k \in Keys : tables[d][k] # Absent /\ (st = Unset \/ tables[d][k].state = st)}
BY DEF Found, OfState, MemoryMatches, PostgresMatches, Stores

LEMMA FoundOfStateNext ==
  ASSUME NEW d \in Stores, NEW st \in States \cup {Unset}
  PROVE  Found(d, OfState(st))' =
           {k \in Keys : tables'[d][k] # Absent /\ (st = Unset \/ tables'[d][k].state = st)}
BY DEF Found, OfState, MemoryMatches, PostgresMatches, Stores

\* Storing a case keeps the other rows, and the creation time of its own row.
LEMMA UpsertKeeps ==
  ASSUME RowsInv, NEW k \in Keys, NEW s \in States, NEW t \in born[k], Upsert(k, s, t),
         NEW d \in Stores, d = "memory" => Recreated = {}
  PROVE  /\ \A j \in Keys \ {k} : tables'[d][j] = tables[d][j]
         /\ tables'[d][k] # Absent /\ tables'[d][k].state = s
         /\ tables[d][k] # Absent => tables'[d][k].created = tables[d][k].created
<1> DEFINE row == [state |-> s, created |-> t]
<1>1. /\ tables' = [tables EXCEPT !["memory"][k] = MemoryRow(@, row),
                                  !["postgres"][k] = PostgresRow(@, row)]
      /\ tables \in [Stores -> [Keys -> Rows \cup {Absent}]]
      /\ "memory" \in Stores /\ "postgres" \in Stores /\ d \in {"memory", "postgres"}
  BY DEF Upsert, RowsInv, Stores
<1>2. row \in Rows /\ row # Absent
  BY DEF RowsInv, Rows
<1>3. CASE d = "memory"
  <2>1. tables'[d] = [tables[d] EXCEPT ![k] = row]
    BY <1>1, <1>3 DEF MemoryRow
  <2>2. tables[d][k] # Absent => tables[d][k].created \in born[k]
    BY <1>3 DEF RowsInv
  <2>3. \A u \in born[k] : u = t
    BY <1>3 DEF Recreated
  <2> QED BY <1>1, <1>2, <2>1, <2>2, <2>3
<1>4. CASE d = "postgres"
  <2>1. tables'[d] = [tables[d] EXCEPT ![k] = PostgresRow(tables[d][k], row)]
    BY <1>1, <1>4
  <2>2. CASE tables[d][k] = Absent
    BY <1>1, <1>2, <2>1, <2>2 DEF PostgresRow
  <2>3. CASE tables[d][k] # Absent
    <3>1. tables[d][k] \in Rows
      BY <1>1, <2>3
    <3>2. PostgresRow(tables[d][k], row) \in Rows
          /\ PostgresRow(tables[d][k], row).state = s
          /\ PostgresRow(tables[d][k], row).created = tables[d][k].created
      BY <1>2, <2>3, <3>1 DEF PostgresRow, Rows
    <3> QED BY <1>1, <2>1, <3>2
  <2> QED BY <2>2, <2>3
<1> QED BY <1>1, <1>3, <1>4

LEMMA UpsertFinite ==
  ASSUME RowsInv, RowsFinite, NEW k \in Keys, NEW s \in States, NEW t \in born[k], Upsert(k, s, t)
  PROVE  RowsFinite'
<1> SUFFICES ASSUME NEW d \in Stores PROVE IsFiniteSet({j \in Keys : tables'[d][j] # Absent})
  BY DEF RowsFinite
<1> DEFINE old == {j \in Keys : tables[d][j] # Absent}
           new == {j \in Keys : tables'[d][j] # Absent}
<1>1. IsFiniteSet(old \cup {k})
  BY FS_AddElement DEF RowsFinite
<1>2. \A j \in Keys \ {k} : tables'[d][j] = tables[d][j]
  BY DEF Upsert, RowsInv, Stores
<1>3. new \subseteq old \cup {k}
  BY <1>2
<1> QED BY <1>1, <1>3, FS_Subset

\* A place is a number, and there are more cases than the place of one of them.
LEMMA PlaceType ==
  ASSUME RowsFinite, NEW d \in Stores, NEW f, RowsInv
  PROVE  /\ IsFiniteSet(Found(d, f)) /\ Cardinality(Found(d, f)) \in Nat
         /\ \A k : Place(d, f, k) \in Nat
         /\ \A k \in Found(d, f) : Place(d, f, k) < Cardinality(Found(d, f))
<1>1. Found(d, f) \subseteq {k \in Keys : tables[d][k] # Absent}
  BY DEF Found
<1>2. IsFiniteSet(Found(d, f)) /\ Cardinality(Found(d, f)) \in Nat
  BY <1>1, FS_Subset, FS_CardinalityType DEF RowsFinite
<1> DEFINE older(k) == {j \in Found(d, f) : tables[d][j].created < tables[d][k].created}
<1>3. \A k : IsFiniteSet(older(k)) /\ Cardinality(older(k)) \in Nat
             /\ Cardinality(older(k)) <= Cardinality(Found(d, f))
             /\ (Cardinality(Found(d, f)) = Cardinality(older(k)) => Found(d, f) = older(k))
  BY <1>2, FS_Subset, FS_CardinalityType
<1>4. ASSUME NEW k \in Found(d, f) PROVE k \notin older(k)
  <2>1. tables[d][k] \in Rows
    BY <1>1, <1>4 DEF RowsInv
  <2> QED BY <2>1 DEF Rows, Times
<1>5. ASSUME NEW k \in Found(d, f) PROVE Cardinality(older(k)) < Cardinality(Found(d, f))
  <2>1. older(k) # Found(d, f)
    BY <1>4, <1>5
  <2> HIDE DEF older
  <2> QED BY <1>2, <1>3, <2>1
<1>6. \A k : Place(d, f, k) = Cardinality(older(k))
  BY DEF Place
<1> HIDE DEF older
<1> QED BY <1>2, <1>3, <1>5, <1>6

\* While cases are stored that were not finished, or when all are listed, nothing that is
\* listed moves forward.
LEMMA PlaceGrows ==
  ASSUME RowsInv, RowsFinite, NEW k \in Keys, NEW s \in States, NEW t \in born[k], Upsert(k, s, t),
         NEW d \in Stores, d = "memory" => Recreated = {}, NEW st \in {Unset, "finished"},
         st = "finished" /\ tables[d][k] # Absent /\ tables[d][k].state = "finished" => s = "finished",
         NEW j \in Found(d, OfState(st))
  PROVE  /\ j \in Found(d, OfState(st))' /\ Place(d, OfState(st), j)' \in Nat
         /\ Place(d, OfState(st), j) <= Place(d, OfState(st), j)'
<1>1. st \in States \cup {Unset}
  BY DEF States
<1>2. /\ \A i \in Keys \ {k} : tables'[d][i] = tables[d][i]
      /\ tables'[d][k] # Absent /\ tables'[d][k].state = s
      /\ tables[d][k] # Absent => tables'[d][k].created = tables[d][k].created
  BY UpsertKeeps
<1> DEFINE F == Found(d, OfState(st))  G == Found(d, OfState(st))'
<1>3. F = {i \in Keys : tables[d][i] # Absent /\ (st = Unset \/ tables[d][i].state = st)}
  BY <1>1, FoundOfState
<1>4. G = {i \in Keys : tables'[d][i] # Absent /\ (st = Unset \/ tables'[d][i].state = st)}
  BY <1>1, FoundOfStateNext
<1>5. ASSUME NEW i \in F PROVE i \in G /\ tables'[d][i].created = tables[d][i].created
  <2>1. i \in Keys /\ tables[d][i] # Absent /\ (st = Unset \/ tables[d][i].state = st)
    BY <1>3, <1>5
  <2>2. CASE i = k
    BY <1>2, <1>4, <2>1, <2>2
  <2>3. CASE i # k
    BY <1>2, <1>4, <2>1, <2>3
  <2> QED BY <2>2, <2>3
<1> HIDE DEF F, G
<1> DEFINE old == {i \in F : tables[d][i].created < tables[d][j].created}
           new == {i \in G : tables'[d][i].created < tables'[d][j].created}
<1>6. j \in F
  BY DEF F
<1>7. old \subseteq new
  BY <1>5, <1>6
<1>8. RowsFinite' /\ RowsInv'
  BY UpsertFinite, UpsertRows
<1>9. IsFiniteSet(G)
  <2>1. G \subseteq {i \in Keys : tables'[d][i] # Absent}
    BY <1>4
  <2> QED BY <1>8, <2>1, FS_Subset DEF RowsFinite
<1>10. Cardinality(old) <= Cardinality(new) /\ Cardinality(new) \in Nat
  <2>1. new \subseteq G
    OBVIOUS
  <2>2. IsFiniteSet(new)
    BY <1>9, <2>1, FS_Subset
  <2> QED BY <1>7, <2>2, FS_Subset, FS_CardinalityType
<1>11. Place(d, OfState(st), j) = Cardinality(old)
  BY DEF Place, F
<1>12. Place(d, OfState(st), j)' = Cardinality(new)
  BY DEF Place, G
<1> QED BY <1>5, <1>6, <1>10, <1>11, <1>12 DEF G

LEMMA StoreOfPages ==
  ASSUME PagesInv, request.op \in {"list", "count", "paged"}
  PROVE  /\ request \in Paging /\ request.store \in Stores /\ request.state \in States \cup {Unset}
         /\ request.offset \in Nat /\ request.items \subseteq Keys /\ request.shown \subseteq Keys
         /\ request.size \in PageSizes /\ request.size \in Nat
BY DEF PagesInv, Paging

LEMMA UpsertPages ==
  ASSUME RowsInv, PagesInv, NEW k \in Keys, NEW s \in States, NEW t \in born[k], Upsert(k, s, t)
  PROVE  PagesInv'
<1>1. /\ request' = request /\ born' = born /\ due' \subseteq due /\ request.op # "paged"
  BY DEF Upsert, Answered
<1>2. RowsFinite /\ RowsFinite'
  BY UpsertFinite DEF PagesInv
<1>3. ASSUME request.op \in {"list", "count"} PROVE
        /\ request \in Paging
        /\ due' # {} => request.state \in {Unset, "finished"}
        /\ request.size <= MaxLimit /\ (request.store = "memory" => Recreated' = {}) => \A j \in due' :
             /\ request.op = "list" => ShownOrAhead(j, request.offset)'
             /\ request.op = "count" => j \in request.items \/ ShownOrAhead(j, request.offset + request.size)'
  <2>1. /\ request \in Paging /\ request.store \in Stores
        /\ request.offset \in Nat /\ request.size \in Nat
        /\ due # {} => request.state \in {Unset, "finished"}
    BY <1>3, StoreOfPages DEF PagesInv
  <2>2. SUFFICES ASSUME request.size <= MaxLimit, request.store = "memory" => Recreated = {},
                      NEW j \in due'
        PROVE  /\ request.op = "list" => ShownOrAhead(j, request.offset)'
               /\ request.op = "count" => j \in request.items \/ ShownOrAhead(j, request.offset + request.size)'
    BY <1>1, <2>1 DEF Recreated
  <2>3. /\ request.state \in {Unset, "finished"}
        /\ request.op = "list" => ShownOrAhead(j, request.offset)
        /\ request.op = "count" => j \in request.items \/ ShownOrAhead(j, request.offset + request.size)
    BY <1>1, <1>3, <2>1, <2>2 DEF PagesInv
  <2>4. PICK d \in Stores, st \in {Unset, "finished"} :
          d = request.store /\ d = request'.store /\ st = request.state /\ st = request'.state
    BY <1>1, <2>1, <2>3
  <2>5. st = "finished" /\ tables[d][k] # Absent /\ tables[d][k].state = "finished" => s = "finished"
    <3> SUFFICES ASSUME st = "finished", tables[d][k] # Absent, tables[d][k].state = "finished",
                        s # "finished"
                 PROVE  FALSE
      OBVIOUS
    <3>1. tables["memory"][k] # Absent /\ tables["memory"][k].state = "finished"
      BY DEF RowsInv, Stores
    <3>2. due' = {}
      BY <1>3, <2>4, <3>1 DEF Upsert
    <3> QED BY <2>2, <3>2
  <2>6. ASSUME NEW n \in Nat, ShownOrAhead(j, n)
        PROVE  j \in request.shown
               \/ (j \in Found(d, OfState(st))' /\ Place(d, OfState(st), j)' >= n)
    <3>1. j \in request.shown \/ (j \in Found(d, OfState(st)) /\ Place(d, OfState(st), j) >= n)
      BY <2>4, <2>6 DEF ShownOrAhead
    <3> SUFFICES ASSUME j \notin request.shown
                 PROVE  j \in Found(d, OfState(st))' /\ Place(d, OfState(st), j)' >= n
      OBVIOUS
    <3>2. /\ j \in Found(d, OfState(st))' /\ Place(d, OfState(st), j)' \in Nat
          /\ Place(d, OfState(st), j) <= Place(d, OfState(st), j)'
      BY <1>2, <2>2, <2>4, <2>5, <3>1, PlaceGrows
    <3>3. Place(d, OfState(st), j) \in Nat
      BY <1>2, PlaceType
    <3> QED BY <3>1, <3>2, <3>3
  <2>7. request.offset + request.size \in Nat
    BY <2>1
  <2>8. ASSUME NEW n \in Nat, ShownOrAhead(j, n) PROVE ShownOrAhead(j, n)'
    BY <1>1, <2>4, <2>6, <2>8 DEF ShownOrAhead
  <2> QED BY <1>1, <2>1, <2>3, <2>7, <2>8
<1> QED BY <1>1, <1>2, <1>3 DEF PagesInv

\* The steps of the request itself: a page read, and the total compared.
LEMMA RequestPages ==
  ASSUME RowsInv, PagesInv, PageList \/ PageCount
  PROVE  PagesInv'
<1>1. UNCHANGED <<born, tables>> /\ request.op \in {"list", "count"}
  BY DEF PageList, PageCount
<1>2. RowsFinite /\ RowsFinite'
  BY <1>1 DEF PagesInv, RowsFinite
<1>3. /\ request \in Paging /\ request.store \in Stores /\ request.offset \in Nat
      /\ request.size \in PageSizes /\ request.size \in Nat
      /\ request.state \in States \cup {Unset}
      /\ request.items \subseteq Keys /\ request.shown \subseteq Keys
      /\ due # {} => request.state \in {Unset, "finished"}
  BY <1>1, StoreOfPages DEF PagesInv
<1> DEFINE d == request.store  f == OfState(request.state)  from == request.offset  size == request.size
<1>4. IsFiniteSet(Found(d, f)) /\ Cardinality(Found(d, f)) \in Nat
      /\ (\A k : Place(d, f, k) \in Nat)
      /\ \A k \in Found(d, f) : Place(d, f, k) < Cardinality(Found(d, f))
  BY <1>2, <1>3, PlaceType
<1>5. from + size \in Nat /\ from \in Nat
  BY <1>3
<1>6. CASE PageList
  <2>1. PICK items \in SUBSET Keys :
          /\ request' = [request EXCEPT !.op = "count", !.items = items]
          /\ \/ items = Page(d, f, from, size) /\ due' = due
             \/ due' = {}
    BY <1>6 DEF PageList, Page, Found
  <2>2. /\ request' \in Paging /\ request'.op = "count" /\ request'.items = items
        /\ request'.store = d /\ request'.state = request.state /\ request'.offset = from
        /\ request'.shown = request.shown /\ request'.size = size
    BY <1>3, <2>1 DEF Paging
  <2>3. ASSUME NEW k \in due', size <= MaxLimit, request.store = "memory" => Recreated = {}
        PROVE  \/ k \in items \/ k \in request.shown
               \/ k \in Found(d, f) /\ Place(d, f, k) >= from + size
    <3>1. k \in due /\ items = Page(d, f, from, size) /\ Limit(size) = size
      BY <1>3, <2>1, <2>3 DEF Limit, DashboardAssumption
    <3>2. ShownOrAhead(k, from)
      BY <1>6, <1>1, <2>3, <3>1 DEF PagesInv, PageList
    <3>3. k \in request.shown \/ (k \in Found(d, f) /\ Place(d, f, k) >= from)
      BY <3>2 DEF ShownOrAhead
    <3> SUFFICES ASSUME k \notin request.shown, ~(Place(d, f, k) >= from + size)
                 PROVE  k \in items
      BY <3>3
    <3>4. Place(d, f, k) \in from..(from + size - 1)
      <4>1. Place(d, f, k) \in Nat /\ from \in Nat /\ size \in Nat /\ Place(d, f, k) >= from
        BY <1>3, <1>4, <3>3
      <4> HIDE DEF from, size
      <4> QED BY <4>1
    <3> QED BY <3>1, <3>3, <3>4 DEF Page
  <2>4. Found(d, f)' = Found(d, f) /\ \A k : Place(d, f, k)' = Place(d, f, k)
    BY <1>1, <2>2 DEF Found, Place
  <2>5. ASSUME NEW k \in due', request'.size <= MaxLimit, request'.store = "memory" => Recreated' = {}
        PROVE  k \in request'.items \/ ShownOrAhead(k, request.offset + request.size)'
    <3>1. Recreated' = Recreated
      BY <1>1 DEF Recreated
    <3>2. \/ k \in items \/ k \in request.shown
          \/ k \in Found(d, f) /\ Place(d, f, k) >= from + size
      BY <2>2, <2>3, <2>5, <3>1
    <3> QED BY <2>2, <2>4, <3>2 DEF ShownOrAhead
  <2>6. due' # {} => request'.state \in {Unset, "finished"}
    BY <1>3, <2>1, <2>2
  <2> QED BY <1>2, <2>2, <2>5, <2>6 DEF PagesInv
<1>7. CASE PageCount
  <2>1. PICK total :
          /\ PageAnswered(total)
          /\ (total = Cardinality(Found(d, f)) /\ due' = due) \/ due' = {}
    BY <1>7 DEF PageCount
  <2>2. /\ request' \in Paging /\ request'.op = IF from + size < total THEN "list" ELSE "paged"
        /\ request'.store = d /\ request'.state = request.state
        /\ request'.offset = IF from + size < total THEN from + size ELSE from
        /\ request'.shown = request.shown \cup request.items /\ request'.size = size
    BY <1>3, <1>5, <2>1 DEF PageAnswered, Paging
  <2>3. ASSUME NEW k \in due', size <= MaxLimit, request.store = "memory" => Recreated = {}
        PROVE  \/ k \in request'.shown
               \/ k \in Found(d, f) /\ Place(d, f, k) >= from + size /\ from + size < total
    <3>1. k \in due /\ total = Cardinality(Found(d, f))
      BY <2>1, <2>3
    <3>2. k \in request.items \/ ShownOrAhead(k, from + size)
      BY <1>7, <1>1, <2>3, <3>1 DEF PagesInv, PageCount
    <3>3. CASE k \in request.items
      BY <2>2, <3>3
    <3>4. CASE ShownOrAhead(k, from + size)
      <4>1. k \in request.shown \/ (k \in Found(d, f) /\ Place(d, f, k) >= from + size)
        BY <3>4 DEF ShownOrAhead
      <4>2. Place(d, f, k) \in Nat /\ total \in Nat
            /\ (k \in Found(d, f) => Place(d, f, k) < total)
        BY <1>4, <3>1, <4>1
      <4> QED BY <1>5, <2>2, <4>1, <4>2
    <3> QED BY <3>2, <3>3, <3>4
  <2>4. Found(d, f)' = Found(d, f) /\ \A k : Place(d, f, k)' = Place(d, f, k)
    BY <1>1, <2>2 DEF Found, Place
  <2>5. ASSUME NEW k \in due', request'.size <= MaxLimit, request'.store = "memory" => Recreated' = {}
        PROVE  /\ request'.op = "list" => ShownOrAhead(k, request.offset)'
               /\ request'.op = "paged" => k \in request'.shown
    <3>1. Recreated' = Recreated
      BY <1>1 DEF Recreated
    <3>2. \/ k \in request'.shown
          \/ k \in Found(d, f) /\ Place(d, f, k) >= from + size /\ from + size < total
      BY <2>2, <2>3, <2>5, <3>1
    <3> QED BY <2>2, <2>4, <3>2 DEF ShownOrAhead
  <2>6. due' # {} => request'.state \in {Unset, "finished"}
    BY <1>3, <2>1, <2>2
  <2> QED BY <1>2, <2>2, <2>5, <2>6 DEF PagesInv
<1> QED BY <1>6, <1>7

LEMMA NextPages == RowsInv /\ RequestInv /\ PagesInv /\ [Next]_vars => PagesInv'
<1> SUFFICES ASSUME RowsInv, RequestInv, PagesInv, [Next]_vars PROVE PagesInv'
  OBVIOUS
<1>1. RowsFinite
  BY DEF PagesInv
<1>2. ASSUME NEW k \in Keys, Create(k) PROVE PagesInv'
  <2>1. UNCHANGED <<tables, request, due>> /\ Recreated \subseteq Recreated'
    BY <1>2 DEF Create, Recreated, RowsInv
  <2>2. RowsFinite'
    BY <1>1, <2>1 DEF RowsFinite
  <2>3. \A k2, n : ShownOrAhead(k2, n)' <=> ShownOrAhead(k2, n)
    BY <2>1 DEF ShownOrAhead, Found, Place
  <2> QED BY <2>1, <2>2, <2>3 DEF PagesInv
<1>3. ASSUME NEW k \in Keys, NEW s \in States, NEW t \in born[k], Upsert(k, s, t) PROVE PagesInv'
  BY <1>3, UpsertPages
<1>4. ASSUME NEW d \in Stores, NEW st \in States \cup {Unset}, NEW size \in PageSizes,
             PagesStart(d, st, size)
      PROVE  PagesInv'
  <2>1. /\ request' = [op |-> "list", store |-> d, state |-> st, size |-> size, offset |-> 0,
                   items |-> {}, shown |-> {}]
        /\ due' = (IF st \in {Unset, "finished"} THEN Found(d, OfState(st)) ELSE {})
        /\ UNCHANGED <<born, tables>>
    BY <1>4 DEF PagesStart
  <2>2. RowsFinite'
    BY <1>1, <2>1 DEF RowsFinite
  <2>3. request' \in Paging
    BY <2>1 DEF Paging
  <2>4. Found(d, OfState(st))' = Found(d, OfState(st))
        /\ \A k : Place(d, OfState(st), k)' = Place(d, OfState(st), k)
    BY <2>1 DEF Found, Place
  <2>5. \A k \in due' : k \in Found(d, OfState(st)) /\ Place(d, OfState(st), k) >= 0
    BY <1>1, <2>1, PlaceType
  <2>6. \A k \in due' : ShownOrAhead(k, request.offset)'
    BY <2>1, <2>4, <2>5 DEF ShownOrAhead
  <2> QED BY <2>1, <2>2, <2>3, <2>6 DEF PagesInv
<1>5. ASSUME NEW d \in Stores, CallsStart(d, StatsCalls) \/ CallsStart(d, ActiveCalls) PROVE PagesInv'
  <2>1. request'.op = "calls" /\ UNCHANGED tables
    BY <1>5 DEF CallsStart
  <2> QED BY <1>1, <2>1 DEF PagesInv, RowsFinite
<1>6. CASE PageList \/ PageCount
  BY <1>6, RequestPages
<1>7. CASE UNCHANGED vars
  <2>1. \A k2, n : ShownOrAhead(k2, n)' <=> ShownOrAhead(k2, n)
    BY <1>7 DEF vars, ShownOrAhead, Found, Place
  <2>2. UNCHANGED <<tables, request, due>> /\ Recreated \subseteq Recreated'
    BY <1>7 DEF vars, Recreated
  <2>3. RowsFinite'
    BY <1>1, <2>2 DEF RowsFinite
  <2> QED BY <2>1, <2>2, <2>3 DEF PagesInv
<1>8. CASE CallNext
  <2>1. request'.op \in {"calls", "answered"} /\ UNCHANGED tables
    <3> DEFINE c == request.calls[request.at]
    <3>1. request.op = "calls" /\ request \in Asks /\ UNCHANGED tables
      BY <1>8 DEF CallNext, RequestInv
    <3>2. PICK answer : CallReturns(c, answer)
      BY <1>8 DEF CallNext
    <3>3. request'.op = IF request.at = Len(request.calls) THEN "answered" ELSE request.op
      BY <3>1, <3>2 DEF CallReturns, Asks
    <3> QED BY <3>1, <3>3
  <2> QED BY <1>1, <2>1 DEF PagesInv, RowsFinite
<1> QED BY <1>2, <1>3, <1>4, <1>5, <1>6, <1>7, <1>8 DEF Next

(* Whoever pages through all cases or through the finished ones, with pages *)
(* of any size up to the largest the server makes, is shown every case that *)
(* was there at the beginning, for any number of cases, while cases are     *)
(* stored and finish between the pages: in PostgreSQL always, in memory as  *)
(* long as no key is used for a second case.                                *)
THEOREM PagesMissNoneAlways == Spec => []PagesMissNone
<1>1. Init => PagesInv
  <2> SUFFICES ASSUME Init PROVE PagesInv
    OBVIOUS
  <2>1. \A d \in Stores : {k \in Keys : tables[d][k] # Absent} = {}
    BY DEF Init
  <2>2. RowsFinite
    BY <2>1, FS_EmptySet DEF RowsFinite
  <2> QED BY <2>2 DEF Init, NoRequest, PagesInv
<1>2. PagesInv => PagesMissNone
  BY DEF PagesInv, PagesMissNone
<1>3. Init => RequestInv
  BY DEF Init, NoRequest, RequestInv
<1> QED BY <1>1, <1>2, <1>3, RowsInvariant, NextRequest, NextPages, PTL DEF Spec
=============================================================================
