--------------------------- MODULE ToolLoop_proofs ---------------------------
(***************************************************************************)
(* The tool loop for any number of rounds, calls and permits: its tools     *)
(* stay within the semaphore, none runs beside an exclusive one, and every  *)
(* request to the LLM is a well-formed conversation.                        *)
(***************************************************************************)
EXTENDS ToolLoop, FiniteSetTheorems, SequenceTheorems, TLAPS

Message == [role : {"user", "assistant", "tool"}, call : 0..MaxCalls]

LEMMA Constants ==
  /\ MaxRounds \in Nat /\ MaxConcurrency \in Nat /\ MaxCalls \in Nat
  /\ \A c \in Ids : c \in Nat /\ c >= 1 /\ c <= MaxCalls
BY ToolLoopAssumption DEF Ids

LEMMA InitType == Init => TypeOK
<1> SUFFICES ASSUME Init PROVE TypeOK
  OBVIOUS
<1>1. tasks \in [Ids -> Statuses]
  BY DEF Init, Statuses
<1>2. messages \in Seq(Message)
  BY Constants DEF Init, User, Message
<1> QED
  BY <1>1, <1>2, Constants DEF Init, TypeOK, Message

LEMMA MessageTypes ==
  /\ \A n \in 0..MaxCalls : Assistant(n) \in Message
  /\ \A c \in Ids : Tool(c) \in Message
BY Constants DEF Assistant, Tool, Message, Ids

\* What the proofs below use of the types.
LEMMA LoopFacts ==
  ASSUME TypeOK
  PROVE  /\ messages \in Seq(Message) /\ Len(messages) \in Nat
         /\ tasks \in [Ids -> Statuses] /\ permits \in 0..MaxConcurrency
         /\ rounds \in 0..MaxRounds /\ i \in Nat /\ i >= 1
         /\ results \in Seq(Ids) /\ Len(results) \in Nat
         /\ calls \in Seq(Kinds) /\ Len(calls) \in Nat /\ Len(calls) <= MaxCalls
         /\ i <= Len(calls) => i \in Ids
         /\ handles \in SUBSET Ids
BY Constants DEF TypeOK, Message, Ids

\* Sets of ids are finite; a task that starts or ends changes Running by itself alone.
LEMMA RunningFinite ==
  /\ IsFiniteSet(Running) /\ Cardinality(Running) \in Nat
<1>1. IsFiniteSet(Ids)
  BY Constants, FS_Interval DEF Ids
<1> QED BY <1>1, FS_Subset, FS_CardinalityType DEF Running

\* What a task that starts or ends does to the sets of tasks.
LEMMA OneTask ==
  ASSUME TypeOK, NEW c \in Ids, NEW s \in Statuses,
         tasks' = [tasks EXCEPT ![c] = s]
  PROVE  /\ tasks' \in [Ids -> Statuses]
         /\ s = "running" => Running' = Running \cup {c} /\ Live' = Live \cup {c}
         /\ s = "queued" => Running' = Running \ {c} /\ Live' = Live \cup {c}
         /\ s \notin {"running", "queued"} =>
              Running' = Running \ {c} /\ Live' = Live \ {c}
BY DEF TypeOK, Running, Live

-----------------------------------------------------------------------------
\* The semaphore: permits and running tasks stay within its size.
LEMMA AcquireTasks ==
  ASSUME TypeOK, BatchInv, NEW c \in Ids, Acquire(c)
  PROVE  /\ tasks' \in [Ids -> Statuses] /\ permits' \in 0..MaxConcurrency
         /\ permits' + Cardinality(Running') <= MaxConcurrency
         /\ Live' = Live
<1>1. tasks[c] = "queued" /\ permits > 0 /\ permits' = permits - 1
      /\ tasks' = [tasks EXCEPT ![c] = "running"]
  BY DEF Acquire
<1>2. c \notin Running /\ c \in Live
  BY <1>1 DEF Running, Live
<1>3. /\ tasks' \in [Ids -> Statuses]
      /\ Running' = Running \cup {c} /\ Live' = Live \cup {c}
  BY <1>1, OneTask DEF Statuses
<1>4. Cardinality(Running') = Cardinality(Running) + 1
  BY <1>2, <1>3, RunningFinite, FS_AddElement
<1> QED
  BY <1>1, <1>2, <1>3, <1>4, RunningFinite, Constants, LoopFacts DEF BatchInv

LEMMA TaskEndsTasks ==
  ASSUME TypeOK, BatchInv, NEW c \in Ids, TaskEnds(c)
  PROVE  /\ tasks' \in [Ids -> Statuses] /\ permits' \in 0..MaxConcurrency
         /\ permits' + Cardinality(Running') <= MaxConcurrency
         /\ Live' \subseteq Live
<1>1. tasks[c] = "running" /\ permits' = permits + 1
  BY DEF TaskEnds
<1>2. PICK s \in {"finished", "panicked"} : tasks' = [tasks EXCEPT ![c] = s]
  BY DEF TaskEnds
<1>3. /\ tasks' \in [Ids -> Statuses]
      /\ Running' = Running \ {c} /\ Live' = Live \ {c}
  BY <1>2, OneTask DEF Statuses
<1>4. c \in Running
  BY <1>1 DEF Running
<1>5. Cardinality(Running') = Cardinality(Running) - 1 /\ Cardinality(Running') \in Nat
  BY <1>3, <1>4, RunningFinite, FS_RemoveElement, FS_CardinalityType
<1>6. permits \in Nat /\ permits + Cardinality(Running) <= MaxConcurrency
  BY LoopFacts, Constants DEF BatchInv
<1>7. permits' \in 0..MaxConcurrency /\ permits' + Cardinality(Running') <= MaxConcurrency
  BY <1>1, <1>5, <1>6, RunningFinite, Constants
<1> QED
  BY <1>3, <1>7

\* A task is spawned only into a batch whose earlier tasks are all handles.
LEMMA SpawnTasks ==
  ASSUME TypeOK, BatchInv, Spawn
  PROVE  /\ tasks' \in [Ids -> Statuses]
         /\ permits + Cardinality(Running') <= MaxConcurrency
         /\ Live' \subseteq handles'
<1>1. /\ i \in Ids /\ tasks' = [tasks EXCEPT ![i] = "queued"]
      /\ handles' = handles \cup {i} /\ Live \subseteq handles
  BY LoopFacts DEF Spawn, BatchInv
<1>2. /\ tasks' \in [Ids -> Statuses]
      /\ Running' = Running \ {i} /\ Live' = Live \cup {i}
  BY <1>1, OneTask DEF Statuses
<1>3. IsFiniteSet(Running) /\ Running' \in SUBSET Running
  BY <1>2, RunningFinite
<1>4. IsFiniteSet(Running') /\ Cardinality(Running') <= Cardinality(Running)
  BY <1>3, FS_Subset
<1>5. Cardinality(Running') \in Nat
  BY <1>4, FS_CardinalityType
<1> QED
  BY <1>1, <1>2, <1>4, <1>5, RunningFinite, Constants, LoopFacts DEF BatchInv

LEMMA NextType == TypeOK /\ BatchInv /\ RoundInv /\ [Next]_vars => TypeOK'
<1> SUFFICES ASSUME TypeOK, BatchInv, RoundInv, [Next]_vars PROVE TypeOK'
  OBVIOUS
<1>1. CASE RoundsExceeded \/ LlmFails
  BY <1>1 DEF RoundsExceeded, LlmFails, TypeOK
<1>2. CASE LlmText
  <2>1. Assistant(0) \in Message
    BY MessageTypes, Constants
  <2>2. messages' \in Seq(Message)
    BY <1>2, <2>1, LoopFacts DEF LlmText
  <2>3. rounds' \in 0..MaxRounds
    BY <1>2, LoopFacts, Constants DEF LlmText
  <2> QED BY <1>2, <2>2, <2>3 DEF LlmText, TypeOK, Message
<1>3. ASSUME NEW n \in Ids, NEW cs \in [1..n -> Kinds], LlmCalls(cs) PROVE TypeOK'
  <2>1. cs \in Seq(Kinds) /\ Len(cs) = n /\ n \in 0..MaxCalls
    BY Constants
  <2>2. Assistant(Len(cs)) \in Message
    BY <2>1, MessageTypes
  <2>3. messages' \in Seq(Message)
    BY <1>3, <2>2, LoopFacts DEF LlmCalls
  <2>4. rounds' \in 0..MaxRounds
    BY <1>3, LoopFacts, Constants DEF LlmCalls
  <2>5. calls' \in Seq(Kinds) /\ Len(calls') <= MaxCalls /\ i' = 1 /\ results' = <<>>
    BY <1>3, <2>1, Constants DEF LlmCalls
  <2> QED BY <1>3, <2>3, <2>4, <2>5 DEF LlmCalls, TypeOK, Message
<1>4. CASE RoundDone
  <2> DEFINE t == [k \in DOMAIN results |-> Tool(results[k])]
  <2>1. Len(results) \in Nat /\ DOMAIN results = 1..Len(results)
    BY LoopFacts
  <2>2. \A k \in 1..Len(results) : Tool(results[k]) \in Message
    BY <2>1, LoopFacts, MessageTypes
  <2>3. t \in Seq(Message)
    BY <2>1, <2>2
  <2>4. messages' \in Seq(Message)
    BY <1>4, <2>3, LoopFacts DEF RoundDone
  <2> QED BY <1>4, <2>4 DEF RoundDone, TypeOK, Message
<1>5. CASE RunExclusive
  BY <1>5 DEF RunExclusive, TypeOK
<1>6. ASSUME i <= Len(calls), Answer(i)
      PROVE  results' \in Seq(Ids) /\ i' \in Nat \ {0}
  BY <1>6, LoopFacts DEF Answer
<1>7. CASE ExclusiveReturns
  <2>1. i <= Len(calls) /\ Answer(i)
    BY <1>7 DEF ExclusiveReturns, RoundInv
  <2> QED BY <1>6, <1>7, <2>1 DEF ExclusiveReturns, TypeOK
<1>8. CASE RefuseCall
  <2>1. i <= Len(calls) /\ Answer(i)
    BY <1>8 DEF RefuseCall
  <2> QED BY <1>6, <1>8, <2>1 DEF RefuseCall, TypeOK
<1>9. CASE StartBatch
  <2>1. permits' \in 0..MaxConcurrency
    BY <1>9, Constants DEF StartBatch
  <2> QED BY <1>9, <2>1 DEF StartBatch, TypeOK
<1>10. CASE Spawn
  <2>1. i \in Ids /\ handles' \in SUBSET Ids /\ i' \in Nat \ {0}
    BY <1>10, LoopFacts DEF Spawn
  <2> QED BY <1>10, <2>1, SpawnTasks DEF Spawn, TypeOK
<1>11. CASE BatchSpawned
  BY <1>11 DEF BatchSpawned, TypeOK
<1>12. CASE Join
  <2>1. PICK c \in Ids : results' = Append(results, c) /\ handles' = handles \ {c}
    BY <1>12 DEF Join
  <2>2. results' \in Seq(Ids) /\ handles' \in SUBSET Ids
    BY <2>1, LoopFacts
  <2> QED BY <1>12, <2>2 DEF Join, TypeOK
<1>13. CASE BatchDone
  BY <1>13 DEF BatchDone, TypeOK
<1>14. CASE Panic \/ Abandon
  BY <1>14 DEF Panic, Abandon, TypeOK
<1>15. ASSUME NEW c \in Ids, Acquire(c) PROVE TypeOK'
  BY <1>15, AcquireTasks DEF Acquire, loop, TypeOK
<1>16. ASSUME NEW c \in Ids, TaskEnds(c) PROVE TypeOK'
  BY <1>16, TaskEndsTasks DEF TaskEnds, loop, TypeOK
<1>17. CASE UNCHANGED vars
  BY <1>17 DEF vars, loop, TypeOK
<1> QED
  BY <1>1, <1>2, <1>3, <1>4, <1>5, <1>7, <1>8, <1>9, <1>10, <1>11, <1>12, <1>13,
     <1>14, <1>15, <1>16, <1>17 DEF Next, Step

-----------------------------------------------------------------------------
LEMMA InitBatch == Init => BatchInv
<1> SUFFICES ASSUME Init PROVE BatchInv
  OBVIOUS
<1>1. Running = {} /\ Live = {}
  BY DEF Init, Running, Live
<1> QED BY <1>1, FS_EmptySet, Constants DEF Init, BatchInv

\* Steps of the loop that touch neither tasks nor permits.
LEMMA TasksAlone ==
  ASSUME UNCHANGED <<tasks, permits>>
  PROVE  Running' = Running /\ Live' = Live /\ permits' = permits
BY DEF Running, Live

LEMMA NextBatch == TypeOK /\ BatchInv /\ [Next]_vars => BatchInv'
<1> SUFFICES ASSUME TypeOK, BatchInv, [Next]_vars PROVE BatchInv'
  OBVIOUS
<1>1. CASE RoundsExceeded \/ LlmFails \/ LlmText \/ RoundDone \/ RunExclusive
           \/ ExclusiveReturns \/ RefuseCall
  BY <1>1, TasksAlone
  DEF RoundsExceeded, LlmFails, LlmText, RoundDone, RunExclusive, ExclusiveReturns,
      RefuseCall, BatchInv
<1>2. ASSUME NEW n \in Ids, NEW cs \in [1..n -> Kinds], LlmCalls(cs) PROVE BatchInv'
  BY <1>2, TasksAlone DEF LlmCalls, BatchInv
<1>3. CASE StartBatch
  <2>1. Live = {} /\ Running = {}
    BY <1>3 DEF StartBatch, BatchInv, Live
  <2>2. Live' = {} /\ Running' = {}
    BY <1>3, <2>1 DEF StartBatch, Live, Running
  <2> QED BY <1>3, <2>2, FS_EmptySet, Constants DEF StartBatch, BatchInv
<1>4. CASE Spawn
  BY <1>4, SpawnTasks DEF Spawn, BatchInv
<1>5. CASE BatchSpawned \/ BatchDone
  BY <1>5, TasksAlone DEF BatchSpawned, BatchDone, BatchInv
<1>6. CASE Join
  <2>1. PICK c \in Ids : /\ tasks[c] = "finished" /\ stage = "batch"
                         /\ handles' = handles \ {c}
    BY <1>6 DEF Join, Awaited
  <2>2. c \notin Live
    BY <2>1 DEF Live, Running
  <2> QED BY <1>6, <2>1, <2>2, TasksAlone DEF Join, BatchInv
<1>7. CASE Panic \/ Abandon
  BY <1>7, TasksAlone DEF Panic, Abandon, BatchInv
<1>8. ASSUME NEW c \in Ids, Acquire(c) PROVE BatchInv'
  BY <1>8, AcquireTasks DEF Acquire, loop, BatchInv
<1>9. ASSUME NEW c \in Ids, TaskEnds(c) PROVE BatchInv'
  BY <1>9, TaskEndsTasks DEF TaskEnds, loop, BatchInv
<1>10. CASE UNCHANGED vars
  BY <1>10, TasksAlone DEF vars, loop, BatchInv
<1> QED
  BY <1>1, <1>2, <1>3, <1>4, <1>5, <1>6, <1>7, <1>8, <1>9, <1>10 DEF Next, Step

-----------------------------------------------------------------------------
\* The conversation, and where the round stands in it.
LEMMA InitRound == Init => RoundInv /\ ConversationWellFormed
<1> SUFFICES ASSUME Init PROVE RoundInv /\ ConversationWellFormed
  OBVIOUS
<1>1. RoundInv
  BY DEF Init, RoundInv
<1>2. Len(messages) = 1 /\ messages[1] = User
  BY DEF Init
<1>3. Answered(messages, Len(messages))
  BY <1>2 DEF Answered, User
<1> QED BY <1>1, <1>3 DEF ConversationWellFormed

LEMMA FunIsSeq ==
  ASSUME NEW S, NEW n \in Nat, NEW t \in [1..n -> S]
  PROVE  t \in Seq(S) /\ Len(t) = n
OBVIOUS

\* Only the messages up to the l-th count.
LEMMA AnsweredPrefix ==
  ASSUME NEW m, NEW n, NEW l \in Int,
         \A q \in 1..l : n[q] = m[q] /\ m[q].call \in Nat,
         Answered(m, l)
  PROVE  Answered(n, l)
<1>1. ASSUME NEW p \in 1..l
      PROVE  /\ m[p].role = "assistant" =>
                  \A c \in 1..m[p].call : p + c <= l /\ m[p + c] = Tool(c)
             /\ m[p].role = "tool" =>
                  /\ m[p].call < p
                  /\ m[p - m[p].call].role = "assistant"
                  /\ m[p].call <= m[p - m[p].call].call
  BY DEF Answered
<1>2. ASSUME NEW p \in 1..l, n[p].role = "assistant", NEW c \in 1..n[p].call
      PROVE  p + c <= l /\ n[p + c] = Tool(c)
  <2>1. n[p] = m[p] /\ m[p].call \in Nat
    OBVIOUS
  <2>2. p + c <= l /\ m[p + c] = Tool(c)
    BY <1>1, <1>2, <2>1
  <2>3. p + c \in 1..l
    BY <2>1, <2>2
  <2> QED BY <2>2, <2>3
<1>3. ASSUME NEW p \in 1..l, n[p].role = "tool"
      PROVE  /\ n[p].call < p
             /\ n[p - n[p].call].role = "assistant"
             /\ n[p].call <= n[p - n[p].call].call
  <2>1. n[p] = m[p] /\ m[p].call \in Nat
    OBVIOUS
  <2>2. /\ m[p].call < p
        /\ m[p - m[p].call].role = "assistant"
        /\ m[p].call <= m[p - m[p].call].call
    BY <1>1, <1>3, <2>1
  <2>3. p - m[p].call \in 1..l
    BY <2>1, <2>2
  <2> QED BY <2>1, <2>2, <2>3
<1> QED BY <1>2, <1>3 DEF Answered

\* An answer with k calls and then the k results complete a conversation.
LEMMA AnsweredRound ==
  ASSUME NEW m, NEW l \in Nat, NEW k \in Nat,
         \A q \in 1..l : m[q].call \in Nat,
         Answered(m, l),
         m[l + 1] = Assistant(k),
         \A c \in 1..k : m[l + 1 + c] = Tool(c)
  PROVE  Answered(m, l + 1 + k)
<1>1. ASSUME NEW p \in 1..l
      PROVE  /\ m[p].role = "assistant" =>
                  \A c \in 1..m[p].call : p + c <= l /\ m[p + c] = Tool(c)
             /\ m[p].role = "tool" =>
                  /\ m[p].call < p
                  /\ m[p - m[p].call].role = "assistant"
                  /\ m[p].call <= m[p - m[p].call].call
  BY DEF Answered
<1>2. ASSUME NEW p \in 1..(l + 1 + k), m[p].role = "assistant", NEW c \in 1..m[p].call
      PROVE  p + c <= l + 1 + k /\ m[p + c] = Tool(c)
  <2>1. CASE p \in 1..l
    <3>1. m[p].call \in Nat /\ p + c <= l /\ m[p + c] = Tool(c)
      BY <1>1, <1>2, <2>1
    <3> QED BY <2>1, <3>1
  <2>2. CASE p = l + 1
    BY <1>2, <2>2 DEF Assistant
  <2>3. CASE p \notin 1..(l + 1)
    <3>1. p - (l + 1) \in 1..k /\ p = l + 1 + (p - (l + 1))
      BY <2>3
    <3>2. m[p] = Tool(p - (l + 1))
      BY <3>1
    <3> QED BY <1>2, <3>2 DEF Tool
  <2> QED BY <2>1, <2>2, <2>3
<1>3. ASSUME NEW p \in 1..(l + 1 + k), m[p].role = "tool"
      PROVE  /\ m[p].call < p
             /\ m[p - m[p].call].role = "assistant"
             /\ m[p].call <= m[p - m[p].call].call
  <2>1. CASE p \in 1..l
    BY <1>1, <1>3, <2>1
  <2>2. CASE p = l + 1
    BY <1>3, <2>2 DEF Assistant
  <2>3. CASE p \notin 1..(l + 1)
    <3>1. PICK c \in 1..k : p = l + 1 + c
      <4>1. p - (l + 1) \in 1..k /\ p = l + 1 + (p - (l + 1))
        BY <2>3
      <4> QED BY <4>1
    <3>2. m[p] = Tool(c)
      BY <3>1
    <3>3. m[p].call = c /\ p - c = l + 1 /\ c < p
      BY <3>1, <3>2 DEF Tool
    <3> QED BY <3>1, <3>3 DEF Assistant
  <2> QED BY <2>1, <2>2, <2>3
<1> QED BY <1>2, <1>3 DEF Answered

LEMMA MessageCalls == TypeOK => \A q \in 1..Len(messages) : messages[q].call \in Nat
<1> SUFFICES ASSUME TypeOK, NEW q \in 1..Len(messages) PROVE messages[q].call \in Nat
  OBVIOUS
<1>1. messages[q] \in Message
  BY LoopFacts
<1> QED BY <1>1, Constants DEF Message

\* The results of a round that is done answer its calls.
LEMMA RoundDoneAnswers ==
  ASSUME TypeOK, RoundInv, RoundDone
  PROVE  Answered(messages, Len(messages))'
<1> DEFINE n == Len(calls)
           L == Len(messages)
           t == [k \in DOMAIN results |-> Tool(results[k])]
<1>1. /\ i = n + 1 /\ results = UpTo(n) /\ n \in Nat /\ n <= MaxCalls
      /\ messages # <<>> /\ messages[L] = Assistant(n) /\ Answered(messages, L - 1)
      /\ messages' = messages \o t
  <2>1. /\ stage = "dispatch" /\ i > Len(calls) /\ messages' = messages \o t
    BY DEF RoundDone
  <2>2. i \in Nat /\ n \in Nat /\ n <= MaxCalls
    BY LoopFacts
  <2>3. /\ i <= n + 1 /\ results = UpTo(i - 1)
        /\ messages # <<>> /\ messages[L] = Assistant(n) /\ Answered(messages, L - 1)
    BY <2>1 DEF RoundInv
  <2>4. i = n + 1 /\ i - 1 = n
    BY <2>1, <2>2, <2>3
  <2> QED BY <2>1, <2>2, <2>3, <2>4
<1>2. t = [k \in 1..n |-> Tool(k)]
  BY <1>1 DEF UpTo
<1>3. \A k \in 1..n : Tool(k) \in Message
  BY <1>1, MessageTypes, Constants DEF Ids
<1>4. t \in [1..n -> Message] /\ \A k \in 1..n : t[k] = Tool(k)
  BY <1>2, <1>3
<1>5. messages \in Seq(Message) /\ L \in Nat /\ L >= 1 /\ L - 1 \in Nat /\ L - 1 + 1 = L
  BY <1>1, LoopFacts
<1>6. t \in Seq(Message) /\ Len(t) = n
  BY <1>1, <1>4, FunIsSeq
<1> HIDE DEF t
<1>7. /\ Len(messages') = L + n
      /\ \A q \in 1..L : messages'[q] = messages[q]
      /\ \A k \in 1..n : messages'[L + k] = t[k]
  <2>1. /\ Len(messages \o t) = L + Len(t)
        /\ \A q \in 1..(L + Len(t)) :
             (messages \o t)[q] = IF q <= L THEN messages[q] ELSE t[q - L]
    BY <1>5, <1>6, ConcatProperties, Zenon
  <2>2. \A q \in 1..L : messages'[q] = messages[q]
    BY <1>1, <1>5, <1>6, <2>1
  <2>3. ASSUME NEW k \in 1..n PROVE messages'[L + k] = t[k]
    <3>1. L + k \in 1..(L + n) /\ ~(L + k <= L) /\ (L + k) - L = k
      BY <1>1, <1>5
    <3> QED BY <1>1, <1>6, <2>1, <3>1
  <2> QED BY <1>1, <1>6, <2>1, <2>2, <2>3
<1>8. messages'[L - 1 + 1] = Assistant(n) /\ \A k \in 1..n : messages'[L - 1 + 1 + k] = Tool(k)
  BY <1>1, <1>4, <1>5, <1>7
<1>9. L - 1 \in Int /\ \A q \in 1..(L - 1) : messages'[q] = messages[q] /\ messages[q].call \in Nat
  BY <1>5, <1>7, MessageCalls
<1>10. Answered(messages', L - 1)
  BY <1>1, <1>9, AnsweredPrefix, Zenon
<1>11. Answered(messages', L - 1 + 1 + n)
  BY <1>1, <1>5, <1>8, <1>9, <1>10, AnsweredRound
<1> QED BY <1>1, <1>5, <1>7, <1>11

\* An answer of the LLM opens the round after a complete conversation.
LEMMA LlmCallsOpens ==
  ASSUME TypeOK, RoundInv, ConversationWellFormed,
         NEW n \in Ids, NEW cs \in [1..n -> Kinds], LlmCalls(cs)
  PROVE  RoundInv'
<1> DEFINE L == Len(messages)
<1>1. /\ stage = "llm" /\ stage' = "dispatch" /\ messages' = Append(messages, Assistant(Len(cs)))
      /\ calls' = cs /\ i' = 1 /\ results' = <<>> /\ handles' = {}
  BY DEF LlmCalls, RoundInv
<1>2. n \in Nat /\ cs \in Seq(Kinds) /\ Len(cs) = n
  BY Constants, FunIsSeq
<1>3. /\ messages' \in Seq(Message) /\ Len(messages') = L + 1 /\ L \in Nat
      /\ messages'[L + 1] = Assistant(Len(cs))
      /\ \A q \in 1..L : messages'[q] = messages[q]
  <2>1. Assistant(Len(cs)) \in Message
    BY <1>2, MessageTypes, Constants
  <2> QED BY <1>1, <2>1, LoopFacts
<1>4. L \in Int /\ \A q \in 1..L : messages'[q] = messages[q] /\ messages[q].call \in Nat
  BY <1>3, MessageCalls
<1>5. Answered(messages, L)
  BY <1>1 DEF ConversationWellFormed
<1>6. Answered(messages', L)
  BY <1>4, <1>5, AnsweredPrefix, Zenon
<1>7. results' = UpTo(i' - 1)
  BY <1>1 DEF UpTo
<1>8. /\ messages' # <<>> /\ messages'[Len(messages')] = Assistant(Len(calls'))
      /\ Answered(messages', Len(messages') - 1) /\ i' <= Len(calls') + 1
  <2>1. Len(messages') - 1 = L /\ messages' # <<>>
    BY <1>3
  <2> QED BY <1>1, <1>2, <1>3, <1>6, <2>1
<1> QED BY <1>1, <1>7, <1>8 DEF RoundInv

\* The next result is appended in the order of the calls.
LEMMA UpToAppend ==
  ASSUME NEW n \in Nat
  PROVE  Append(UpTo(n), n + 1) = UpTo(n + 1) /\ Len(UpTo(n)) = n
<1>1. UpTo(n) \in Seq(Nat) /\ Len(UpTo(n)) = n
  BY DEF UpTo
<1>2. UpTo(n + 1) \in Seq(Nat) /\ Len(UpTo(n + 1)) = n + 1
  BY DEF UpTo
<1>3. Append(UpTo(n), n + 1) \in Seq(Nat) /\ Len(Append(UpTo(n), n + 1)) = n + 1
  BY <1>1
<1>4. \A k \in 1..(n + 1) : Append(UpTo(n), n + 1)[k] = UpTo(n + 1)[k]
  BY <1>1 DEF UpTo
<1>5. Append(UpTo(n), n + 1) = UpTo(n + 1)
  BY <1>2, <1>3, <1>4, SeqEqual
<1> QED BY <1>1, <1>5

\* A call answered inline, by its tool or by a refusal.
LEMMA AnswerRound ==
  ASSUME TypeOK, RoundInv, stage \in {"dispatch", "exclusive"}, i <= Len(calls), Answer(i),
         stage' = "dispatch", UNCHANGED <<calls, handles, messages>>
  PROVE  RoundInv'
<1>0. i \in Nat /\ i >= 1 /\ i' = i + 1 /\ Len(calls) \in Nat
  BY LoopFacts DEF Answer
<1>1. i - 1 \in Nat /\ i' - 1 = i /\ i' - 1 = (i - 1) + 1
  BY <1>0
<1>2. results' = Append(UpTo(i - 1), (i - 1) + 1)
  BY <1>1 DEF Answer, RoundInv
<1>3. results' = UpTo(i' - 1)
  BY <1>1, <1>2, UpToAppend
<1>4. i' <= Len(calls') + 1
  BY <1>0
<1> QED BY <1>3, <1>4 DEF RoundInv

\* The least handle is the call the next result belongs to.
LEMMA JoinRound ==
  ASSUME TypeOK, RoundInv, Join
  PROVE  RoundInv'
<1> DEFINE r == Len(results)
<1>1. PICK c \in Ids : /\ stage = "batch" /\ c \in handles /\ \A d \in handles : c <= d
                       /\ results' = Append(results, c) /\ handles' = handles \ {c}
  BY DEF Join, Awaited
<1>2. /\ results = UpTo(r) /\ handles = (r + 1)..(i - 1) /\ r < i /\ i <= Len(calls) + 1
      /\ stage' = "batch" /\ i' = i /\ UNCHANGED <<calls, messages>>
  BY <1>1 DEF RoundInv, Join
<1>3. r \in Nat /\ i \in Nat /\ c \in Int
  BY LoopFacts, Constants
<1>4. c = r + 1 /\ r + 1 < i
  <2>1. r + 1 <= c /\ c <= i - 1
    BY <1>1, <1>2, <1>3
  <2>2. r + 1 \in handles
    BY <1>2, <1>3, <2>1
  <2> QED BY <1>1, <1>3, <2>1, <2>2
<1>5. results' = UpTo(r + 1)
  <2>1. results' = Append(UpTo(r), r + 1)
    BY <1>1, <1>2, <1>4
  <2> QED BY <1>3, <2>1, UpToAppend
<1>6. Len(results') = r + 1
  BY <1>3, <1>5, UpToAppend
<1>7. handles' = (Len(results') + 1)..(i' - 1)
  BY <1>1, <1>2, <1>3, <1>4, <1>6
<1> QED BY <1>1, <1>2, <1>4, <1>5, <1>6, <1>7 DEF RoundInv

LEMMA NextRound ==
  TypeOK /\ RoundInv /\ ConversationWellFormed /\ [Next]_vars
    => RoundInv' /\ ConversationWellFormed'
<1> SUFFICES ASSUME TypeOK, RoundInv, ConversationWellFormed, [Next]_vars
             PROVE  RoundInv' /\ ConversationWellFormed'
  OBVIOUS
<1>1. CASE RoundsExceeded \/ LlmFails \/ LlmText \/ Panic \/ Abandon
  <2>1. stage' \in {"ended", "broken"}
    BY <1>1 DEF RoundsExceeded, LlmFails, LlmText, Panic, Abandon
  <2> QED BY <2>1 DEF RoundInv, ConversationWellFormed
<1>2. ASSUME NEW n \in Ids, NEW cs \in [1..n -> Kinds], LlmCalls(cs)
      PROVE  RoundInv' /\ ConversationWellFormed'
  BY <1>2, LlmCallsOpens DEF LlmCalls, ConversationWellFormed
<1>3. CASE RoundDone
  BY <1>3, RoundDoneAnswers DEF RoundDone, RoundInv, ConversationWellFormed
<1>4. CASE RunExclusive
  BY <1>4 DEF RunExclusive, RoundInv, ConversationWellFormed
<1>5. CASE ExclusiveReturns \/ RefuseCall
  <2>1. /\ stage \in {"dispatch", "exclusive"} /\ i <= Len(calls) /\ Answer(i)
        /\ stage' = "dispatch" /\ UNCHANGED <<calls, handles, messages>>
    BY <1>5 DEF ExclusiveReturns, RefuseCall, RoundInv
  <2> QED BY <2>1, AnswerRound DEF ConversationWellFormed
<1>6. CASE StartBatch
  <2>1. /\ stage = "dispatch" /\ stage' = "spawn"
        /\ UNCHANGED <<calls, i, handles, results, messages>>
    BY <1>6 DEF StartBatch
  <2>2. i - 1 \in Nat /\ results = UpTo(i - 1) /\ handles = {}
    BY <2>1, LoopFacts DEF RoundInv
  <2>3. Len(results) = i - 1
    BY <2>2, UpToAppend
  <2>4. handles = (Len(results) + 1)..(i - 1) /\ Len(results) < i
    BY <2>2, <2>3, LoopFacts
  <2> QED BY <2>1, <2>2, <2>3, <2>4 DEF RoundInv, ConversationWellFormed
<1>7. CASE Spawn
  <2>1. /\ stage = "spawn" /\ stage' = "spawn" /\ i <= Len(calls)
        /\ handles' = handles \cup {i} /\ i' = i + 1
        /\ UNCHANGED <<calls, results, messages>>
    BY <1>7 DEF Spawn
  <2>2. /\ Len(results) \in Nat /\ i \in Nat /\ Len(results) < i
        /\ handles = (Len(results) + 1)..(i - 1)
    BY <2>1, LoopFacts DEF RoundInv
  <2>3. handles' = (Len(results) + 1)..(i' - 1) /\ Len(results) < i'
    BY <2>1, <2>2
  <2>4. i' <= Len(calls) + 1
    BY <2>1, <2>2, LoopFacts
  <2> QED BY <2>1, <2>3, <2>4 DEF RoundInv, ConversationWellFormed
<1>8. CASE BatchSpawned
  BY <1>8 DEF BatchSpawned, RoundInv, ConversationWellFormed
<1>9. CASE Join
  BY <1>9, JoinRound DEF Join, Awaited, ConversationWellFormed
<1>10. CASE BatchDone
  <2>1. /\ stage = "batch" /\ stage' = "dispatch" /\ handles = {}
        /\ UNCHANGED <<calls, i, handles, results, messages>>
    BY <1>10 DEF BatchDone
  <2>2. /\ Len(results) \in Nat /\ i \in Nat /\ Len(results) < i
        /\ handles = (Len(results) + 1)..(i - 1) /\ results = UpTo(Len(results))
    BY <2>1, LoopFacts DEF RoundInv
  <2>3. Len(results) = i - 1
    BY <2>1, <2>2
  <2> QED BY <2>1, <2>2, <2>3 DEF RoundInv, ConversationWellFormed
<1>11. CASE UNCHANGED loop
  BY <1>11 DEF loop, RoundInv, ConversationWellFormed
<1>12. ASSUME NEW c \in Ids, Acquire(c) \/ TaskEnds(c) PROVE UNCHANGED loop
  BY <1>12 DEF Acquire, TaskEnds
<1>13. CASE UNCHANGED vars
  BY <1>11, <1>13 DEF vars
<1> QED
  BY <1>1, <1>2, <1>3, <1>4, <1>5, <1>6, <1>7, <1>8, <1>9, <1>10, <1>11, <1>12, <1>13
  DEF Next, Step

-----------------------------------------------------------------------------
LEMMA Inductive == Spec => [](TypeOK /\ BatchInv /\ RoundInv /\ ConversationWellFormed)
<1>1. Init => TypeOK /\ BatchInv /\ RoundInv /\ ConversationWellFormed
  BY InitType, InitBatch, InitRound
<1>2. TypeOK /\ BatchInv /\ RoundInv /\ ConversationWellFormed /\ [Next]_vars
        => (TypeOK /\ BatchInv /\ RoundInv /\ ConversationWellFormed)'
  BY NextType, NextBatch, NextRound
<1> QED BY <1>1, <1>2, PTL DEF Spec

(* The state of a run of the loop keeps its type; permits stay within the   *)
(* size of the semaphore.                                                   *)
THEOREM TypeCorrect == Spec => []TypeOK
BY Inductive, PTL

(* An exclusive tool runs alone and a run that returns leaves no tool behind *)
(* for any calls, panics and interleaving of the spawned tasks.              *)
THEOREM NoToolBesideAlways == Spec => []NoToolBeside
<1>1. BatchInv => NoToolBeside
  BY DEF BatchInv, NoToolBeside
<1> QED BY <1>1, Inductive, PTL

(* max_concurrency bounds the running tools for every value it has.         *)
THEOREM ConcurrencyCappedAlways == Spec => []ConcurrencyCapped
<1>1. TypeOK /\ BatchInv => ConcurrencyCapped
  <2> SUFFICES ASSUME TypeOK, BatchInv PROVE Cardinality(Running) <= MaxConcurrency
    BY DEF ConcurrencyCapped
  <2>1. permits \in Nat /\ MaxConcurrency \in Nat
    BY LoopFacts, Constants
  <2>2. permits + Cardinality(Running) <= MaxConcurrency
    BY DEF BatchInv
  <2> QED BY <2>1, <2>2, RunningFinite
<1> QED BY <1>1, Inductive, PTL

(* However many rounds and calls there are and in whatever order the tasks  *)
(* finish, the LLM is asked with every call answered, in order.             *)
THEOREM ConversationWellFormedAlways == Spec => []ConversationWellFormed
BY Inductive, PTL
=============================================================================
