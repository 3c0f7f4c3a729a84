------------------------------ MODULE Llm_proofs ------------------------------
(***************************************************************************)
(* The safety of ResilientLlmProvider::complete for any number of attempts  *)
(* and fallbacks, any classification of errors and any token width; behind   *)
(* it that of OpenAiProvider::stream for any number of lines and tool calls. *)
(***************************************************************************)
EXTENDS ResilientLlm, SseStream, FiniteSetTheorems, TLAPS

\* The fields of the policy, as numbers.
LEMMA PolicyFields ==
  ASSUME policy \in Policies
  PROVE  /\ policy.max_attempts \in Nat
         /\ policy.fallbacks \in Nat /\ policy.fallbacks <= MaxFallbacks
         /\ policy.tokens \in 0..(Width - 1)
         /\ FirstExtra \in Nat
BY ResilientAssumption DEF Policies, FirstExtra, Greater

LEMMA InitType == Init => TypeOK
<1> SUFFICES ASSUME Init PROVE TypeOK
  OBVIOUS
<1>1. policy \in Policies /\ policy.tokens \in 0..(Width - 1)
  BY PolicyFields DEF Init
<1>2. asked \in [0..MaxFallbacks -> Nat]
  BY DEF Init
<1> QED
  BY <1>1, <1>2 DEF Init, TypeOK

\* One more call of provider p, over any set of providers.
LEMMA Counted ==
  ASSUME NEW S, NEW f \in [S -> Nat], NEW p
  PROVE  /\ [f EXCEPT ![p] = @ + 1] \in [S -> Nat]
         /\ \A q \in S : [f EXCEPT ![p] = @ + 1][q] = IF q = p THEN f[q] + 1 ELSE f[q]
<1> DEFINE g == [f EXCEPT ![p] = @ + 1]
<1>1. \A q \in S : g[q] = IF q = p THEN f[q] + 1 ELSE f[q]
  BY Zenon
<1>2. \A q \in S : g[q] \in Nat
  BY <1>1
<1>3. DOMAIN g = S /\ g = [q \in S |-> g[q]]
  BY Zenon
<1> HIDE DEF g
<1>4. g \in [S -> Nat]
  BY <1>2, <1>3
<1> QED BY <1>1, <1>4 DEF g

LEMMA AskCounts ==
  ASSUME TypeOK, NEW p, Ask(p)
  PROVE  /\ asked' \in [0..MaxFallbacks -> Nat]
         /\ \A q \in 0..MaxFallbacks : asked'[q] = IF q = p THEN asked[q] + 1 ELSE asked[q]
<1>1. asked \in [0..MaxFallbacks -> Nat]
  BY DEF TypeOK
<1> DEFINE S == 0..MaxFallbacks
<1> HIDE DEF S
<1>2. asked \in [S -> Nat]
  BY <1>1 DEF S
<1>3. /\ asked' \in [S -> Nat]
      /\ \A q \in S : asked'[q] = IF q = p THEN asked[q] + 1 ELSE asked[q]
  BY <1>2, Counted DEF Ask
<1> QED BY <1>3 DEF S

\* What one attempt's error does to the counters, whatever comes of it.
LEMMA AttemptType ==
  ASSUME TypeOK, NEW k \in Classes, AttemptErr(k)
  PROVE  /\ asked' \in [0..MaxFallbacks -> Nat] /\ errors' \in SUBSET Classes
         /\ policy' \in Policies
<1>1. errors' \in SUBSET Classes /\ policy' \in Policies
  BY DEF TypeOK, AttemptErr
<1>2. asked' \in [0..MaxFallbacks -> Nat]
  BY AskCounts DEF AttemptErr
<1> QED BY <1>1, <1>2

LEMMA DoubledType ==
  ASSUME NEW n \in 0..(Width - 1)
  PROVE  Doubled(n) \in 0..(Width - 1)
<1>1. Width \in Nat /\ Ceiling \in Nat /\ Ceiling < Width /\ Width > 0
  BY ResilientAssumption
<1>2. (2 * n) % Width \in 0..(Width - 1)
  BY <1>1
<1> QED BY <1>1, <1>2 DEF Doubled, Lesser

LEMMA NextType == TypeOK /\ [Next]_vars => TypeOK'
<1> SUFFICES ASSUME TypeOK, [Next]_vars PROVE TypeOK'
  OBVIOUS
<1>0. policy \in Policies /\ attempt \in Nat /\ next \in Nat
  BY DEF TypeOK
<1>k. {"MaxOutputTokens", "PromptTooLong", "ProviderOverloaded"} \subseteq Classes
  BY DEF Classes
<1>1. CASE AttemptOk
  <2>1. asked' \in [0..MaxFallbacks -> Nat]
    BY <1>1, AskCounts DEF AttemptOk
  <2> QED BY <1>1, <2>1 DEF AttemptOk, Return, TypeOK
<1>2. ASSUME NEW k \in Classes, Retry(k) PROVE TypeOK'
  <2>1. AttemptErr(k)
    BY <1>2 DEF Retry
  <2> QED BY <1>2, <2>1, AttemptType DEF Retry, TypeOK
<1>3. ASSUME NEW k \in Classes, GiveUp(k) PROVE TypeOK'
  <2>1. AttemptErr(k)
    BY <1>3 DEF GiveUp
  <2> QED BY <1>3, <2>1, AttemptType DEF GiveUp, Return, TypeOK
<1>4. CASE TryRest
  <2>1. AttemptErr("ProviderOverloaded")
    BY <1>4 DEF TryRest
  <2>2. FirstExtra \in Nat
    BY <1>0, PolicyFields
  <2> QED BY <1>4, <1>k, <2>1, <2>2, AttemptType DEF TryRest, TypeOK
<1>5. CASE Escalate
  <2>1. AttemptErr("MaxOutputTokens")
    BY <1>5 DEF Escalate
  <2>2. Doubled(tokens) \in 0..(Width - 1)
    BY DoubledType DEF TypeOK
  <2> QED BY <1>5, <1>k, <2>1, <2>2, AttemptType DEF Escalate, TypeOK
<1>6. CASE Compact
  <2>1. AttemptErr("PromptTooLong")
    BY <1>6 DEF Compact
  <2> QED BY <1>6, <1>k, <2>1, AttemptType DEF Compact, TypeOK
<1>7. CASE ExtraOk
  <2>1. asked' \in [0..MaxFallbacks -> Nat]
    BY <1>7, AskCounts DEF ExtraOk
  <2> QED BY <1>7, <2>1 DEF ExtraOk, Return, TypeOK
<1>8. CASE ExtraErr
  <2>1. asked' \in [0..MaxFallbacks -> Nat]
    BY <1>8, AskCounts DEF ExtraErr
  <2> QED BY <1>8, <2>1 DEF ExtraErr, TypeOK
<1>9. CASE ExtraDone
  BY <1>9, <1>k DEF ExtraDone, Return, TypeOK
<1>10. CASE LastCall
  <2>1. asked' \in [0..MaxFallbacks -> Nat]
    BY <1>10, AskCounts DEF LastCall
  <2> QED BY <1>10, <2>1 DEF LastCall, Return, TypeOK
<1>11. CASE UNCHANGED vars
  BY <1>11 DEF vars, TypeOK
<1> QED
  BY <1>1, <1>2, <1>3, <1>4, <1>5, <1>6, <1>7, <1>8, <1>9, <1>10, <1>11 DEF Next

(* The variables of a call keep their types, the token limit its width.     *)
THEOREM TypeCorrect == Spec => []TypeOK
BY InitType, NextType, PTL DEF Spec

------------------------------------------------------------------------------
\* What the proofs below use of the types.
LEMMA CallFacts ==
  ASSUME TypeOK
  PROVE  /\ policy.fallbacks \in Nat /\ policy.fallbacks <= MaxFallbacks
         /\ MaxFallbacks \in Nat /\ 0 \in 0..MaxFallbacks
         /\ policy.max_attempts \in Nat /\ attempt \in Nat /\ next \in Nat
         /\ policy.tokens \in 0..(Width - 1)
         /\ AttemptsUsed \in Nat /\ AttemptsUsed >= 1
         /\ AttemptsUsed = 1 \/ AttemptsUsed = policy.max_attempts
         /\ policy.max_attempts <= AttemptsUsed
         /\ FirstExtra = AttemptsUsed
         /\ \A q \in 0..MaxFallbacks : asked[q] \in Nat
<1>1. policy \in Policies /\ attempt \in Nat /\ next \in Nat
  BY DEF TypeOK
<1>2. MaxFallbacks \in Nat /\ 0 \in 0..MaxFallbacks
  BY ResilientAssumption
<1>3. \A q \in 0..MaxFallbacks : asked[q] \in Nat
  BY DEF TypeOK
<1> QED
  BY <1>1, <1>2, <1>3, PolicyFields DEF AttemptsUsed, FirstExtra, Greater

LEMMA InitCall == Init => CallInv
<1> SUFFICES ASSUME Init PROVE CallInv
  OBVIOUS
<1>0. TypeOK
  BY InitType
<1>1. \A q \in 0..MaxFallbacks : asked[q] = 0
  BY DEF Init
<1>2. FallbackAtMostOnce /\ PrimaryBudget
  BY <1>0, <1>1, CallFacts DEF Init, FallbackAtMostOnce, PrimaryBudget, AttemptsUsed
<1>3. OverloadTriesAll /\ EscalatedLimit /\ ExtraInv /\ LastInv
  BY DEF Init, OverloadTriesAll, EscalatedLimit, ExtraInv, LastInv
<1>4. LoopInv
  BY <1>0, <1>1, CallFacts DEF Init, LoopInv
<1> QED BY <1>2, <1>3, <1>4 DEF CallInv

\* The provider an attempt goes to has not been called yet, unless it is the primary.
LEMMA TargetIsFresh ==
  ASSUME TypeOK, CallInv, stage = "loop"
  PROVE  /\ Target \in 0..MaxFallbacks
         /\ Target # 0 => Target = attempt /\ asked[Target] = 0
<1>1. last_class = "ProviderOverloaded" => attempt >= 1
  BY CallFacts DEF CallInv, LoopInv
<1>2. CASE Target = 0
  BY <1>2, CallFacts
<1>3. CASE Target # 0
  <2>1. Target = attempt /\ attempt \in 1..MaxFallbacks
    BY <1>1, <1>3, CallFacts DEF Target
  <2>2. ~(asked[attempt] >= 1)
    BY <2>1, CallFacts DEF CallInv, LoopInv
  <2>3. asked[attempt] = 0
    BY <2>1, <2>2, CallFacts
  <2> QED BY <2>1, <2>3
<1> QED BY <1>2, <1>3

\* The counters after an attempt.
LEMMA AttemptCounts ==
  ASSUME TypeOK, CallInv, stage = "loop", Ask(Target)
  PROVE  /\ asked'[0] \in Nat /\ asked'[0] <= attempt + 1
         /\ \A p \in 1..MaxFallbacks : asked'[p] \in Nat /\ asked'[p] <= 1
         /\ \A p \in 1..MaxFallbacks : asked'[p] >= 1 => p < attempt + 1
         /\ \A p \in 1..MaxFallbacks : asked[p] = 1 => asked'[p] = 1
         /\ Target # 0 => asked'[Target] = 1
<1>1. \A q \in 0..MaxFallbacks :
        asked'[q] = IF q = Target THEN asked[q] + 1 ELSE asked[q]
  BY AskCounts
<1>2. asked[0] <= attempt
  BY DEF CallInv, LoopInv
<1>3. asked'[0] \in Nat /\ asked'[0] <= attempt + 1
  BY <1>1, <1>2, CallFacts
<1>4. Target # 0 => asked'[Target] = 1
  BY <1>1, TargetIsFresh
<1>5. ASSUME NEW p \in 1..MaxFallbacks
      PROVE  /\ asked'[p] \in Nat /\ asked'[p] <= 1
             /\ asked'[p] >= 1 => p < attempt + 1
             /\ asked[p] = 1 => asked'[p] = 1
  <2>1. p \in 0..MaxFallbacks /\ p # 0
    BY CallFacts
  <2>2. asked[p] \in Nat /\ asked[p] <= 1 /\ (asked[p] >= 1 => p < attempt)
    BY <2>1, CallFacts DEF CallInv, FallbackAtMostOnce, LoopInv
  <2>3. CASE p = Target
    BY <2>1, <2>3, <1>1, TargetIsFresh, CallFacts
  <2>4. CASE p # Target
    BY <2>1, <2>2, <2>4, <1>1, CallFacts
  <2> QED BY <2>3, <2>4
<1> QED BY <1>3, <1>4, <1>5

\* While the call met overloads only, the attempts walk through the fallbacks.
LEMMA OverloadWalks ==
  ASSUME TypeOK, CallInv, NEW k \in Classes, AttemptErr(k),
         errors' \subseteq {"ProviderOverloaded"}
  PROVE  /\ k = "ProviderOverloaded"
         /\ \A p \in 1..policy.fallbacks : p < attempt + 1 => asked'[p] = 1
<1>1. k = "ProviderOverloaded" /\ errors \subseteq {"ProviderOverloaded"}
  BY DEF AttemptErr
<1>2. stage = "loop" /\ Ask(Target)
  BY DEF AttemptErr
<1>3. ASSUME NEW p \in 1..policy.fallbacks, p < attempt + 1
      PROVE  asked'[p] = 1
  <2>1. p \in 1..MaxFallbacks
    BY CallFacts
  <2>2. CASE p < attempt
    BY <1>1, <1>2, <2>1, <2>2, AttemptCounts DEF CallInv, LoopInv
  <2>3. CASE p = attempt
    <3>1. attempt > 0 /\ attempt <= policy.fallbacks
      BY <2>3, CallFacts
    <3>2. Target = attempt
      BY <1>1, <1>2, <3>1 DEF CallInv, LoopInv, Target
    <3> QED BY <1>2, <2>3, <3>1, <3>2, AttemptCounts, CallFacts
  <2> QED BY <1>3, <2>2, <2>3, CallFacts
<1> QED BY <1>1, <1>3

\* Once the attempts are spent or an error is fatal, this was the last one.
LEMMA AttemptErrInv ==
  ASSUME TypeOK, CallInv, NEW k \in Classes, AttemptErr(k)
  PROVE  /\ FallbackAtMostOnce'
         /\ asked'[0] \in Nat /\ asked'[0] <= attempt + 1 /\ asked'[0] <= AttemptsUsed
         /\ "Fatal" \in errors' => k = "Fatal"
         /\ errors' = {"ProviderOverloaded"} =>
              \A p \in 1..policy.fallbacks : p < attempt + 1 => asked'[p] = 1
         /\ policy' = policy /\ outcome = "None"
<1>1. stage = "loop" /\ Ask(Target) /\ policy' = policy /\ errors' = errors \cup {k}
  BY DEF AttemptErr
<1>2. attempt < AttemptsUsed /\ "Fatal" \notin errors /\ outcome = "None"
  BY <1>1 DEF CallInv, LoopInv
<1>3. FallbackAtMostOnce'
  BY <1>1, AttemptCounts DEF FallbackAtMostOnce
<1>4. asked'[0] \in Nat /\ asked'[0] <= attempt + 1 /\ asked'[0] <= AttemptsUsed
  BY <1>1, <1>2, AttemptCounts, CallFacts
<1>5. "Fatal" \in errors' => k = "Fatal"
  BY <1>1, <1>2
<1>6. errors' = {"ProviderOverloaded"} =>
        \A p \in 1..policy.fallbacks : p < attempt + 1 => asked'[p] = 1
  BY OverloadWalks
<1> QED BY <1>1, <1>2, <1>3, <1>4, <1>5, <1>6

\* The parts of CallInv that speak of the stages the call is not in hold there.
LEMMA NotThere ==
  ASSUME stage' \notin {"loop", "extra", "escalated", "compacted"}
  PROVE  LoopInv' /\ ExtraInv' /\ LastInv' /\ EscalatedLimit'
BY DEF LoopInv, ExtraInv, LastInv, EscalatedLimit

LEMMA RetryCall ==
  ASSUME TypeOK, CallInv, NEW k \in Classes, Retry(k)
  PROVE  CallInv'
<1>1. /\ AttemptErr(k) /\ ~Exhausted(k) /\ attempt' = attempt + 1 /\ last_class' = k
      /\ stage' = stage /\ tokens' = tokens /\ outcome' = outcome
  BY DEF Retry
<1>2. /\ stage = "loop" /\ stage' = "loop" /\ Ask(Target)
      /\ errors' = errors \cup {k} /\ policy' = policy
  BY <1>1 DEF AttemptErr
<1>3. k # "Fatal" /\ attempt + 1 < policy.max_attempts
  BY <1>1, CallFacts DEF Exhausted
<1>4. AttemptsUsed' = AttemptsUsed
  BY <1>2 DEF AttemptsUsed
<1>5. attempt' < AttemptsUsed'
  BY <1>1, <1>3, <1>4, CallFacts
<1>6. "Fatal" \notin errors' /\ outcome' = "None" /\ tokens' = policy'.tokens
  BY <1>1, <1>2, <1>3 DEF CallInv, LoopInv
<1>7. \A p \in 1..MaxFallbacks : asked'[p] >= 1 => p < attempt'
  BY <1>1, <1>2, AttemptCounts
<1>8. errors' \subseteq {"ProviderOverloaded"} =>
        /\ last_class' = "ProviderOverloaded"
        /\ \A p \in 1..policy'.fallbacks : p < attempt' => asked'[p] = 1
  BY <1>1, <1>2, OverloadWalks
<1>9. LoopInv'
  BY <1>1, <1>5, <1>6, <1>7, <1>8, AttemptErrInv, CallFacts DEF LoopInv
<1>10. FallbackAtMostOnce'
  BY <1>1, AttemptErrInv
<1>11. PrimaryBudget'
  <2>1. Greater(policy.max_attempts, 1)' = AttemptsUsed
    BY <1>4 DEF AttemptsUsed
  <2> QED BY <2>1, <1>1, <1>6, AttemptErrInv, CallFacts DEF PrimaryBudget
<1> QED
  BY <1>2, <1>6, <1>9, <1>10, <1>11
  DEF CallInv, OverloadTriesAll, EscalatedLimit, ExtraInv, LastInv

LEMMA GiveUpCall ==
  ASSUME TypeOK, CallInv, NEW k \in Classes, GiveUp(k)
  PROVE  CallInv'
<1>1. /\ AttemptErr(k) /\ k # "ProviderOverloaded" /\ attempt' = attempt
      /\ stage' = "done" /\ outcome' = k
  BY DEF GiveUp, Return
<1>2. policy' = policy /\ Greater(policy.max_attempts, 1)' = AttemptsUsed
  BY <1>1, AttemptErrInv DEF AttemptsUsed
<1>3. PrimaryBudget'
  BY <1>1, <1>2, AttemptErrInv, CallFacts DEF PrimaryBudget
<1>4. OverloadTriesAll'
  BY <1>1 DEF OverloadTriesAll
<1> QED BY <1>1, <1>3, <1>4, NotThere, AttemptErrInv DEF CallInv

LEMMA TryRestCall ==
  ASSUME TypeOK, CallInv, TryRest
  PROVE  CallInv'
<1> DEFINE k == "ProviderOverloaded"
<1>1. /\ AttemptErr(k) /\ Exhausted(k) /\ attempt' = attempt
      /\ stage' = "extra" /\ next' = FirstExtra /\ outcome' = outcome
  BY DEF TryRest
<1>2. k \in Classes
  BY DEF Classes
<1>3. policy' = policy /\ AttemptsUsed' = AttemptsUsed
      /\ Greater(policy.max_attempts, 1)' = AttemptsUsed
  BY <1>1, <1>2, AttemptErrInv DEF AttemptsUsed
<1>4. outcome' = "None" /\ "Fatal" \notin errors'
  BY <1>1, <1>2, AttemptErrInv
<1>5. stage = "loop" /\ Ask(Target) /\ attempt < AttemptsUsed
  BY <1>1 DEF AttemptErr, CallInv, LoopInv
<1>6. next' = AttemptsUsed /\ attempt + 1 <= next' /\ next' <= attempt + 1 /\ next' >= 1
  BY <1>1, <1>5, CallFacts DEF Exhausted
<1>7. \A p \in 1..MaxFallbacks : asked'[p] >= 1 => p < next'
  BY <1>5, <1>6, AttemptCounts, CallFacts
<1>8. errors' = {k} => \A p \in 1..policy'.fallbacks : p < next' => asked'[p] = 1
  BY <1>1, <1>2, <1>3, <1>6, AttemptErrInv, CallFacts
<1>9. ExtraInv'
  BY <1>1, <1>2, <1>3, <1>4, <1>6, <1>7, <1>8, AttemptErrInv DEF ExtraInv
<1>10. PrimaryBudget'
  BY <1>1, <1>2, <1>3, <1>4, AttemptErrInv, CallFacts DEF PrimaryBudget
<1>11. FallbackAtMostOnce'
  BY <1>1, <1>2, AttemptErrInv
<1> QED
  BY <1>1, <1>4, <1>9, <1>10, <1>11
  DEF CallInv, OverloadTriesAll, EscalatedLimit, LoopInv, LastInv

\* What Escalate and Compact have in common.
LEMMA LastCallInv ==
  ASSUME TypeOK, CallInv, NEW k \in Classes \ {"Fatal", "ProviderOverloaded"},
         AttemptErr(k), attempt' = attempt, stage' \in {"escalated", "compacted"}, outcome' = outcome
  PROVE  /\ FallbackAtMostOnce' /\ PrimaryBudget' /\ OverloadTriesAll'
         /\ LoopInv' /\ ExtraInv' /\ LastInv'
<1>1. policy' = policy /\ AttemptsUsed' = AttemptsUsed
      /\ Greater(policy.max_attempts, 1)' = AttemptsUsed
  BY AttemptErrInv DEF AttemptsUsed
<1>2. outcome' = "None" /\ "Fatal" \notin errors' /\ errors' # {"ProviderOverloaded"}
  BY AttemptErrInv DEF AttemptErr
<1>3. FallbackAtMostOnce' /\ LastInv'
  BY <1>1, <1>2, AttemptErrInv DEF LastInv
<1>4. PrimaryBudget'
  BY <1>1, <1>2, AttemptErrInv, CallFacts DEF PrimaryBudget
<1> QED BY <1>2, <1>3, <1>4 DEF OverloadTriesAll, LoopInv, ExtraInv

\* Doubling wraps only a number that is above the ceiling.
LEMMA DoubledBounds ==
  ASSUME NEW n \in 0..(Width - 1)
  PROVE  /\ Doubled(n) <= Ceiling
         /\ n \in 1..(Ceiling - 1) => Doubled(n) > n
         /\ Doubled(n) < n => n > Ceiling
<1>1. Ceiling \in Nat /\ Width \in Nat /\ 2 * Ceiling < Width /\ n \in Nat
  BY ResilientAssumption
<1>2. (2 * n) % Width \in Nat
  BY <1>1
<1>3. Doubled(n) <= Ceiling
  BY <1>1, <1>2 DEF Doubled, Lesser
<1>4. ASSUME n <= Ceiling
      PROVE  (n \in 1..(Ceiling - 1) => Doubled(n) > n) /\ ~(Doubled(n) < n)
  <2>1. (2 * n) % Width = 2 * n
    BY <1>1, <1>4
  <2> QED BY <1>1, <1>4, <2>1 DEF Doubled, Lesser
<1> QED BY <1>1, <1>3, <1>4

LEMMA EscalateCall ==
  ASSUME TypeOK, CallInv, Escalate
  PROVE  CallInv'
<1>1. /\ AttemptErr("MaxOutputTokens") /\ attempt' = attempt /\ stage' = "escalated"
      /\ outcome' = outcome /\ tokens' = Doubled(tokens)
  BY DEF Escalate
<1>2. "MaxOutputTokens" \in Classes \ {"Fatal", "ProviderOverloaded"}
  BY DEF Classes
<1>3. tokens = policy.tokens /\ policy' = policy
  BY <1>1 DEF AttemptErr, CallInv, LoopInv
<1>4. policy'.tokens = policy.tokens
  BY <1>3
<1>5. EscalatedLimit'
  BY <1>1, <1>3, <1>4, DoubledBounds, CallFacts DEF EscalatedLimit
<1> QED BY <1>1, <1>2, <1>5, LastCallInv DEF CallInv

LEMMA CompactCall ==
  ASSUME TypeOK, CallInv, Compact
  PROVE  CallInv'
<1>1. /\ AttemptErr("PromptTooLong") /\ attempt' = attempt /\ stage' = "compacted"
      /\ outcome' = outcome
  BY DEF Compact
<1>2. "PromptTooLong" \in Classes \ {"Fatal", "ProviderOverloaded"}
  BY DEF Classes
<1>3. EscalatedLimit'
  BY <1>1 DEF EscalatedLimit
<1> QED BY <1>1, <1>2, <1>3, LastCallInv DEF CallInv

LEMMA AttemptOkCall ==
  ASSUME TypeOK, CallInv, AttemptOk
  PROVE  CallInv'
<1>1. /\ stage = "loop" /\ Ask(Target) /\ stage' = "done" /\ outcome' = "Ok"
      /\ policy' = policy /\ attempt' = attempt /\ errors' = errors
  BY DEF AttemptOk, Return
<1>2. attempt < AttemptsUsed /\ "Fatal" \notin errors
  BY <1>1 DEF CallInv, LoopInv
<1>3. FallbackAtMostOnce'
  BY <1>1, AttemptCounts DEF FallbackAtMostOnce
<1>4. PrimaryBudget'
  BY <1>1, <1>2, AttemptCounts, CallFacts DEF PrimaryBudget, AttemptsUsed
<1>5. OverloadTriesAll'
  BY <1>1 DEF OverloadTriesAll
<1> QED BY <1>1, <1>3, <1>4, <1>5, NotThere DEF CallInv

\* A fallback the extra stage calls has not been called before.
LEMMA ExtraCounts ==
  ASSUME TypeOK, CallInv, stage = "extra", next <= policy.fallbacks, Ask(next)
  PROVE  /\ FallbackAtMostOnce' /\ asked'[0] = asked[0] /\ asked'[next] = 1
         /\ \A p \in 1..MaxFallbacks : p # next => asked'[p] = asked[p]
         /\ next \in 1..MaxFallbacks
<1>1. next \in 1..MaxFallbacks /\ next \in 0..MaxFallbacks /\ next # 0
  BY CallFacts DEF CallInv, ExtraInv
<1>2. ~(asked[next] >= 1)
  BY <1>1, CallFacts DEF CallInv, ExtraInv
<1>3. asked[next] = 0
  BY <1>1, <1>2, CallFacts
<1>4. \A q \in 0..MaxFallbacks : asked'[q] = IF q = next THEN asked[q] + 1 ELSE asked[q]
  BY AskCounts
<1>5. asked'[0] = asked[0] /\ asked'[next] = 1
  BY <1>1, <1>3, <1>4, CallFacts
<1>6. ASSUME NEW p \in 1..MaxFallbacks, p # next PROVE asked'[p] = asked[p]
  <2>1. p \in 0..MaxFallbacks
    BY CallFacts
  <2> QED BY <2>1, <1>4, <1>6
<1>7. FallbackAtMostOnce'
  BY <1>5, <1>6 DEF CallInv, FallbackAtMostOnce
<1> QED BY <1>1, <1>5, <1>6, <1>7

LEMMA ExtraOkCall ==
  ASSUME TypeOK, CallInv, ExtraOk
  PROVE  CallInv'
<1>1. /\ stage = "extra" /\ next <= policy.fallbacks /\ Ask(next)
      /\ stage' = "done" /\ outcome' = "Ok"
      /\ policy' = policy /\ attempt' = attempt /\ errors' = errors
  BY DEF ExtraOk, Return
<1>2. PrimaryBudget'
  BY <1>1, ExtraCounts, CallFacts DEF CallInv, ExtraInv, PrimaryBudget, AttemptsUsed
<1>3. OverloadTriesAll'
  BY <1>1 DEF OverloadTriesAll
<1> QED BY <1>1, <1>2, <1>3, ExtraCounts, NotThere DEF CallInv

LEMMA ExtraErrCall ==
  ASSUME TypeOK, CallInv, ExtraErr
  PROVE  CallInv'
<1>1. /\ stage = "extra" /\ next <= policy.fallbacks /\ Ask(next) /\ next' = next + 1
      /\ stage' = "extra" /\ outcome' = outcome
      /\ policy' = policy /\ attempt' = attempt /\ errors' = errors
  BY DEF ExtraErr
<1>2. PrimaryBudget'
  BY <1>1, ExtraCounts, CallFacts DEF CallInv, ExtraInv, PrimaryBudget, AttemptsUsed
<1>3. asked'[0] <= AttemptsUsed' /\ "Fatal" \notin errors' /\ outcome' = "None" /\ next' >= 1
  BY <1>1, ExtraCounts, CallFacts DEF CallInv, ExtraInv, AttemptsUsed
<1>4. \A p \in 1..MaxFallbacks : asked'[p] >= 1 => p < next'
  BY <1>1, ExtraCounts, CallFacts DEF CallInv, ExtraInv
<1>5. ASSUME errors' = {"ProviderOverloaded"},
             NEW p \in 1..policy.fallbacks, p < next + 1
      PROVE  asked'[p] = 1
  <2>1. p \in 1..MaxFallbacks
    BY CallFacts
  <2>2. CASE p = next
    BY <2>2, <1>1, ExtraCounts
  <2>3. CASE p # next
    <3>1. p < next
      BY <1>5, <2>3, CallFacts
    <3> QED BY <1>1, <1>5, <2>1, <2>3, <3>1, ExtraCounts DEF CallInv, ExtraInv
  <2> QED BY <2>2, <2>3
<1>6. ExtraInv'
  BY <1>1, <1>3, <1>4, <1>5 DEF ExtraInv
<1> QED
  BY <1>1, <1>2, <1>3, <1>6, ExtraCounts
  DEF CallInv, OverloadTriesAll, EscalatedLimit, LoopInv, LastInv

LEMMA ExtraDoneCall ==
  ASSUME TypeOK, CallInv, ExtraDone
  PROVE  CallInv'
<1>1. /\ stage = "extra" /\ next > policy.fallbacks
      /\ stage' = "done" /\ outcome' = "ProviderOverloaded"
      /\ UNCHANGED <<policy, attempt, asked, errors>>
  BY DEF ExtraDone, Return
<1>2. "Fatal" \notin errors
  BY <1>1 DEF CallInv, ExtraInv
<1>3. OverloadTriesAll'
  <2>1. ASSUME errors = {"ProviderOverloaded"}, NEW p \in 1..policy.fallbacks
        PROVE  asked[p] = 1
    <3>1. p < next
      BY <1>1, CallFacts
    <3> QED BY <1>1, <2>1, <3>1 DEF CallInv, ExtraInv
  <2> QED BY <1>1, <2>1 DEF OverloadTriesAll
<1>4. PrimaryBudget' /\ FallbackAtMostOnce'
  BY <1>1, <1>2 DEF CallInv, PrimaryBudget, FallbackAtMostOnce
<1> QED BY <1>1, <1>3, <1>4, NotThere DEF CallInv

LEMMA LastCallCall ==
  ASSUME TypeOK, CallInv, LastCall
  PROVE  CallInv'
<1>1. /\ stage \in {"escalated", "compacted"} /\ Ask(0) /\ stage' = "done"
      /\ UNCHANGED <<policy, attempt, errors>>
  BY DEF LastCall, Return
<1>2. asked[0] <= AttemptsUsed /\ "Fatal" \notin errors /\ errors # {"ProviderOverloaded"}
  BY <1>1 DEF CallInv, LastInv
<1>3. \A q \in 0..MaxFallbacks : asked'[q] = IF q = 0 THEN asked[q] + 1 ELSE asked[q]
  BY <1>1, AskCounts
<1>4. PrimaryBudget'
  BY <1>1, <1>2, <1>3, CallFacts DEF PrimaryBudget, AttemptsUsed
<1>5. FallbackAtMostOnce'
  BY <1>3, CallFacts DEF CallInv, FallbackAtMostOnce
<1>6. OverloadTriesAll'
  BY <1>1, <1>2 DEF OverloadTriesAll
<1> QED BY <1>1, <1>4, <1>5, <1>6, NotThere DEF CallInv

LEMMA StutterCall ==
  ASSUME CallInv, UNCHANGED vars
  PROVE  CallInv'
<1> USE DEF vars
<1>1. FallbackAtMostOnce' /\ PrimaryBudget' /\ OverloadTriesAll' /\ EscalatedLimit'
  BY DEF CallInv, FallbackAtMostOnce, PrimaryBudget, OverloadTriesAll, EscalatedLimit
<1>2. LoopInv'
  BY DEF CallInv, LoopInv, AttemptsUsed
<1>3. ExtraInv' /\ LastInv'
  BY DEF CallInv, ExtraInv, LastInv, AttemptsUsed
<1> QED BY <1>1, <1>2, <1>3 DEF CallInv

LEMMA NextCall == TypeOK /\ CallInv /\ [Next]_vars => CallInv'
BY AttemptOkCall, RetryCall, GiveUpCall, TryRestCall, EscalateCall, CompactCall,
   ExtraOkCall, ExtraErrCall, ExtraDoneCall, LastCallCall, StutterCall DEF Next

(* For every policy: no fallback is called twice, the primary stays within  *)
(* its budget and is left alone after a fatal error, pure overload reaches  *)
(* every fallback, and an escalated limit is as EscalatedLimit says.        *)
THEOREM CallsSafe ==
  Spec => [](FallbackAtMostOnce /\ PrimaryBudget /\ OverloadTriesAll /\ EscalatedLimit)
<1>1. Spec => []CallInv
  BY InitCall, NextCall, TypeCorrect, PTL DEF Spec
<1>2. CallInv => FallbackAtMostOnce /\ PrimaryBudget /\ OverloadTriesAll /\ EscalatedLimit
  BY DEF CallInv
<1> QED BY <1>1, <1>2, PTL

(* No call of complete() asks a fallback twice, whatever the errors of the   *)
(* attempts were and though the loop behind them counts in its own way.      *)
THEOREM FallbackAtMostOnceAlways == Spec => []FallbackAtMostOnce
BY CallsSafe, PTL

(* Whatever limit a request had whose answer was too long, above the ceiling *)
(* and so large that doubling it wraps included: it is repeated with one     *)
(* within the ceiling, that is higher unless the limit was 0 or at least the *)
(* ceiling, and lower only if that was above it.  The ceiling is any that    *)
(* the counter can hold twice, as a u32 does 128000.                         *)
THEOREM EscalatedLimitAlways == Spec => []EscalatedLimit
BY CallsSafe, PTL

-----------------------------------------------------------------------------
(* OpenAiProvider::stream: types. *)

UseOf(a) == Event("ToolUse", a[0].call, a[0].args)
DoneEvent == Event("Done", 0, <<>>)

\* Only slot 0 can be in use, so at most one call is delivered.
LEMMA ToolUsesOf ==
  ASSUME NEW a \in Slots, OneSlot(a)
  PROVE  ToolUses(a) = IF a[0] = NoCall THEN <<>> ELSE <<UseOf(a)>>
<1> DEFINE used   == {i \in Indices : a[i] # NoCall}
           Use(k) == CHOOSE i \in used : Cardinality({j \in used : j < i}) = k - 1
<1>1. 0 \in Indices
  BY SseAssumption DEF Indices
<1>2. ToolUses(a) = [k \in 1..Cardinality(used) |-> Event("ToolUse", a[Use(k)].call, a[Use(k)].args)]
  BY DEF ToolUses
<1>3. CASE a[0] = NoCall
  <2>1. used = {}
    BY <1>3 DEF OneSlot
  <2>2. Cardinality(used) = 0
    BY <2>1, FS_EmptySet
  <2> HIDE DEF Use, used
  <2>3. ToolUses(a) = [k \in 1..0 |-> Event("ToolUse", a[Use(k)].call, a[Use(k)].args)]
    BY <1>2, <2>2
  <2>4. ToolUses(a) = <<>>
    BY <2>3
  <2> QED BY <1>3, <2>4
<1>4. CASE a[0] # NoCall
  <2>1. used = {0}
    BY <1>1, <1>4 DEF OneSlot
  <2>2. Cardinality(used) = 1
    BY <2>1, FS_Singleton
  <2>3. {j \in used : j < 0} = {}
    BY <2>1
  <2>4. Cardinality({j \in used : j < 0}) = 0
    BY <2>3, FS_EmptySet
  <2>5. Use(1) = 0
    BY <2>1, <2>4
  <2> HIDE DEF Use
  <2>6. ToolUses(a) = [k \in 1..1 |-> Event("ToolUse", a[Use(k)].call, a[Use(k)].args)]
    BY <1>2, <2>2
  <2>7. ToolUses(a) = [k \in 1..1 |-> UseOf(a)]
    BY <2>5, <2>6 DEF UseOf
  <2> QED BY <1>4, <2>7
<1> QED BY <1>3, <1>4

LEMMA EventType ==
  /\ \A a \in Slots : UseOf(a) \in Events
  /\ DoneEvent \in Events /\ Event("Error", 0, <<>>) \in Events /\ Event("Usage", 0, <<>>) \in Events
  /\ \A p \in Nat : Event("TextDelta", p, <<>>) \in Events
BY SseAssumption DEF UseOf, DoneEvent, Event, Events, Slots, Indices

LEMMA ToolUsesType == \A a \in Slots : OneSlot(a) => ToolUses(a) \in Seq(Events)
<1> SUFFICES ASSUME NEW a \in Slots, OneSlot(a) PROVE ToolUses(a) \in Seq(Events)
  OBVIOUS
<1>1. ToolUses(a) = <<>> \/ ToolUses(a) = <<UseOf(a)>>
  BY ToolUsesOf
<1>2. UseOf(a) \in Events
  BY EventType
<1>3. <<UseOf(a)>> \in Seq(Events)
  BY <1>2
<1>4. <<>> \in Seq(Events)
  OBVIOUS
<1> HIDE DEF Events
<1> QED BY <1>1, <1>3, <1>4, Zenon

LEMMA SlotsType ==
  /\ Empty \in Slots /\ OneSlot(Empty)
  /\ \A a \in Slots, l \in Lines, p \in 1..MaxLines :
       OneSlot(a) => Accumulate(a, l, p) \in Slots /\ OneSlot(Accumulate(a, l, p))
<1>1. 0 \in Indices /\ MaxCalls \in Nat
  BY SseAssumption DEF Indices
<1>2. NoCall \in [call : 0..MaxCalls, args : Seq(1..MaxLines)]
  BY <1>1 DEF NoCall
<1>3. Empty \in Slots /\ OneSlot(Empty)
  BY <1>2 DEF Empty, Slots, OneSlot
<1>4. ASSUME NEW a \in Slots, NEW l \in Lines, NEW p \in 1..MaxLines, OneSlot(a)
      PROVE  Accumulate(a, l, p) \in Slots /\ OneSlot(Accumulate(a, l, p))
  <2>1. l.index \in Indices /\ l.index \in 0..MaxCalls
    BY <1>1 DEF Lines, Indices
  <2>2. [call |-> l.index, args |-> <<>>] \in [call : 0..MaxCalls, args : Seq(1..MaxLines)]
    BY <2>1
  <2>3. CASE Parse(l) = "start" /\ a[0] = NoCall
    BY <1>1, <1>4, <2>2, <2>3 DEF Accumulate, Slots, OneSlot
  <2>4. CASE Parse(l) = "args" /\ a[l.index] # NoCall
    <3>1. Accumulate(a, l, p) = [a EXCEPT ![l.index].args = Append(@, p)]
      BY <2>4 DEF Accumulate
    <3>2. a[l.index] \in [call : 0..MaxCalls, args : Seq(1..MaxLines)]
      BY <2>1 DEF Slots
    <3>3. l.index = 0
      BY <1>4, <2>1, <2>4 DEF OneSlot
    <3>4. a[0] \in [call : 0..MaxCalls, args : Seq(1..MaxLines)]
      BY <3>2, <3>3
    <3>5. [a[0] EXCEPT !.args = Append(@, p)] \in [call : 0..MaxCalls, args : Seq(1..MaxLines)]
      <4>1. Append(a[0].args, p) \in Seq(1..MaxLines)
        BY <3>4
      <4> QED BY <3>4, <4>1
    <3>6. Accumulate(a, l, p) = [a EXCEPT ![0] = [a[0] EXCEPT !.args = Append(@, p)]]
      BY <3>1, <3>3
    <3> QED BY <1>4, <3>5, <3>6 DEF Slots, OneSlot
  <2>5. CASE ~(Parse(l) = "start" /\ a[0] = NoCall) /\ ~(Parse(l) = "args" /\ a[l.index] # NoCall)
    BY <1>4, <2>5 DEF Accumulate
  <2> QED BY <2>3, <2>4, <2>5
<1> QED BY <1>3, <1>4

Collectors == [events : Seq(Events), acc : Slots, usage : BOOLEAN, done : BOOLEAN]

LEMMA CollectType ==
  ASSUME NEW s \in Collectors, OneSlot(s.acc), NEW l \in Lines, NEW p \in 1..MaxLines
  PROVE  Collect(s, l, p) \in Collectors /\ OneSlot(Collect(s, l, p).acc)
<1>1. CASE s.done
  BY <1>1 DEF Collect
<1>2. CASE ~s.done /\ Parse(l) = "done"
  <2> DEFINE es == s.events \o ToolUses(s.acc)
                   \o (IF s.usage THEN <<Event("Usage", 0, <<>>)>> ELSE <<>>)
                   \o <<Event("Done", 0, <<>>)>>
  <2>1. Collect(s, l, p) = [s EXCEPT !.done = TRUE, !.events = es]
    BY <1>2 DEF Collect
  <2>2. s.events \in Seq(Events) /\ ToolUses(s.acc) \in Seq(Events)
    BY ToolUsesType DEF Collectors
  <2>3. es \in Seq(Events)
    BY <2>2, EventType DEF DoneEvent
  <2> HIDE DEF es
  <2> QED BY <2>1, <2>3 DEF Collectors
<1>3. CASE ~s.done /\ Parse(l) = "text"
  <2>1. Collect(s, l, p) = [s EXCEPT !.events = Append(@, Event("TextDelta", p, <<>>))]
    BY <1>3 DEF Collect
  <2> QED BY <2>1, EventType DEF Collectors
<1>4. CASE ~s.done /\ Parse(l) # "done" /\ Parse(l) # "text"
  <2>1. Collect(s, l, p) = [s EXCEPT !.acc = Accumulate(@, l, p), !.usage = @ \/ Parse(l) = "usage"]
    BY <1>4 DEF Collect
  <2>2. s.acc \in Slots
    BY DEF Collectors
  <2>3. Accumulate(s.acc, l, p) \in Slots /\ OneSlot(Accumulate(s.acc, l, p))
    BY <2>2, SlotsType
  <2> QED BY <2>1, <2>3 DEF Collectors
<1> QED BY <1>1, <1>2, <1>3, <1>4

OneSlots == OneSlot(acc) /\ OneSlot(collect.acc)

LEMMA StreamInitType == StreamInit => StreamTypeOK /\ OneSlots
BY SlotsType, SseAssumption DEF StreamInit, StreamTypeOK, OneSlots, CollectStart

LEMMA TakeType ==
  ASSUME StreamTypeOK, OneSlots, NEW l \in Lines, NEW K, Take(l, K)
  PROVE  /\ body' \in Seq(Lines) /\ Len(body') <= MaxLines
         /\ collect' \in Collectors /\ OneSlot(collect'.acc)
         /\ Len(body) + 1 \in 1..MaxLines
<1>1. Len(body) + 1 \in 1..MaxLines
  BY SseAssumption DEF Take, Legal, StreamTypeOK
<1>2. body' \in Seq(Lines) /\ Len(body') = Len(body) + 1
  BY DEF Take, StreamTypeOK
<1> QED BY <1>1, <1>2, CollectType DEF Take, StreamTypeOK, OneSlots, Collectors

LEMMA FlushType ==
  ASSUME StreamTypeOK, OneSlots, Flush
  PROVE  events' \in Seq(Events) /\ acc' \in Slots /\ OneSlot(acc')
<1>1. Append(ToolUses(acc), Event("Done", 0, <<>>)) \in Seq(Events)
  BY ToolUsesType, EventType DEF StreamTypeOK, OneSlots, DoneEvent
<1> QED BY <1>1, SlotsType DEF Flush, Send, StreamTypeOK

LEMMA StreamNextType ==
  ASSUME StreamTypeOK, OneSlots, [StreamNext]_streamVars
  PROVE  StreamTypeOK' /\ OneSlots'
<1>1. CASE UNCHANGED streamVars
  BY <1>1 DEF streamVars, StreamTypeOK, OneSlots
<1>2. CASE SendFails \/ Responds \/ ReceiverDrops
  BY <1>2 DEF SendFails, Responds, ReceiverDrops, StreamTypeOK, OneSlots
<1>9. CASE StatusError \/ StreamBreaks
  <2>1. <<Event("Error", 0, <<>>)>> \in Seq(Events)
    BY EventType
  <2>2. events' = events \/ events' = events \o <<Event("Error", 0, <<>>)>>
    BY <1>9 DEF StatusError, StreamBreaks, Send
  <2>3. events' \in Seq(Events)
    BY <2>1, <2>2 DEF StreamTypeOK
  <2> QED BY <1>9, <2>3 DEF StatusError, StreamBreaks, StreamTypeOK, OneSlots
<1>3. CASE BodyEnds
  BY <1>3, FlushType DEF BodyEnds, StreamTypeOK, OneSlots
<1>4. ASSUME NEW l \in Lines, Skip(l) PROVE StreamTypeOK' /\ OneSlots'
  BY <1>4, TakeType DEF Skip, Take, StreamTypeOK, OneSlots, Collectors
<1>5. ASSUME NEW l \in Lines, Text(l) PROVE StreamTypeOK' /\ OneSlots'
  <2>1. Take(l, {"text"}) /\ UNCHANGED acc
    BY <1>5 DEF Text
  <2>2. Event("TextDelta", Len(body) + 1, <<>>) \in Events
    BY EventType DEF StreamTypeOK
  <2>3. events' \in Seq(Events) /\ phase' \in {"read", "ended"}
    BY <1>5, <2>2 DEF Text, Send, StreamTypeOK
  <2> QED BY <2>1, <2>3, TakeType DEF Take, StreamTypeOK, OneSlots, Collectors
<1>6. ASSUME NEW l \in Lines, Call(l) PROVE StreamTypeOK' /\ OneSlots'
  <2>1. Take(l, {"start", "args"}) /\ acc' = Accumulate(acc, l, Len(body) + 1) /\ UNCHANGED <<phase, events>>
    BY <1>6 DEF Call
  <2>2. acc' \in Slots /\ OneSlot(acc')
    BY <2>1, TakeType, SlotsType DEF StreamTypeOK, OneSlots
  <2> QED BY <2>1, <2>2, TakeType DEF Take, StreamTypeOK, OneSlots, Collectors
<1>7. ASSUME NEW l \in Lines, Usage(l) PROVE StreamTypeOK' /\ OneSlots'
  <2>1. Take(l, {"usage"}) /\ UNCHANGED <<phase, acc>>
    BY <1>7 DEF Usage
  <2>2. events' \in Seq(Events)
    BY <1>7, EventType DEF Usage, Send, StreamTypeOK
  <2> QED BY <2>1, <2>2, TakeType DEF Take, StreamTypeOK, OneSlots, Collectors
<1>8. ASSUME NEW l \in Lines, Done(l) PROVE StreamTypeOK' /\ OneSlots'
  <2>1. Take(l, {"done"}) /\ Flush /\ phase' = "ended"
    BY <1>8 DEF Done
  <2> QED BY <2>1, TakeType, FlushType DEF Take, StreamTypeOK, OneSlots, Collectors
<1> QED BY <1>1, <1>2, <1>3, <1>4, <1>5, <1>6, <1>7, <1>8, <1>9 DEF StreamNext

(* The locals of stream() and of the collector, and what was sent, keep their *)
(* types for any number of lines and calls, and no slot but 0 is ever in use.  *)
THEOREM StreamTypeCorrect == StreamSpec => [](StreamTypeOK /\ OneSlots)
BY StreamInitType, StreamNextType, PTL DEF StreamSpec

-----------------------------------------------------------------------------
(* What one line adds. *)

\* Legal lines are of one kind each.
LEMMA ParseFacts ==
  ASSUME NEW l \in Lines, Legal(l)
  PROVE  /\ Parse(l) = "start" <=> l.call = "start"
         /\ Parse(l) = "args" <=> l.call = "args"
         /\ Parse(l) = "text" <=> l.content /\ l.call = "none" /\ l.finish = "none"
         /\ l.data # "choice" => l.call = "none" /\ ~l.content
         /\ l.call = "start" => l.index \notin Started /\ 0..(l.index - 1) \subseteq Started
         /\ l.call = "args" => l.index \in Started
<1>1. /\ l.data \in {"comment", "done", "usage", "choice"}
      /\ l.call \in {"none", "start", "args"} /\ l.finish \in {"none", "stop", "length"}
      /\ l.content \in BOOLEAN
  BY DEF Lines
<1>2. l.data # "choice" => ~l.content /\ l.call = "none" /\ l.finish = "none"
  BY DEF Legal
<1>3. CASE l.data # "choice"
  BY <1>1, <1>2, <1>3 DEF Parse
<1>4. CASE l.data = "choice"
  <2>1. /\ l.call = "start" => l.index \notin Started /\ 0..(l.index - 1) \subseteq Started
        /\ l.call = "args" => l.index \in Started
    BY <1>4 DEF Legal
  <2>2. l.content <=> l.content = TRUE
    BY <1>1
  <2> QED BY <1>1, <1>4, <2>1, <2>2 DEF Parse
<1> QED BY <1>3, <1>4

LEMMA TakeAdds ==
  ASSUME StreamTypeOK, NEW l \in Lines, NEW K, Take(l, K)
  PROVE  /\ Texts' = IF Parse(l) = "text" THEN Texts \cup {Len(body) + 1} ELSE Texts
         /\ Texts \subseteq 1..Len(body)
         /\ Started' = IF l.call = "start" THEN Started \cup {l.index} ELSE Started
         /\ Pieces(0)' = IF l.call = "args" /\ l.index = 0
                           THEN Pieces(0) \cup {Len(body) + 1} ELSE Pieces(0)
         /\ Pieces(0) \subseteq 1..Len(body)
         /\ Legal(l) /\ Parse(l) \in K /\ phase = "read"
<1>1. /\ body' = Append(body, l) /\ Legal(l) /\ Parse(l) \in K /\ phase = "read"
      /\ body \in Seq(Lines)
  BY DEF Take, StreamTypeOK
<1>2. /\ DOMAIN body' = DOMAIN body \cup {Len(body) + 1}
      /\ Len(body) + 1 \notin DOMAIN body /\ DOMAIN body = 1..Len(body)
      /\ \A p \in DOMAIN body : body'[p] = body[p]
      /\ body'[Len(body) + 1] = l
  BY <1>1
<1> DEFINE n == Len(body) + 1
<1> HIDE DEF n
<1>3. /\ DOMAIN body' = DOMAIN body \cup {n} /\ n \notin DOMAIN body /\ body'[n] = l
      /\ \A p \in DOMAIN body : body'[p] = body[p]
  BY <1>2 DEF n
<1>4. Texts' = IF Parse(l) = "text" THEN Texts \cup {n} ELSE Texts
  BY <1>1, <1>3, ParseFacts DEF Texts
<1>5. Started' = IF l.call = "start" THEN Started \cup {l.index} ELSE Started
  <2>1. l.index \in Indices
    BY DEF Lines
  <2> QED BY <1>3, <2>1 DEF Started
<1>6. Pieces(0)' = IF l.call = "args" /\ l.index = 0 THEN Pieces(0) \cup {n} ELSE Pieces(0)
  BY <1>3 DEF Pieces
<1>8. Texts \subseteq 1..Len(body) /\ Pieces(0) \subseteq 1..Len(body)
  BY <1>2 DEF Texts, Pieces
<1> QED BY <1>1, <1>4, <1>5, <1>6, <1>8 DEF n

LEMMA EnumeratesNext ==
  ASSUME NEW n \in Nat, NEW s \in Seq(Nat), NEW P \in SUBSET (1..n), Enumerates(s, P)
  PROVE  Enumerates(Append(s, n + 1), P \cup {n + 1})
<1> DEFINE t == Append(s, n + 1)
<1>1. /\ DOMAIN t = 1..(Len(s) + 1) /\ DOMAIN s = 1..Len(s)
      /\ \A k \in DOMAIN s : t[k] = s[k] /\ k \in DOMAIN t
      /\ t[Len(s) + 1] = n + 1 /\ Len(s) + 1 \in DOMAIN t
      /\ \A k \in DOMAIN t : k \in DOMAIN s \/ k = Len(s) + 1
  OBVIOUS
<1> HIDE DEF t
<1>2. /\ \A k \in DOMAIN s : s[k] \in P
      /\ \A p \in P : \E k \in DOMAIN s : s[k] = p
      /\ \A j, k \in DOMAIN s : j < k => s[j] < s[k]
  BY DEF Enumerates
<1>3. \A k \in DOMAIN t : t[k] \in P \cup {n + 1}
  BY <1>1, <1>2
<1>4. \A p \in P \cup {n + 1} : \E k \in DOMAIN t : t[k] = p
  BY <1>1, <1>2
<1>5. ASSUME NEW j \in DOMAIN t, NEW k \in DOMAIN t, j < k PROVE t[j] < t[k]
  <2>1. j \in DOMAIN s
    BY <1>1, <1>5
  <2>2. s[j] \in 1..n
    BY <1>2, <2>1
  <2> QED BY <1>1, <1>2, <1>5, <2>1, <2>2
<1> QED BY <1>3, <1>4, <1>5 DEF Enumerates, t

\* Slot 0 takes the first call and all its arguments, and nothing else.
LEMMA FirstSlotNext ==
  ASSUME StreamTypeOK, OneSlots, FirstSlot(acc), NEW l \in Lines, NEW K, Take(l, K),
         acc' = Accumulate(acc, l, Len(body) + 1)
  PROVE  FirstSlot(acc)'
<1> DEFINE n == Len(body)
<1>1. /\ Started' = IF l.call = "start" THEN Started \cup {l.index} ELSE Started
      /\ Pieces(0)' = IF l.call = "args" /\ l.index = 0 THEN Pieces(0) \cup {n + 1} ELSE Pieces(0)
      /\ Pieces(0) \subseteq 1..n /\ Legal(l)
  BY TakeAdds
<1>2. 0 \in Indices /\ MaxCalls \in Nat \ {0} /\ l.index \in 0..(MaxCalls - 1) /\ n \in Nat
  BY SseAssumption DEF Indices, Lines, StreamTypeOK
<1>3. /\ Parse(l) = "start" <=> l.call = "start"
      /\ Parse(l) = "args" <=> l.call = "args"
      /\ l.call = "start" => l.index \notin Started /\ 0..(l.index - 1) \subseteq Started
      /\ l.call = "args" => l.index \in Started
  BY <1>1, ParseFacts
<1> HIDE DEF n
<1>4. acc[0] \in [call : 0..MaxCalls, args : Seq(1..MaxLines)]
  BY <1>2 DEF StreamTypeOK, Slots
<1>5. CASE l.call = "start"
  <2>1. CASE 0 \in Started
    <3>1. acc[0].call = 0 /\ acc[0] # NoCall
      BY <1>2, <2>1 DEF FirstSlot, NoCall
    <3>2. acc' = acc
      BY <1>3, <1>5, <3>1 DEF Accumulate
    <3>3. 0 \in Started' /\ Pieces(0)' = Pieces(0)
      BY <1>1, <1>5, <2>1
    <3> QED BY <2>1, <3>2, <3>3 DEF FirstSlot
  <2>2. CASE 0 \notin Started
    <3>1. acc[0] = NoCall /\ Started = {} /\ Pieces(0) = {}
      BY <2>2 DEF FirstSlot
    <3>2. l.index = 0
      <4> SUFFICES ASSUME l.index # 0 PROVE FALSE
        OBVIOUS
      <4>1. 0 \in 0..(l.index - 1)
        BY <1>2
      <4> QED BY <1>3, <1>5, <3>1, <4>1
    <3>3. acc' = [acc EXCEPT ![0] = [call |-> 0, args |-> <<>>]]
      BY <1>3, <1>5, <3>1, <3>2 DEF Accumulate
    <3>4. acc'[0] = [call |-> 0, args |-> <<>>]
      BY <1>2, <3>3 DEF StreamTypeOK, Slots
    <3>5. 0 \in Started' /\ Pieces(0)' = {}
      BY <1>1, <1>5, <3>1, <3>2
    <3>6. Enumerates(<<>>, {})
      BY DEF Enumerates
    <3>7. acc'[0].call = 0 /\ acc'[0].args = <<>>
      BY <3>4
    <3>8. Enumerates(acc'[0].args, Pieces(0)')
      BY <3>5, <3>6, <3>7, Zenon
    <3> QED BY <3>5, <3>7, <3>8 DEF FirstSlot
  <2> QED BY <2>1, <2>2
<1>6. CASE l.call = "args"
  <2>1. 0 \in Started /\ acc[0].call = 0 /\ Enumerates(acc[0].args, Pieces(0))
    BY <1>3, <1>6 DEF FirstSlot
  <2>2. 0 \in Started' /\ acc[0] # NoCall
    BY <1>1, <1>2, <1>6, <2>1 DEF NoCall
  <2>3. CASE l.index = 0
    <3>1. acc' = [acc EXCEPT ![0].args = Append(@, n + 1)]
      BY <1>3, <1>6, <2>2, <2>3 DEF Accumulate, n
    <3>2. acc'[0].call = 0 /\ acc'[0].args = Append(acc[0].args, n + 1)
      BY <1>2, <1>4, <2>1, <3>1 DEF StreamTypeOK, Slots
    <3>3. acc[0].args \in Seq(Nat)
      <4>1. acc[0].args \in Seq(1..MaxLines)
        BY <1>4
      <4>2. \A s \in Seq(1..MaxLines) : s \in Seq(Nat)
        BY SseAssumption
      <4> QED BY <4>1, <4>2
    <3>4. Enumerates(Append(acc[0].args, n + 1), Pieces(0) \cup {n + 1})
      BY <1>1, <1>2, <2>1, <3>3, EnumeratesNext
    <3> QED BY <1>1, <1>6, <2>2, <2>3, <3>2, <3>4 DEF FirstSlot
  <2>4. CASE l.index # 0
    <3>1. acc[l.index] = NoCall
      BY <1>2, <2>4 DEF OneSlots, OneSlot, Indices
    <3>2. acc' = acc
      BY <1>3, <1>6, <3>1 DEF Accumulate
    <3>3. Pieces(0)' = Pieces(0)
      BY <1>1, <2>4
    <3> QED BY <2>1, <2>2, <3>2, <3>3 DEF FirstSlot
  <2> QED BY <2>3, <2>4
<1>7. CASE l.call # "start" /\ l.call # "args"
  <2>1. acc' = acc
    BY <1>3, <1>7 DEF Accumulate
  <2>2. Started' = Started /\ Pieces(0)' = Pieces(0)
    BY <1>1, <1>7
  <2> QED BY <2>1, <2>2 DEF FirstSlot
<1> QED BY <1>5, <1>6, <1>7

-----------------------------------------------------------------------------
(* What a completion delivers. *)

Plain(es) == \A k \in DOMAIN es : IsText(es[k]) \/ IsUsage(es[k])

\* s is es, the call in slot 0 of a if there is one, and Done, with Usage between.
Closed(s, es, a) ==
  /\ s \in Seq(Events) /\ es \in Seq(Events) /\ Len(es) < Len(s)
  /\ \A k \in DOMAIN es : s[k] = es[k]
  /\ s[Len(s)] = DoneEvent
  /\ a[0] # NoCall => Len(es) + 1 < Len(s) /\ s[Len(es) + 1] = UseOf(a)
  /\ \A k \in DOMAIN s : Len(es) < k /\ k < Len(s) =>
       IsUsage(s[k]) \/ (k = Len(es) + 1 /\ a[0] # NoCall)

LEMMA StreamCloses ==
  ASSUME NEW es \in Seq(Events), NEW a \in Slots, OneSlot(a)
  PROVE  Closed(es \o Append(ToolUses(a), DoneEvent), es, a)
<1>1. UseOf(a) \in Events /\ DoneEvent \in Events
  BY EventType
<1> HIDE DEF Events
<1>2. CASE a[0] = NoCall
  <2>1. ToolUses(a) = <<>>
    BY <1>2, ToolUsesOf
  <2>2. es \o Append(ToolUses(a), DoneEvent) = Append(es, DoneEvent)
    BY <1>1, <2>1
  <2> QED BY <1>1, <1>2, <2>2 DEF Closed
<1>3. CASE a[0] # NoCall
  <2>1. ToolUses(a) = <<UseOf(a)>>
    BY <1>3, ToolUsesOf
  <2>2. es \o Append(ToolUses(a), DoneEvent) = Append(Append(es, UseOf(a)), DoneEvent)
    BY <1>1, <2>1
  <2> QED BY <1>1, <1>3, <2>2 DEF Closed
<1> QED BY <1>2, <1>3

LEMMA CollectorCloses ==
  ASSUME NEW es \in Seq(Events), NEW a \in Slots, OneSlot(a), NEW u
  PROVE  Closed(es \o ToolUses(a) \o (IF u THEN <<Event("Usage", 0, <<>>)>> ELSE <<>>) \o <<DoneEvent>>, es, a)
<1> DEFINE uses == Event("Usage", 0, <<>>)
           s == es \o ToolUses(a) \o (IF u THEN <<uses>> ELSE <<>>) \o <<DoneEvent>>
<1> SUFFICES Closed(s, es, a)
  OBVIOUS
<1>1. UseOf(a) \in Events /\ DoneEvent \in Events /\ uses \in Events /\ IsUsage(uses)
  BY EventType DEF IsUsage, Event
<1> HIDE DEF Events, uses
<1>2. CASE a[0] = NoCall
  <2>1. ToolUses(a) = <<>>
    BY <1>2, ToolUsesOf
  <2>2. s = IF u THEN Append(Append(es, uses), DoneEvent) ELSE Append(es, DoneEvent)
    BY <1>1, <2>1
  <2> HIDE DEF s
  <2>3. CASE u
    BY <1>1, <1>2, <2>2, <2>3 DEF Closed
  <2>4. CASE ~u
    BY <1>1, <1>2, <2>2, <2>4 DEF Closed
  <2> QED BY <2>3, <2>4
<1>3. CASE a[0] # NoCall
  <2>1. ToolUses(a) = <<UseOf(a)>>
    BY <1>3, ToolUsesOf
  <2>2. s = IF u THEN Append(Append(Append(es, UseOf(a)), uses), DoneEvent)
                 ELSE Append(Append(es, UseOf(a)), DoneEvent)
    BY <1>1, <2>1
  <2> HIDE DEF s
  <2>3. CASE u
    BY <1>1, <1>3, <2>2, <2>3 DEF Closed
  <2>4. CASE ~u
    BY <1>1, <1>3, <2>2, <2>4 DEF Closed
  <2> QED BY <2>3, <2>4
<1> QED BY <1>2, <1>3

\* The types of the events of a closed sequence, part by part.
LEMMA ClosedParts ==
  ASSUME NEW s, NEW es, NEW a \in Slots, Closed(s, es, a), Plain(es)
  PROVE  /\ DOMAIN es = 1..Len(es) /\ DOMAIN s = 1..Len(s) /\ Len(es) \in Nat /\ Len(s) \in Nat
         /\ Len(es) < Len(s)
         /\ \A k \in DOMAIN s : \/ k \in DOMAIN es /\ s[k] = es[k] /\ (IsText(s[k]) \/ IsUsage(s[k]))
                                \/ k > Len(es) /\ k < Len(s) /\ IsUsage(s[k])
                                \/ k = Len(es) + 1 /\ k < Len(s) /\ a[0] # NoCall /\ s[k] = UseOf(a)
                                \/ k = Len(s) /\ s[k] = DoneEvent
         /\ UseOf(a).type = "ToolUse" /\ DoneEvent.type = "Done"
<1>1. s \in Seq(Events) /\ es \in Seq(Events) /\ Len(es) < Len(s)
  BY DEF Closed
<1>2. DOMAIN es = 1..Len(es) /\ DOMAIN s = 1..Len(s) /\ Len(es) \in Nat /\ Len(s) \in Nat
  BY <1>1
<1>3. ASSUME NEW k \in DOMAIN s
      PROVE  \/ k \in DOMAIN es /\ s[k] = es[k] /\ (IsText(s[k]) \/ IsUsage(s[k]))
             \/ k > Len(es) /\ k < Len(s) /\ IsUsage(s[k])
             \/ k = Len(es) + 1 /\ k < Len(s) /\ a[0] # NoCall /\ s[k] = UseOf(a)
             \/ k = Len(s) /\ s[k] = DoneEvent
  <2>1. CASE k <= Len(es)
    <3>1. k \in DOMAIN es
      BY <1>2, <2>1
    <3>2. s[k] = es[k]
      BY <3>1 DEF Closed
    <3> QED BY <3>1, <3>2 DEF Plain
  <2>2. CASE k = Len(s)
    BY <2>2 DEF Closed
  <2>3. CASE Len(es) < k /\ k < Len(s)
    BY <2>3 DEF Closed
  <2> QED BY <1>1, <1>2, <2>1, <2>2, <2>3
<1> QED BY <1>1, <1>2, <1>3 DEF UseOf, DoneEvent, Event

LEMMA ClosedTexts ==
  ASSUME NEW s, NEW es, NEW a \in Slots, Closed(s, es, a), Plain(es), NEW P, TextsOf(es, P)
  PROVE  TextsOf(s, P)
<1>1. /\ DOMAIN es = 1..Len(es) /\ DOMAIN s = 1..Len(s) /\ Len(es) \in Nat /\ Len(s) \in Nat
      /\ Len(es) < Len(s)
      /\ \A k \in DOMAIN s : IsText(s[k]) => k \in DOMAIN es
      /\ \A k \in DOMAIN es : s[k] = es[k]
  BY ClosedParts DEF IsText, IsUsage, Closed
<1>2. DOMAIN es \subseteq DOMAIN s
  BY <1>1
<1>3. /\ \A k \in DOMAIN es : IsText(es[k]) => \E p \in P : es[k] = Event("TextDelta", p, <<>>)
      /\ \A p \in P : \E k \in DOMAIN es : es[k] = Event("TextDelta", p, <<>>)
      /\ \A j, k \in DOMAIN es : j < k /\ IsText(es[j]) /\ IsText(es[k]) => es[j].id < es[k].id
  BY DEF TextsOf
<1>4. \A k \in DOMAIN s : IsText(s[k]) => \E p \in P : s[k] = Event("TextDelta", p, <<>>)
  BY <1>1, <1>3
<1>5. \A p \in P : \E k \in DOMAIN s : s[k] = Event("TextDelta", p, <<>>)
  BY <1>1, <1>2, <1>3
<1>6. \A j, k \in DOMAIN s : j < k /\ IsText(s[j]) /\ IsText(s[k]) => s[j].id < s[k].id
  BY <1>1, <1>3
<1> QED BY <1>4, <1>5, <1>6 DEF TextsOf

\* The order a delivery has: the texts by position, the call, the end.
Before(v, w) ==
  \/ IsText(v) /\ IsText(w) /\ v.id < w.id
  \/ IsText(v) /\ ~IsText(w)
  \/ IsUse(v) /\ w = DoneEvent

LEMMA ClosedOrder ==
  ASSUME NEW s, NEW es, NEW a \in Slots, Closed(s, es, a), Plain(es), NEW P, TextsOf(es, P),
         NEW j \in DOMAIN s, NEW k \in DOMAIN s, j < k, ~IsUsage(s[j]), ~IsUsage(s[k])
  PROVE  Before(s[j], s[k])
<1>1. TextsOf(s, P)
  BY ClosedTexts
<1>2. /\ DOMAIN es = 1..Len(es) /\ DOMAIN s = 1..Len(s) /\ Len(es) \in Nat /\ Len(s) \in Nat
      /\ Len(es) < Len(s)
      /\ \/ j \in DOMAIN es /\ IsText(s[j])
         \/ j = Len(es) + 1 /\ j < Len(s) /\ s[j] = UseOf(a)
         \/ j = Len(s)
      /\ \/ k \in DOMAIN es /\ IsText(s[k])
         \/ k = Len(es) + 1 /\ s[k] = UseOf(a)
         \/ k = Len(s) /\ s[k] = DoneEvent
      /\ UseOf(a).type = "ToolUse" /\ DoneEvent.type = "Done"
  BY ClosedParts
<1>3. IsUse(UseOf(a)) /\ ~IsText(UseOf(a)) /\ ~IsText(DoneEvent)
  BY <1>2 DEF IsUse, IsText
<1>4. CASE IsText(s[j]) /\ IsText(s[k])
  BY <1>1, <1>4 DEF TextsOf, Before
<1>5. CASE IsText(s[j]) /\ ~IsText(s[k])
  BY <1>5 DEF Before
<1>6. CASE ~IsText(s[j])
  <2>1. j = Len(es) + 1 /\ s[j] = UseOf(a)
    BY <1>2, <1>6
  <2>2. k \in Nat /\ Len(es) + 1 < k
    <3>1. k \in 1..Len(s) /\ Len(es) \in Nat /\ Len(s) \in Nat
      BY <1>2
    <3>2. j = Len(es) + 1
      BY <2>1
    <3> QED BY <3>1, <3>2
  <2>3. k \notin DOMAIN es /\ k # Len(es) + 1
    BY <1>2, <2>2
  <2>4. k = Len(s) /\ s[k] = DoneEvent
    BY <1>2, <2>3
  <2> QED BY <1>3, <2>1, <2>4 DEF Before
<1> QED BY <1>4, <1>5, <1>6

LEMMA ClosedIncluded ==
  ASSUME NEW a \in Slots, NEW P, NEW s, NEW es, NEW t, NEW fs,
         Closed(s, es, a), Plain(es), TextsOf(es, P),
         Closed(t, fs, a), Plain(fs), TextsOf(fs, P),
         NEW j \in DOMAIN s, ~IsUsage(s[j])
  PROVE  \E m \in DOMAIN t : t[m] = s[j]
<1>1. TextsOf(s, P) /\ TextsOf(t, P)
  BY ClosedTexts
<1>2. /\ DOMAIN t = 1..Len(t) /\ Len(fs) \in Nat /\ Len(t) \in Nat /\ Len(fs) < Len(t)
      /\ t[Len(t)] = DoneEvent
      /\ a[0] # NoCall => Len(fs) + 1 < Len(t) /\ t[Len(fs) + 1] = UseOf(a)
  BY ClosedParts DEF Closed
<1>3. \/ IsText(s[j])
      \/ a[0] # NoCall /\ s[j] = UseOf(a)
      \/ s[j] = DoneEvent
  BY ClosedParts
<1>4. CASE IsText(s[j])
  BY <1>1, <1>4 DEF TextsOf
<1>5. CASE a[0] # NoCall /\ s[j] = UseOf(a)
  <2>1. Len(fs) + 1 \in DOMAIN t
    BY <1>2, <1>5
  <2> QED BY <1>2, <1>5, <2>1
<1>6. CASE s[j] = DoneEvent
  <2>1. Len(t) \in DOMAIN t
    BY <1>2
  <2> QED BY <1>2, <1>6, <2>1
<1> QED BY <1>3, <1>4, <1>5, <1>6

\* Two sequences closed alike behind the same texts differ in Usage only.
LEMMA ClosedSame ==
  ASSUME NEW a \in Slots, NEW P \in SUBSET Nat, NEW s, NEW es, NEW t, NEW fs,
         Closed(s, es, a), Plain(es), TextsOf(es, P),
         Closed(t, fs, a), Plain(fs), TextsOf(fs, P)
  PROVE  SameBesideUsage(s, t)
<1>1. \A j \in DOMAIN s : ~IsUsage(s[j]) => \E m \in DOMAIN t : t[m] = s[j]
  BY ClosedIncluded
<1>2. \A m \in DOMAIN t : ~IsUsage(t[m]) => \E j \in DOMAIN s : s[j] = t[m]
  BY ClosedIncluded
<1>3. ASSUME NEW j \in DOMAIN s, NEW k \in DOMAIN s, NEW m \in DOMAIN t, NEW n \in DOMAIN t,
             s[j] = t[m], s[k] = t[n], ~IsUsage(s[j]), ~IsUsage(s[k])
      PROVE  j < k <=> m < n
  <2>1. j < k => Before(s[j], s[k])
    BY <1>3, ClosedOrder
  <2>2. k < j => Before(s[k], s[j])
    BY <1>3, ClosedOrder
  <2>3. m < n => Before(s[j], s[k])
    <3> SUFFICES ASSUME m < n PROVE Before(t[m], t[n])
      BY <1>3
    <3> QED BY <1>3, ClosedOrder
  <2>4. n < m => Before(s[k], s[j])
    <3> SUFFICES ASSUME n < m PROVE Before(t[n], t[m])
      BY <1>3
    <3> QED BY <1>3, ClosedOrder
  <2>5. j \in Nat /\ k \in Nat /\ m \in Nat /\ n \in Nat
    BY ClosedParts
  <2>6. ~(Before(s[j], s[k]) /\ Before(s[k], s[j])) /\ (s[j] = s[k] => ~Before(s[j], s[k]))
    <3>1. TextsOf(s, P)
      BY ClosedTexts
    <3>2. (IsText(s[j]) => s[j].id \in Nat) /\ (IsText(s[k]) => s[k].id \in Nat)
      BY <3>1 DEF TextsOf, Event
    <3>3. DoneEvent.type = "Done"
      BY DEF DoneEvent, Event
    <3> QED BY <3>2, <3>3 DEF Before, IsText, IsUse
  <2>7. j = k => ~(m < n)
    BY <2>3, <2>6
  <2>8. m = n => ~(j < k)
    BY <1>3, <2>1, <2>6
  <2> QED BY <2>1, <2>2, <2>3, <2>4, <2>5, <2>6, <2>7, <2>8
<1> QED BY <1>1, <1>2, <1>3 DEF SameBesideUsage

-----------------------------------------------------------------------------
(* The invariant, step by step. *)

\* The parts of the invariant behind a step that ends the call.
Ending ==
  /\ OneSlot(acc)' /\ OneSlot(collect.acc)' /\ EndsOnce' /\ TextsDelivered'
  /\ CallsWhole' /\ AsCollected'

LEMMA EndingKeeps ==
  ASSUME Ending, phase' = "ended"
  PROVE  StreamInv'
BY DEF Ending, StreamInv, ReadInv

\* Before the end nothing final has been sent.
LEMMA ReadFacts ==
  ASSUME StreamTypeOK, StreamInv, phase \in {"send", "read"}
  PROVE  /\ Plain(events) /\ Plain(collect.events)
         /\ FirstSlot(acc) /\ collect.acc = acc /\ ~collect.done
         /\ TextsOf(collect.events, Texts) /\ (open => TextsOf(events, Texts))
         /\ \A k \in DOMAIN events : ~Final(k) /\ ~IsUse(events[k])
         /\ events \in Seq(Events) /\ collect.events \in Seq(Events) /\ acc \in Slots
BY DEF StreamTypeOK, StreamInv, ReadInv, Plain, TextsDelivered, Final, IsText, IsUsage, IsUse

\* A step of the reading stage, by what it has to establish.
LEMMA ReadKeeps ==
  ASSUME StreamTypeOK, StreamInv, OneSlots', phase = "read", phase' = "read",
         FirstSlot(acc)', collect'.acc = acc', ~collect'.done,
         Plain(events'), \A k \in DOMAIN collect'.events : IsText(collect'.events[k]),
         TextsOf(collect'.events, Texts'), open' => TextsOf(events', Texts')
  PROVE  StreamInv'
<1>1. ReadInv'
  BY DEF ReadInv, Plain
<1>2. EndsOnce'
  BY DEF EndsOnce, Final, Plain, IsText, IsUsage
<1>3. TextsDelivered' /\ CallsWhole' /\ AsCollected'
  BY DEF TextsDelivered, CallsWhole, AsCollected, Completed
<1> QED BY <1>1, <1>2, <1>3 DEF StreamInv, OneSlots

LEMMA StreamInitInv == StreamInit => StreamInv
<1> SUFFICES ASSUME StreamInit PROVE StreamInv
  OBVIOUS
<1>1. phase = "send" /\ body = <<>> /\ acc = Empty /\ events = <<>> /\ collect = CollectStart
  BY DEF StreamInit
<1>2. Texts = {} /\ Started = {} /\ Pieces(0) = {}
  BY <1>1 DEF Texts, Started, Pieces
<1>3. TextsOf(<<>>, {})
  BY DEF TextsOf
<1>4. OneSlot(acc) /\ OneSlot(collect.acc) /\ collect.acc = acc /\ ~collect.done /\ collect.events = <<>>
  BY <1>1, SlotsType DEF CollectStart
<1>5. FirstSlot(acc)
  <2>1. acc[0] = NoCall
    BY <1>1, SseAssumption DEF Empty, Indices
  <2> QED BY <1>2, <2>1 DEF FirstSlot
<1>6. ReadInv
  BY <1>1, <1>2, <1>3, <1>4, <1>5 DEF ReadInv
<1>7. EndsOnce /\ TextsDelivered /\ CallsWhole /\ AsCollected
  BY <1>1, <1>2, <1>3 DEF EndsOnce, TextsDelivered, CallsWhole, AsCollected, Completed, Final
<1> QED BY <1>2, <1>4, <1>6, <1>7 DEF StreamInv

LEMMA QuietInv ==
  ASSUME StreamTypeOK, StreamInv, SendFails \/ Responds \/ ReceiverDrops \/ UNCHANGED streamVars
  PROVE  StreamInv'
<1>1. UNCHANGED <<body, acc, events, collect>> /\ (open' => open)
  BY DEF SendFails, Responds, ReceiverDrops, streamVars
<1>2. /\ Texts' = Texts /\ Started' = Started /\ Pieces(0)' = Pieces(0)
  BY <1>1 DEF Texts, Started, Pieces
<1>3. phase' = phase \/ (phase = "send" /\ phase' \in {"failed", "read"})
  BY DEF SendFails, Responds, ReceiverDrops, streamVars
<1>4. ReadInv'
  <2>1. FirstSlot(acc)' = FirstSlot(acc)
    BY <1>1, <1>2 DEF FirstSlot
  <2> QED BY <1>1, <1>2, <1>3, <2>1 DEF StreamInv, ReadInv
<1>5. TextsDelivered'
  BY <1>1, <1>2 DEF StreamInv, TextsDelivered
<1>6. EndsOnce'
  <2>1. phase = "ended" <=> phase' = "ended"
    BY <1>3
  <2>2. \A k : Final(k)' = Final(k)
    BY <1>1 DEF Final
  <2> QED BY <1>1, <2>1, <2>2 DEF StreamInv, EndsOnce
<1>7. Completed' => Completed
  BY <1>1, <1>3 DEF Completed
<1>8. CallsWhole' /\ AsCollected'
  <2>1. CallsWhole'
    BY <1>1, <1>2, <1>7 DEF StreamInv, CallsWhole, Pieces
  <2>2. AsCollected'
    BY <1>1, <1>7 DEF StreamInv, AsCollected
  <2> QED BY <2>1, <2>2
<1> QED BY <1>1, <1>2, <1>4, <1>5, <1>6, <1>8 DEF StreamInv

LEMMA AppendText ==
  ASSUME NEW es \in Seq(Events), NEW n \in Nat, NEW P \in SUBSET (1..n), TextsOf(es, P)
  PROVE  TextsOf(Append(es, Event("TextDelta", n + 1, <<>>)), P \cup {n + 1})
<1> DEFINE v == Event("TextDelta", n + 1, <<>>)
           fs == Append(es, v)
<1>1. v.type = "TextDelta" /\ v.id = n + 1 /\ v \in Events
  BY EventType DEF Event
<1> HIDE DEF v, Events
<1>2. /\ DOMAIN es = 1..Len(es) /\ DOMAIN fs = 1..(Len(es) + 1) /\ Len(es) \in Nat
      /\ fs[Len(es) + 1] = v /\ \A k \in DOMAIN es : fs[k] = es[k]
  BY <1>1
<1> HIDE DEF fs
<1>3. /\ \A k \in DOMAIN es : IsText(es[k]) => \E p \in P : es[k] = Event("TextDelta", p, <<>>)
      /\ \A p \in P : \E k \in DOMAIN es : es[k] = Event("TextDelta", p, <<>>)
      /\ \A j, k \in DOMAIN es : j < k /\ IsText(es[j]) /\ IsText(es[k]) => es[j].id < es[k].id
  BY DEF TextsOf
<1>4. \A k \in DOMAIN fs : IsText(fs[k]) => \E p \in P \cup {n + 1} : fs[k] = Event("TextDelta", p, <<>>)
  <2> SUFFICES ASSUME NEW k \in DOMAIN fs, IsText(fs[k])
               PROVE  \E p \in P \cup {n + 1} : fs[k] = Event("TextDelta", p, <<>>)
    OBVIOUS
  <2>1. CASE k \in DOMAIN es
    BY <1>2, <1>3, <2>1
  <2>2. CASE k = Len(es) + 1
    BY <1>2, <2>2 DEF v
  <2> QED BY <1>2, <2>1, <2>2
<1>5. \A p \in P \cup {n + 1} : \E k \in DOMAIN fs : fs[k] = Event("TextDelta", p, <<>>)
  <2>1. Len(es) + 1 \in DOMAIN fs /\ fs[Len(es) + 1] = Event("TextDelta", n + 1, <<>>)
    BY <1>2 DEF v
  <2>2. DOMAIN es \subseteq DOMAIN fs
    BY <1>2
  <2> QED BY <1>2, <1>3, <2>1, <2>2
<1>6. ASSUME NEW j \in DOMAIN fs, NEW k \in DOMAIN fs, j < k, IsText(fs[j]), IsText(fs[k])
      PROVE  fs[j].id < fs[k].id
  <2>1. j \in DOMAIN es /\ fs[j] = es[j]
    BY <1>2, <1>6
  <2>2. es[j].id \in 1..n
    <3>1. PICK p \in P : es[j] = Event("TextDelta", p, <<>>)
      BY <1>3, <1>6, <2>1
    <3> QED BY <3>1 DEF Event
  <2>3. CASE k \in DOMAIN es
    BY <1>2, <1>3, <1>6, <2>1, <2>3
  <2>4. CASE k = Len(es) + 1
    BY <1>1, <1>2, <2>1, <2>2, <2>4
  <2> QED BY <1>2, <2>3, <2>4
<1> QED BY <1>4, <1>5, <1>6 DEF TextsOf, fs, v

LEMMA AppendOther ==
  ASSUME NEW es \in Seq(Events), NEW v \in Events, ~IsText(v), NEW P, TextsOf(es, P)
  PROVE  TextsOf(Append(es, v), P)
<1> DEFINE fs == Append(es, v)
<1> HIDE DEF Events
<1>1. /\ DOMAIN es = 1..Len(es) /\ DOMAIN fs = 1..(Len(es) + 1) /\ Len(es) \in Nat
      /\ fs[Len(es) + 1] = v /\ \A k \in DOMAIN es : fs[k] = es[k]
  OBVIOUS
<1> HIDE DEF fs
<1>2. /\ DOMAIN es \subseteq DOMAIN fs
      /\ \A k \in DOMAIN fs : IsText(fs[k]) => k \in DOMAIN es /\ fs[k] = es[k]
  BY <1>1
<1>3. /\ \A k \in DOMAIN es : IsText(es[k]) => \E p \in P : es[k] = Event("TextDelta", p, <<>>)
      /\ \A p \in P : \E k \in DOMAIN es : es[k] = Event("TextDelta", p, <<>>)
      /\ \A j, k \in DOMAIN es : j < k /\ IsText(es[j]) /\ IsText(es[k]) => es[j].id < es[k].id
  BY DEF TextsOf
<1>4. \A k \in DOMAIN fs : IsText(fs[k]) => \E p \in P : fs[k] = Event("TextDelta", p, <<>>)
  BY <1>2, <1>3
<1>5. \A p \in P : \E k \in DOMAIN fs : fs[k] = Event("TextDelta", p, <<>>)
  BY <1>1, <1>2, <1>3
<1>6. \A j, k \in DOMAIN fs : j < k /\ IsText(fs[j]) /\ IsText(fs[k]) => fs[j].id < fs[k].id
  BY <1>2, <1>3
<1> QED BY <1>4, <1>5, <1>6 DEF TextsOf, fs

\* The lines between a start and an end, seen by both parsers.
LEMMA TakeReads ==
  ASSUME StreamTypeOK, OneSlots, StreamInv, NEW l \in Lines, NEW K, Take(l, K),
         Parse(l) \notin {"done", "text"}
  PROVE  /\ collect'.events = collect.events /\ ~collect'.done
         /\ collect'.acc = Accumulate(acc, l, Len(body) + 1)
         /\ Texts' = Texts
         /\ Parse(l) \notin {"start", "args"} => Accumulate(acc, l, Len(body) + 1) = acc
         /\ acc' = Accumulate(acc, l, Len(body) + 1) => FirstSlot(acc)'
         /\ phase = "read" /\ open' = open /\ OneSlot(collect.acc)'
<1>1. phase = "read" /\ open' = open /\ collect' = Collect(collect, l, Len(body) + 1)
  BY DEF Take
<1>2. FirstSlot(acc) /\ collect.acc = acc /\ ~collect.done
  BY <1>1, ReadFacts
<1>3. collect' = [collect EXCEPT !.acc = Accumulate(@, l, Len(body) + 1), !.usage = @ \/ Parse(l) = "usage"]
  BY <1>1, <1>2 DEF Collect
<1>4. /\ collect'.events = collect.events /\ collect'.done = collect.done
      /\ collect'.acc = Accumulate(collect.acc, l, Len(body) + 1)
  BY <1>3 DEF StreamTypeOK
<1>5. Texts' = Texts
  BY TakeAdds
<1>6. acc' = Accumulate(acc, l, Len(body) + 1) => FirstSlot(acc)'
  BY <1>2, FirstSlotNext
<1> QED BY <1>1, <1>2, <1>4, <1>5, <1>6, TakeType DEF Accumulate

LEMMA SkipInv ==
  ASSUME StreamTypeOK, OneSlots, OneSlots', StreamInv, NEW l \in Lines, Skip(l)
  PROVE  StreamInv'
<1>1. /\ Take(l, {"comment", "blank", "finish"}) /\ UNCHANGED <<phase, acc, events>>
      /\ Parse(l) \in {"comment", "blank", "finish"}
  BY DEF Skip, Take
<1>2. /\ collect'.events = collect.events /\ ~collect'.done /\ collect'.acc = acc
      /\ Texts' = Texts /\ FirstSlot(acc)' /\ phase = "read" /\ open' = open
  BY <1>1, TakeReads
<1>3. /\ Plain(events) /\ TextsOf(collect.events, Texts) /\ (open => TextsOf(events, Texts))
      /\ \A k \in DOMAIN collect.events : IsText(collect.events[k])
  BY <1>2, ReadFacts DEF StreamInv, ReadInv
<1> QED BY <1>1, <1>2, <1>3, ReadKeeps

LEMMA CallInvStep ==
  ASSUME StreamTypeOK, OneSlots, OneSlots', StreamInv, NEW l \in Lines, Call(l)
  PROVE  StreamInv'
<1>1. /\ Take(l, {"start", "args"}) /\ UNCHANGED <<phase, events>>
      /\ Parse(l) \in {"start", "args"} /\ acc' = Accumulate(acc, l, Len(body) + 1)
  BY DEF Call, Take
<1>2. /\ collect'.events = collect.events /\ ~collect'.done /\ collect'.acc = acc'
      /\ Texts' = Texts /\ FirstSlot(acc)' /\ phase = "read" /\ open' = open
  BY <1>1, TakeReads
<1>3. /\ Plain(events) /\ TextsOf(collect.events, Texts) /\ (open => TextsOf(events, Texts))
      /\ \A k \in DOMAIN collect.events : IsText(collect.events[k])
  BY <1>2, ReadFacts DEF StreamInv, ReadInv
<1> QED BY <1>1, <1>2, <1>3, ReadKeeps

LEMMA UsageInv ==
  ASSUME StreamTypeOK, OneSlots, OneSlots', StreamInv, NEW l \in Lines, Usage(l)
  PROVE  StreamInv'
<1> DEFINE v == Event("Usage", 0, <<>>)
<1>1. /\ Take(l, {"usage"}) /\ UNCHANGED <<phase, acc>> /\ Parse(l) = "usage"
      /\ events' = IF open THEN events \o <<v>> ELSE events
  BY DEF Usage, Take, Send
<1>2. /\ collect'.events = collect.events /\ ~collect'.done /\ collect'.acc = acc
      /\ Texts' = Texts /\ FirstSlot(acc)' /\ phase = "read" /\ open' = open
  BY <1>1, TakeReads
<1>3. /\ Plain(events) /\ TextsOf(collect.events, Texts) /\ (open => TextsOf(events, Texts))
      /\ events \in Seq(Events)
      /\ \A k \in DOMAIN collect.events : IsText(collect.events[k])
  BY <1>2, ReadFacts DEF StreamInv, ReadInv
<1>4. v \in Events /\ IsUsage(v) /\ ~IsText(v)
  BY EventType DEF Event, IsUsage, IsText
<1> HIDE DEF v, Events
<1>5. events' = IF open THEN Append(events, v) ELSE events
  <2>1. events \o <<v>> = Append(events, v)
    BY <1>3, <1>4
  <2> QED BY <1>1, <2>1, Zenon
<1>6. Plain(events')
  BY <1>3, <1>4, <1>5 DEF Plain
<1>7. open' => TextsOf(events', Texts')
  BY <1>2, <1>3, <1>4, <1>5, AppendOther
<1> QED BY <1>1, <1>2, <1>3, <1>6, <1>7, ReadKeeps

LEMMA TextInv ==
  ASSUME StreamTypeOK, OneSlots, OneSlots', StreamInv, NEW l \in Lines, Text(l)
  PROVE  StreamInv'
<1> DEFINE n == Len(body)
           v == Event("TextDelta", n + 1, <<>>)
<1>1. /\ Take(l, {"text"}) /\ UNCHANGED <<acc, open>> /\ Parse(l) = "text" /\ phase = "read"
      /\ events' = IF open THEN events \o <<v>> ELSE events
      /\ phase' = IF open THEN "read" ELSE "ended"
      /\ collect' = Collect(collect, l, n + 1)
  BY DEF Text, Take, Send
<1>2. /\ Texts' = Texts \cup {n + 1} /\ Texts \subseteq 1..n
      /\ Started' = Started /\ Pieces(0)' = Pieces(0)
  <2>1. l.call # "start" /\ l.call # "args"
    BY <1>1, TakeAdds, ParseFacts
  <2> QED BY <1>1, <2>1, TakeAdds
<1>3. /\ Plain(events) /\ TextsOf(collect.events, Texts) /\ (open => TextsOf(events, Texts))
      /\ events \in Seq(Events) /\ collect.events \in Seq(Events)
      /\ FirstSlot(acc) /\ collect.acc = acc /\ ~collect.done
      /\ \A k \in DOMAIN collect.events : IsText(collect.events[k])
      /\ \A k \in DOMAIN events : ~Final(k)
  BY <1>1, ReadFacts DEF StreamInv, ReadInv
<1>4. v \in Events /\ IsText(v) /\ n \in Nat
  BY EventType DEF Event, IsText, StreamTypeOK
<1>5. FirstSlot(acc)'
  BY <1>1, <1>2, <1>3 DEF FirstSlot
<1>6. collect' = [collect EXCEPT !.events = Append(@, v)]
  BY <1>1, <1>3 DEF Collect
<1>7. collect'.events = Append(collect.events, v) /\ collect'.acc = acc /\ collect'.done = collect.done
  BY <1>3, <1>6 DEF StreamTypeOK
<1>8. events \o <<v>> = Append(events, v)
  <2> HIDE DEF v, Events
  <2> QED BY <1>3, <1>4
<1>9. CASE open
  <2>1. events' = Append(events, v) /\ phase' = "read"
    BY <1>1, <1>8, <1>9
  <2>2. TextsOf(events', Texts') /\ TextsOf(collect'.events, Texts')
    BY <1>2, <1>3, <1>4, <1>7, <1>9, <2>1, AppendText
  <2> HIDE DEF v, Events
  <2>3. Plain(events') /\ \A k \in DOMAIN collect'.events : IsText(collect'.events[k])
    BY <1>3, <1>4, <1>7, <2>1 DEF Plain
  <2> QED BY <1>1, <1>2, <1>3, <1>5, <1>7, <2>1, <2>2, <2>3, ReadKeeps
<1>10. CASE ~open
  <2>1. events' = events /\ phase' = "ended" /\ ~open'
    BY <1>1, <1>10
  <2>2. EndsOnce'
    BY <1>3, <2>1 DEF EndsOnce, Final
  <2>3. TextsDelivered' /\ CallsWhole' /\ AsCollected'
    BY <2>1 DEF TextsDelivered, CallsWhole, AsCollected, Completed
  <2> QED BY <1>2, <2>1, <2>2, <2>3, EndingKeeps DEF Ending, OneSlots
<1> QED BY <1>9, <1>10

\* An error ends the call and is the last that is sent.
LEMMA ErrorInv ==
  ASSUME StreamTypeOK, OneSlots, OneSlots', StreamInv, StatusError \/ StreamBreaks
  PROVE  StreamInv'
<1> DEFINE v == Event("Error", 0, <<>>)
<1>1. /\ phase \in {"send", "read"} /\ phase' = "ended" /\ UNCHANGED <<body, acc, open, collect>>
      /\ events' = IF open THEN events \o <<v>> ELSE events
  BY DEF StatusError, StreamBreaks, Send
<1>2. Texts' = Texts
  BY <1>1 DEF Texts
<1>3. /\ Plain(events) /\ (open => TextsOf(events, Texts)) /\ events \in Seq(Events)
      /\ \A k \in DOMAIN events : ~Final(k)
  BY <1>1, ReadFacts
<1>4. v \in Events /\ ~IsText(v) /\ v.type = "Error"
  BY EventType DEF Event, IsText
<1> HIDE DEF v, Events
<1>5. events \o <<v>> = Append(events, v)
  BY <1>3, <1>4
<1>6. CASE open
  <2>1. events' = Append(events, v)
    BY <1>1, <1>5, <1>6
  <2>2. /\ DOMAIN events = 1..Len(events) /\ DOMAIN events' = 1..(Len(events) + 1)
        /\ Len(events') = Len(events) + 1 /\ events'[Len(events')] = v /\ Len(events) \in Nat
        /\ \A k \in DOMAIN events : events'[k] = events[k]
    BY <1>3, <1>4, <2>1
  <2>3. EndsOnce'
    <3>1. \A k \in DOMAIN events' : Final(k)' => k = Len(events')
      BY <1>3, <2>2 DEF Final
    <3>2. events' # <<>> /\ events'[Len(events')].type = "Error"
      BY <1>4, <2>2
    <3> QED BY <1>1, <3>1, <3>2 DEF EndsOnce, Final
  <2>4. ~Completed'
    BY <1>4, <2>2 DEF Completed
  <2>5. TextsDelivered'
    BY <1>2, <1>3, <1>4, <1>6, <2>1, AppendOther DEF TextsDelivered
  <2>6. CallsWhole' /\ AsCollected'
    BY <2>4 DEF CallsWhole, AsCollected
  <2> QED BY <1>1, <1>2, <2>3, <2>5, <2>6, EndingKeeps DEF Ending, OneSlots
<1>7. CASE ~open
  <2>1. events' = events /\ ~open'
    BY <1>1, <1>7
  <2>2. EndsOnce'
    BY <1>1, <1>3, <2>1 DEF EndsOnce, Final
  <2>3. TextsDelivered' /\ CallsWhole' /\ AsCollected'
    BY <2>1 DEF TextsDelivered, CallsWhole, AsCollected, Completed
  <2> QED BY <1>1, <1>2, <2>2, <2>3, EndingKeeps DEF Ending, OneSlots
<1> QED BY <1>6, <1>7

\* What a receiver that stays has, once the call has been closed in order.
LEMMA FlushEnds ==
  ASSUME StreamTypeOK, OneSlots, StreamInv, phase = "read", phase' = "ended", open' = open, Flush,
         Texts' = Texts, Started' = Started, Pieces(0)' = Pieces(0)
  PROVE  /\ EndsOnce' /\ TextsDelivered' /\ CallsWhole'
         /\ open => Closed(events', events, acc)
<1>1. /\ Plain(events) /\ (open => TextsOf(events, Texts)) /\ events \in Seq(Events)
      /\ \A k \in DOMAIN events : ~Final(k) /\ ~IsUse(events[k])
      /\ FirstSlot(acc) /\ acc \in Slots /\ OneSlot(acc)
  BY ReadFacts DEF OneSlots
<1>2. events' = IF open THEN events \o Append(ToolUses(acc), DoneEvent) ELSE events
  BY DEF Flush, Send, DoneEvent
<1>3. CASE ~open
  <2>1. events' = events /\ ~open'
    BY <1>2, <1>3
  <2> QED BY <1>1, <1>3, <2>1 DEF EndsOnce, Final, TextsDelivered, CallsWhole, Completed
<1>4. CASE open
  <2>1. Closed(events', events, acc)
    BY <1>1, <1>2, <1>4, StreamCloses
  <2>2. /\ DOMAIN events = 1..Len(events) /\ DOMAIN events' = 1..Len(events')
        /\ Len(events) \in Nat /\ Len(events') \in Nat /\ Len(events) < Len(events')
        /\ \A k \in DOMAIN events' :
             \/ k \in DOMAIN events /\ events'[k] = events[k] /\ (IsText(events'[k]) \/ IsUsage(events'[k]))
             \/ k > Len(events) /\ k < Len(events') /\ IsUsage(events'[k])
             \/ /\ k = Len(events) + 1 /\ k < Len(events')
                /\ acc[0] # NoCall /\ events'[k] = UseOf(acc)
             \/ k = Len(events') /\ events'[k] = DoneEvent
        /\ UseOf(acc).type = "ToolUse" /\ DoneEvent.type = "Done"
    BY <1>1, <2>1, ClosedParts
  <2>3. events'[Len(events')] = DoneEvent
    BY <2>1 DEF Closed
  <2>4. EndsOnce'
    <3>1. \A k \in DOMAIN events' : Final(k)' => k = Len(events')
      BY <2>2 DEF Final, IsText, IsUsage
    <3>2. events' # <<>> /\ events'[Len(events')].type = "Done"
      BY <2>2, <2>3
    <3> QED BY <3>1, <3>2 DEF EndsOnce, Final
  <2>5. TextsDelivered'
    BY <1>1, <1>4, <2>1, ClosedTexts DEF TextsDelivered
  <2>6. \A k \in DOMAIN events' : IsUse(events'[k]) =>
          k = Len(events) + 1 /\ acc[0] # NoCall /\ events'[k] = UseOf(acc)
    BY <2>2 DEF IsUse, IsText, IsUsage
  <2>7. ASSUME acc[0] # NoCall
        PROVE  /\ 0 \in Started /\ UseOf(acc).id = 0 /\ IsUse(UseOf(acc))
               /\ Enumerates(UseOf(acc).args, Pieces(0))
    <3>1. 0 \in Started /\ acc[0].call = 0 /\ Enumerates(acc[0].args, Pieces(0))
      BY <1>1, <2>7 DEF FirstSlot
    <3>2. UseOf(acc).id = 0 /\ UseOf(acc).args = acc[0].args /\ IsUse(UseOf(acc))
      BY <3>1 DEF UseOf, Event, IsUse
    <3> QED BY <3>1, <3>2
  <2>8. ASSUME 0 \in Started
        PROVE  \E k \in DOMAIN events' : IsUse(events'[k]) /\ events'[k].id = 0
    <3>1. acc[0] # NoCall
      BY <1>1, <2>8, SseAssumption DEF FirstSlot, NoCall
    <3>2. Len(events) + 1 \in DOMAIN events' /\ events'[Len(events) + 1] = UseOf(acc)
      BY <2>1, <2>2, <3>1 DEF Closed
    <3> QED BY <2>7, <3>1, <3>2
  <2>9. ASSUME NEW k \in DOMAIN events', IsUse(events'[k])
        PROVE  /\ events'[k].id = 0 /\ 0 \in Started'
               /\ Enumerates(events'[k].args, Pieces(0)')
    BY <2>6, <2>7, <2>9
  <2>10. CallsWhole'
    <3>1. ASSUME NEW k \in DOMAIN events', IsUse(events'[k])
          PROVE  Enumerates(events'[k].args, {p \in DOMAIN body' : body'[p].call = "args"
                                                               /\ body'[p].index = events'[k].id})
      BY <2>9, <3>1 DEF Pieces
    <3> QED BY <2>6, <2>8, <2>9, <3>1 DEF CallsWhole, Pieces
  <2> QED BY <2>1, <2>4, <2>5, <2>10
<1> QED BY <1>3, <1>4

LEMMA BodyEndsInv ==
  ASSUME StreamTypeOK, OneSlots, OneSlots', StreamInv, BodyEnds
  PROVE  StreamInv'
<1>1. /\ phase = "read" /\ phase' = "ended" /\ Flush /\ UNCHANGED <<body, open, collect>>
  BY DEF BodyEnds
<1>2. Texts' = Texts /\ Started' = Started /\ Pieces(0)' = Pieces(0)
  BY <1>1 DEF Texts, Started, Pieces
<1>3. EndsOnce' /\ TextsDelivered' /\ CallsWhole'
  BY <1>1, <1>2, FlushEnds
<1>4. AsCollected'
  BY <1>1, ReadFacts DEF AsCollected
<1> QED BY <1>1, <1>2, <1>3, <1>4, EndingKeeps DEF Ending, OneSlots

\* Both parsers close behind the same texts with the same call.
LEMMA DoneInv ==
  ASSUME StreamTypeOK, OneSlots, OneSlots', StreamInv, NEW l \in Lines, Done(l)
  PROVE  StreamInv'
<1>1. /\ Take(l, {"done"}) /\ Flush /\ phase' = "ended" /\ phase = "read" /\ open' = open
      /\ Parse(l) = "done" /\ collect' = Collect(collect, l, Len(body) + 1)
  BY DEF Done, Take
<1>2. Texts' = Texts /\ Started' = Started /\ Pieces(0)' = Pieces(0)
  <2>1. l.call # "start" /\ l.call # "args"
    BY <1>1, TakeAdds, ParseFacts
  <2> QED BY <1>1, <2>1, TakeAdds
<1>3. /\ EndsOnce' /\ TextsDelivered' /\ CallsWhole'
      /\ open => Closed(events', events, acc)
  BY <1>1, <1>2, FlushEnds
<1>4. /\ Plain(events) /\ Plain(collect.events) /\ (open => TextsOf(events, Texts))
      /\ TextsOf(collect.events, Texts) /\ collect.acc = acc /\ ~collect.done
      /\ collect.events \in Seq(Events) /\ acc \in Slots /\ OneSlot(acc)
  BY <1>1, ReadFacts DEF OneSlots
<1>5. Closed(collect'.events, collect.events, acc)
  <2> DEFINE es == collect.events \o ToolUses(collect.acc)
                   \o (IF collect.usage THEN <<Event("Usage", 0, <<>>)>> ELSE <<>>)
                   \o <<DoneEvent>>
  <2>1. collect' = [collect EXCEPT !.done = TRUE, !.events = es]
    BY <1>1, <1>4 DEF Collect, DoneEvent
  <2>2. Closed(es, collect.events, acc)
    BY <1>4, CollectorCloses
  <2> HIDE DEF es
  <2>3. collect'.events = es
    BY <2>1 DEF StreamTypeOK
  <2> QED BY <2>2, <2>3
<1>6. Texts \in SUBSET Nat
  BY <1>1, TakeAdds
<1>7. AsCollected'
  <2>1. CASE open
    <3>1. SameBesideUsage(events', collect'.events)
      BY <1>3, <1>4, <1>5, <1>6, <2>1, ClosedSame
    <3> QED BY <3>1 DEF AsCollected
  <2>2. CASE ~open
    BY <1>1, <2>2 DEF AsCollected, Completed
  <2> QED BY <2>1, <2>2
<1> QED BY <1>1, <1>2, <1>3, <1>7, EndingKeeps DEF Ending, OneSlots

LEMMA StreamNextInv ==
  ASSUME StreamTypeOK, OneSlots, StreamInv, [StreamNext]_streamVars
  PROVE  StreamInv'
<1>1. OneSlots'
  BY StreamNextType
<1>2. CASE SendFails \/ Responds \/ ReceiverDrops \/ UNCHANGED streamVars
  BY <1>2, QuietInv
<1>3. CASE StatusError \/ StreamBreaks
  BY <1>1, <1>3, ErrorInv
<1>4. CASE BodyEnds
  BY <1>1, <1>4, BodyEndsInv
<1>5. CASE \E l \in Lines : Skip(l) \/ Text(l) \/ Call(l) \/ Usage(l) \/ Done(l)
  BY <1>1, <1>5, SkipInv, TextInv, CallInvStep, UsageInv, DoneInv
<1> QED BY <1>2, <1>3, <1>4, <1>5 DEF StreamNext

LEMMA StreamSafe == StreamSpec => []StreamInv
BY StreamInitType, StreamNextType, StreamInitInv, StreamNextInv, PTL DEF StreamSpec

(* stream() sends one final event and nothing after it, and one whenever the  *)
(* server has answered a receiver that stays, for any body.                  *)
THEOREM EndsOnceAlways == StreamSpec => []EndsOnce
<1>1. StreamInv => EndsOnce
  BY DEF StreamInv
<1> QED BY <1>1, StreamSafe, PTL

(* Every text of any legal body reaches a receiver that stays, in order and   *)
(* once.                                                                     *)
THEOREM TextsDeliveredAlways == StreamSpec => []TextsDelivered
<1>1. StreamInv => TextsDelivered
  BY DEF StreamInv
<1> QED BY <1>1, StreamSafe, PTL

(* However many calls a completion has and however their pieces are mixed,    *)
(* its first call is delivered, and what is delivered of any call is that     *)
(* call once, with exactly the pieces that came for it, in order.             *)
THEOREM CallsWholeAlways == StreamSpec => []CallsWhole
<1>1. StreamInv => CallsWhole
  BY DEF StreamInv
<1> QED BY <1>1, StreamSafe, PTL

(* stream() and collect_events_from_sse agree on any legal body, usage aside. *)
THEOREM AsCollectedAlways == StreamSpec => []AsCollected
<1>1. StreamInv => AsCollected
  BY DEF StreamInv
<1> QED BY <1>1, StreamSafe, PTL
=============================================================================
