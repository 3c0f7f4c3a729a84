---------------------------- MODULE ResilientLlm ----------------------------
(***************************************************************************)
(* One call of ResilientLlmProvider::complete: the attempts of with_retry,  *)
(* which go to the primary provider or, after an overload, to a fallback,   *)
(* and what is tried once the attempts are spent.  Provider 0 is the        *)
(* primary, provider p the fallback with index p - 1.  Every provider       *)
(* answers as it likes; the delays between attempts are left out.           *)
(***************************************************************************)
EXTENDS Naturals

CONSTANTS MaxAttempts,     \* bound: max_attempts of the policies considered
          MaxFallbacks,    \* bound: number of fallbacks
          Width,           \* token counts are unsigned integers modulo Width
          Ceiling,         \* MAX_TOKENS_CEILING
          DefaultTokens    \* the limit assumed for a request that sets none

ASSUME ResilientAssumption ==
  /\ {MaxAttempts, MaxFallbacks, Width, Ceiling, DefaultTokens} \subseteq Nat
  /\ DefaultTokens <= Ceiling /\ 2 * Ceiling < Width

Classes == {"Transient", "PromptTooLong", "MaxOutputTokens", "ProviderOverloaded", "Fatal"}

\* What the caller sets up: the retry policy, the fallbacks, the handler and the request.
Policies == [max_attempts : 0..MaxAttempts, fallbacks : 0..MaxFallbacks,
             handler : BOOLEAN, tokens : 0..(Width - 1)]

VARIABLES
  policy,      \* fixed for the call
  stage,       \* "loop": in with_retry; "extra": trying what fallbacks are left;
               \* "escalated", "compacted": one more call to the primary, with a changed
               \* request; "done"
  attempt,     \* attempt of with_retry
  last_class,  \* last_error_class of its RetryContext
  next,        \* the fallback the extra stage calls next
  tokens,      \* max_tokens of the request
  asked,       \* history: how often each provider was called
  errors,      \* history: the classes of the errors with_retry saw
  outcome      \* result of the call: "Ok" or the class of its error

vars == <<policy, stage, attempt, last_class, next, tokens, asked, errors, outcome>>

Lesser(a, b)  == IF a < b THEN a ELSE b
Greater(a, b) == IF a < b THEN b ELSE a

Init ==
  /\ policy \in Policies
  /\ stage = "loop"
  /\ attempt = 0
  /\ last_class = "None"
  /\ next = 0
  /\ tokens = policy.tokens
  /\ asked = [p \in 0..MaxFallbacks |-> 0]
  /\ errors = {}
  /\ outcome = "None"

-----------------------------------------------------------------------------
Ask(p) == asked' = [asked EXCEPT ![p] = @ + 1]

Return(r) == stage' = "done" /\ outcome' = r

\* The closure of with_retry picks the fallback by the number of the attempt.
Target == IF last_class = "ProviderOverloaded" /\ attempt <= policy.fallbacks
            THEN attempt ELSE 0

AttemptOk ==
  /\ stage = "loop"
  /\ Ask(Target)
  /\ Return("Ok")
  /\ UNCHANGED <<policy, attempt, last_class, next, tokens, errors>>

AttemptErr(k) ==
  /\ stage = "loop"
  /\ Ask(Target)
  /\ errors' = errors \cup {k}
  /\ UNCHANGED policy

Exhausted(k) == k = "Fatal" \/ attempt + 1 >= policy.max_attempts

Retry(k) ==
  /\ AttemptErr(k) /\ ~Exhausted(k)
  /\ attempt' = attempt + 1
  /\ last_class' = k
  /\ UNCHANGED <<stage, next, tokens, outcome>>

GiveUp(k) ==
  /\ AttemptErr(k) /\ Exhausted(k)
  /\ k \in {"Transient", "Fatal"} \/ (k = "PromptTooLong" /\ ~policy.handler)
  /\ Return(k)
  /\ UNCHANGED <<attempt, last_class, next, tokens>>

FirstOfAll  == 1                                     \* tries every fallback again
FirstTooFar == Greater(policy.max_attempts, 1) + 1   \* takes one more for tried

\* The attempts are taken to have tried the fallbacks below this one.
FirstExtra == Greater(policy.max_attempts, 1)

TryRest ==
  /\ AttemptErr("ProviderOverloaded") /\ Exhausted("ProviderOverloaded")
  /\ stage' = "extra"
  /\ next' = FirstExtra
  /\ UNCHANGED <<attempt, last_class, tokens, outcome>>

DoubledBelow(n) == Lesser((2 * n) % Width, DefaultTokens)

Doubled(n) == Lesser((2 * n) % Width, Ceiling)

\* A request without a limit is one with the default limit.
Escalate ==
  /\ AttemptErr("MaxOutputTokens") /\ Exhausted("MaxOutputTokens")
  /\ tokens' = Doubled(tokens)
  /\ stage' = "escalated"
  /\ UNCHANGED <<attempt, last_class, next, outcome>>

\* The handler rewrites the request, its limit included, as it likes.
Compact ==
  /\ AttemptErr("PromptTooLong") /\ Exhausted("PromptTooLong") /\ policy.handler
  /\ stage' = "compacted"
  /\ tokens' \in 0..(Width - 1)
  /\ UNCHANGED <<attempt, last_class, next, outcome>>

\* Any error of a fallback, fatal or not, leads to the next one.
ExtraOk ==
  /\ stage = "extra" /\ next <= policy.fallbacks
  /\ Ask(next)
  /\ Return("Ok")
  /\ UNCHANGED <<policy, attempt, last_class, next, tokens, errors>>

ExtraErr ==
  /\ stage = "extra" /\ next <= policy.fallbacks
  /\ Ask(next)
  /\ next' = next + 1
  /\ UNCHANGED <<policy, stage, attempt, last_class, tokens, errors, outcome>>

ExtraDoneAtEnd ==                     \* stops only right behind the last fallback
  /\ stage = "extra" /\ next = policy.fallbacks + 1
  /\ Return("ProviderOverloaded")
  /\ UNCHANGED <<policy, attempt, last_class, next, tokens, asked, errors>>

ExtraDone ==
  /\ stage = "extra" /\ next > policy.fallbacks
  /\ Return("ProviderOverloaded")
  /\ UNCHANGED <<policy, attempt, last_class, next, tokens, asked, errors>>

LastCall ==
  /\ stage \in {"escalated", "compacted"}
  /\ Ask(0)
  /\ \E r \in Classes \cup {"Ok"} : Return(r)
  /\ UNCHANGED <<policy, attempt, last_class, next, tokens, errors>>

Next ==
  \/ AttemptOk \/ (\E k \in Classes : Retry(k) \/ GiveUp(k))
  \/ TryRest \/ Escalate \/ Compact
  \/ ExtraOk \/ ExtraErr \/ ExtraDone
  \/ LastCall

\* Every provider answers in the end.
Spec == Init /\ [][Next]_vars /\ WF_vars(Next)

-----------------------------------------------------------------------------
TypeOK ==
  /\ policy \in Policies
  /\ stage \in {"loop", "extra", "escalated", "compacted", "done"}
  /\ attempt \in Nat
  /\ last_class \in Classes \cup {"None"}
  /\ next \in Nat
  /\ tokens \in 0..(Width - 1)
  /\ asked \in [0..MaxFallbacks -> Nat]
  /\ errors \in SUBSET Classes
  /\ outcome \in Classes \cup {"None", "Ok"}

(* No fallback is called twice in a call, by an attempt or by the calls made *)
(* once the attempts are spent.                                             *)
FallbackAtMostOnce == \A p \in 1..MaxFallbacks : asked[p] <= 1

(* The primary is called at most once per attempt and once more after a     *)
(* changed request, and not again after a provider failed fatally.          *)
PrimaryBudget ==
  /\ asked[0] <= Greater(policy.max_attempts, 1) + 1
  /\ "Fatal" \in errors => asked[0] <= attempt + 1
  /\ "Fatal" \in errors => stage = "done" /\ outcome = "Fatal"

(* When overload is the only trouble the call met, it fails only once every *)
(* fallback has been tried.                                                 *)
OverloadTriesAll ==
  outcome = "ProviderOverloaded" /\ errors = {"ProviderOverloaded"} =>
    \A p \in 1..policy.fallbacks : asked[p] = 1

(* Whatever limit was too small, the escalated one is within the ceiling,   *)
(* also where doubling it wraps, and it is higher than a limit below the    *)
(* ceiling.  It is not always higher: a limit of 0 or at the ceiling stays, *)
(* and only one above the ceiling can be lowered.                           *)
EscalatedLimit ==
  stage = "escalated" =>
    /\ tokens <= Ceiling
    /\ policy.tokens \in 1..(Ceiling - 1) => tokens > policy.tokens
    /\ tokens < policy.tokens => policy.tokens > Ceiling

\* What the attempts have done, stage by stage: strengthens the invariants above.
AttemptsUsed == Greater(policy.max_attempts, 1)

LoopInv ==
  stage = "loop" =>
    /\ attempt < AttemptsUsed
    /\ asked[0] <= attempt
    /\ \A p \in 1..MaxFallbacks : asked[p] >= 1 => p < attempt
    /\ errors \subseteq {"ProviderOverloaded"} =>
         /\ attempt > 0 => last_class = "ProviderOverloaded"
         /\ \A p \in 1..policy.fallbacks : p < attempt => asked[p] = 1
    /\ "Fatal" \notin errors
    /\ tokens = policy.tokens
    /\ attempt = 0 => last_class = "None"
    /\ outcome = "None"

ExtraInv ==
  stage = "extra" =>
    /\ asked[0] <= AttemptsUsed
    /\ \A p \in 1..MaxFallbacks : asked[p] >= 1 => p < next
    /\ next >= 1
    /\ errors = {"ProviderOverloaded"} =>
         \A p \in 1..policy.fallbacks : p < next => asked[p] = 1
    /\ "Fatal" \notin errors /\ outcome = "None"

LastInv ==
  stage \in {"escalated", "compacted"} =>
    /\ asked[0] <= AttemptsUsed
    /\ "Fatal" \notin errors /\ outcome = "None"
    /\ errors # {"ProviderOverloaded"}

CallInv ==
  /\ FallbackAtMostOnce /\ PrimaryBudget /\ OverloadTriesAll /\ EscalatedLimit
  /\ LoopInv /\ ExtraInv /\ LastInv

(* The call comes back.                                                     *)
Terminates == <>(stage = "done")
=============================================================================
