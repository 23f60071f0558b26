---------------------------- MODULE ModelClient ----------------------------
(***************************************************************************)
(* One call of the live model client (agent/model_client.py), from         *)
(* complete_structured to the answer or the error its caller gets.         *)
(*                                                                         *)
(* The client posts a completion request.  The endpoint answers it, or     *)
(* accepts it (202) and is then asked for the result again and again.  A   *)
(* failure that is retryable starts another attempt while there is one     *)
(* left; any other, and the last, ends in degraded output where the        *)
(* settings allow it, and in an exception where they do not.               *)
(*                                                                         *)
(* One action is one request to the endpoint with the handling of its      *)
(* answer.  The endpoint is external: any answer may come at any time.     *)
(* Time is counted in units.  No setting bounds what a request takes: the  *)
(* timeouts of the HTTP client are for each wait of it, to connect, to     *)
(* write, and for each chunk of the answer.                                *)
(* The content of an answer is abstracted to how its parsing ends.         *)
(***************************************************************************)
EXTENDS Naturals

CONSTANTS
    Retries,            \* nemotron_max_retries
    FastRetries,        \* nemotron_fast_fallback_max_retries
    PlanRetries,        \* nemotron_repo_plan_max_retries
    ManifestRetries,    \* nemotron_file_manifest_max_retries
    Durations,          \* what a request may take
    PollMax,            \* nemotron_poll_max_seconds, that of a purpose too
    FastPollMax,        \* nemotron_fast_fallback_poll_max_seconds
    PollAttempts,       \* nemotron_poll_attempts
    PollInterval,       \* nemotron_poll_interval_seconds
    PlanBackoffCap,     \* the longest pause before plan_repo is retried
    BackoffCap,         \* and before any other purpose is
    TokenBudgets,       \* budgets a call may start with, in thousands
    TokenCap            \* the largest budget that is asked for on a retry

ASSUME ClientAssumption ==
    /\ {Retries, FastRetries, PlanRetries, ManifestRetries, PollInterval,
        PlanBackoffCap, BackoffCap, TokenCap} \subseteq Nat
    /\ {PollMax, FastPollMax, PollAttempts} \subseteq Nat \ {0}
    /\ Durations \subseteq Nat
    /\ TokenBudgets \subseteq Nat \ {0}

VARIABLES
    config,     \* the settings, and the purpose of the call
    pc,         \* "start", "post", "poll", "returned" or "raised"
    attempt,    \* the attempt under way, from 0
    effective_max_tokens,
    poll,       \* the status requests of this attempt: how many, how long
    result,     \* what the caller gets
    exchange    \* what went over the wire, the time it took, all in all and
                \* in the longest request

vars == <<config, pc, attempt, effective_max_tokens, poll, result, exchange>>

-----------------------------------------------------------------------------
(* Settings.                                                               *)

\* Every other purpose is handled as scope_mvp is.
Purposes == {"scope_mvp", "plan_repo", "file_manifest"}

Configs == [purpose : Purposes, nvidia_configured : BOOLEAN,
            allow_idea_aware_partial : BOOLEAN,
            nemotron_fast_fallback : BOOLEAN,
            require_live_file_manifest : BOOLEAN]

Larger(a, b)  == IF a > b THEN a ELSE b
Smaller(a, b) == IF a < b THEN a ELSE b

FastFallbackActive ==
    config.allow_idea_aware_partial /\ config.nemotron_fast_fallback

EffectiveRetries == IF FastFallbackActive THEN FastRetries ELSE Retries

\* nemotron_max_retries_for: the fast fallback does not lower the retries of
\* the two long purposes.
RetriesFor(purpose) ==
    CASE purpose = "file_manifest" -> Larger(EffectiveRetries, ManifestRetries)
      [] purpose = "plan_repo"     -> Larger(EffectiveRetries, PlanRetries)
      [] OTHER                     -> EffectiveRetries

PollMaxFor == IF FastFallbackActive THEN FastPollMax ELSE PollMax

Attempts == RetriesFor(config.purpose) + 1

MutantAllowsPartialFallback == config.allow_idea_aware_partial

AllowsPartialFallback ==
    /\ config.allow_idea_aware_partial
    /\ ~(config.purpose = "file_manifest" /\ config.require_live_file_manifest)

-----------------------------------------------------------------------------
(* What an exchange may come to.                                           *)

Retryable == {"truncated", "invalid_json", "schema", "http_504", "http_5xx",
              "timed_out", "request_failed", "stayed_pending"}
Final     == {"http_4xx", "not_json", "no_request_id", "no_content",
              "status_http", "async_failed"}
Failures  == Retryable \cup Final

\* Failures of a completion request, of a status request, and of the parsing
\* of the payload either returns.
PostFailures  == {"http_504", "http_5xx", "timed_out", "request_failed",
                  "http_4xx", "not_json", "no_request_id"}
PollFailures  == {"timed_out", "request_failed", "status_http", "not_json",
                  "async_failed"}
ParseFailures == {"truncated", "invalid_json", "schema", "no_content"}

NoResult == [mode |-> "none", reason |-> "none"]

TypeOK ==
    /\ config \in Configs
    /\ pc \in {"start", "post", "poll", "returned", "raised"}
    /\ attempt \in 0 .. Attempts - 1
    /\ effective_max_tokens \in Nat \ {0}
    /\ poll \in [attempt : 0 .. PollAttempts, elapsed : Nat]
    /\ result \in [mode : {"none", "live", "degraded"},
                   reason : Failures \cup {"none", "no_key"}]
    /\ exchange \in [posts : Nat, polls : Nat, clock : Nat, longest : Nat, asked : Nat,
                     last : Failures \cup {"none", "no_key", "answer"}]

-----------------------------------------------------------------------------
(* Steps of the client.                                                    *)

\* The budget after a truncated answer.
BumpMaxTokens(current) == Smaller(Larger(2 * current, current + 2), TokenCap)

MutantNextBudget(failure) ==
    IF failure = "truncated"
    THEN BumpMaxTokens(effective_max_tokens)
    ELSE effective_max_tokens

NextBudget(failure) ==
    IF failure = "truncated" /\ effective_max_tokens < TokenCap
    THEN BumpMaxTokens(effective_max_tokens)
    ELSE effective_max_tokens

\* Only a gateway timeout is followed by a pause.
Backoff(failure) ==
    IF failure # "http_504"
    THEN 0
    ELSE Smaller(IF config.purpose = "plan_repo" THEN PlanBackoffCap
                                                 ELSE BackoffCap,
                 2 ^ (attempt + 1))

Init ==
    /\ config \in Configs
    /\ pc = "start"
    /\ attempt = 0
    /\ effective_max_tokens \in TokenBudgets
    /\ poll = [attempt |-> 0, elapsed |-> 0]
    /\ result = NoResult
    /\ exchange = [posts |-> 0, polls |-> 0, clock |-> 0, longest |-> 0, asked |-> 0,
                   last |-> "none"]

\* What IdeaAwarePartialClient answers for every purpose.
DegradedAnswer(reason) == [mode |-> "degraded", reason |-> reason]

\* _idea_specific_partial, or the exception.
GiveUp(allowed, reason) ==
    IF allowed
    THEN /\ pc' = "returned"
         /\ result' = DegradedAnswer(reason)
    ELSE /\ pc' = "raised"
         /\ result' = [mode |-> "none", reason |-> reason]

\* complete_structured up to the first await.  Without a key the purpose is
\* not looked at: a manifest may be degraded even where a live one is
\* required, and its caller has to refuse it.
Start ==
    /\ pc = "start"
    /\ IF config.nvidia_configured
       THEN pc' = "post" /\ UNCHANGED <<result, exchange>>
       ELSE /\ GiveUp(config.allow_idea_aware_partial, "no_key")
            /\ exchange' = [exchange EXCEPT !.last = "no_key"]
    /\ UNCHANGED <<config, attempt, effective_max_tokens, poll>>

\* Whether a failure is followed by another attempt.
MutantMayRetry(failure) == failure \in Retryable /\ attempt + 2 < Attempts

MayRetry(failure) == failure \in Retryable /\ attempt + 1 < Attempts

\* An attempt fails, in whichever request: the except branches of
\* complete_structured.
Fail(failure, wire) ==
    /\ effective_max_tokens' = NextBudget(failure)
    /\ poll' = [attempt |-> 0, elapsed |-> 0]
    /\ IF MayRetry(failure)
       THEN /\ pc' = "post"
            /\ attempt' = attempt + 1
            /\ exchange' = [wire EXCEPT !.clock = @ + Backoff(failure),
                                        !.last = failure]
            /\ UNCHANGED result
       ELSE /\ GiveUp(AllowsPartialFallback, failure)
            /\ exchange' = [wire EXCEPT !.last = failure]
            /\ UNCHANGED attempt
    /\ UNCHANGED config

\* _parse_completion_payload accepts the payload.
Answer(wire) ==
    /\ pc' = "returned"
    /\ result' = [mode |-> "live", reason |-> "none"]
    /\ exchange' = [wire EXCEPT !.last = "answer"]
    /\ UNCHANGED <<config, attempt, effective_max_tokens, poll>>

\* _send_completion_request: one POST.  A request that is accepted is polled;
\* it is not withdrawn when the polling ends.
Post ==
    /\ pc = "post"
    /\ \E d \in Durations :
          LET wire == [exchange EXCEPT !.posts = @ + 1,
                                       !.clock = @ + d,
                                       !.longest = Larger(@, d),
                                       !.asked = effective_max_tokens]
          IN \/ Answer(wire)
             \/ \E f \in PostFailures \cup ParseFailures : Fail(f, wire)
             \/ /\ pc' = "poll"
                /\ exchange' = wire
                /\ UNCHANGED <<config, attempt, effective_max_tokens, poll,
                               result>>

\* The loop of _poll_status is over: no status request is left, or the
\* deadline has passed when the next one is due.
MutantPollIsOver == poll.attempt = PollAttempts

PollIsOver == poll.attempt = PollAttempts \/ poll.elapsed >= PollMaxFor

StayedPending ==
    /\ pc = "poll"
    /\ PollIsOver
    /\ Fail("stayed_pending", exchange)

\* One round of the loop: the pause, then the GET.  The deadline is not
\* looked at between the two.  A payload without content counts as pending.
PollStatus ==
    /\ pc = "poll"
    /\ ~PollIsOver
    /\ \E d \in Durations :
          LET spent == d + (IF poll.attempt > 0 THEN PollInterval ELSE 0)
              wire  == [exchange EXCEPT !.polls = @ + 1,
                                        !.clock = @ + spent,
                                        !.longest = Larger(@, d)]
          IN \/ Answer(wire)
             \/ \E f \in PollFailures \cup (ParseFailures \ {"no_content"}) :
                   Fail(f, wire)
             \/ /\ poll' = [attempt |-> poll.attempt + 1,
                             elapsed |-> poll.elapsed + spent]
                /\ exchange' = wire
                /\ UNCHANGED <<config, pc, attempt, effective_max_tokens,
                               result>>

\* The caller has its result.
Done ==
    /\ pc \in {"returned", "raised"}
    /\ UNCHANGED vars

Next == Start \/ Post \/ StayedPending \/ PollStatus \/ Done

Spec == Init /\ [][Next]_vars

-----------------------------------------------------------------------------
(* Properties.                                                             *)

Graph == INSTANCE Workflow WITH
    settings <- [mock_mode |-> FALSE,
                 nvidia_configured |-> config.nvidia_configured,
                 allow_idea_aware_partial |-> config.allow_idea_aware_partial,
                 require_live_file_manifest |-> config.require_live_file_manifest],
    node <- pc, state <- result, world <- exchange

\* What the build graph takes a model call to be is what this client does:
\* the mode of an answer, and whether there may be an exception, follow from
\* the settings alone whatever the endpoint did (the nodes of agent/workflow.py
\* decide on that whether a degraded result is acceptable).
GraphAssumption ==
    /\ pc = "returned" => result.mode \in Graph!ReturnedModes(config.purpose)
    /\ pc = "raised"   => Graph!ModelCallRaises(config.purpose)

\* The longest an attempt may take, of requests no longer than a given one:
\* the POST, the polling up to its deadline, and the pause and the GET that
\* were begun before the deadline.
AttemptTime(longest) == longest + PollMaxFor + PollInterval + longest

PauseTime ==
    IF config.purpose = "plan_repo" THEN PlanBackoffCap ELSE BackoffCap

\* However the endpoint delays, fails and half answers, a call ends within a
\* number of requests that the settings fix, and polling and retrying do not
\* multiply its delays: besides the budgets for polling and pauses an attempt
\* costs no more than two requests as slow as the slowest, and not one for
\* every time it may poll (complete_structured, the deadline of _poll_status).
\* What the slowest request takes no setting fixes.
BudgetIsKept ==
    /\ exchange.posts <= Attempts
    /\ exchange.polls <= exchange.posts * PollAttempts
    /\ exchange.clock <= exchange.posts * AttemptTime(exchange.longest)
                           + (Attempts - 1) * PauseTime

\* An attempt after a truncated answer asks for more tokens than that answer
\* had, unless it had the largest budget; no attempt asks for fewer than the
\* one before, also where the settings exceed the cap on the increase.
RetryAsksForMore ==
    [][exchange'.posts > exchange.posts =>
          /\ exchange'.asked >= exchange.asked
          /\ (exchange.last = "truncated" /\ exchange.asked < TokenCap)
                 => exchange'.asked > exchange.asked]_vars

\* A call with a key ends without a live answer only when it met a failure
\* that a retry cannot mend, or when every attempt was made; what it then
\* reports is the failure it met last and not an earlier one.
GivesUpOnlyWhenSpent ==
    (pc \in {"returned", "raised"} /\ result.mode # "live"
        /\ config.nvidia_configured) =>
        /\ exchange.last \in Final \/ exchange.posts = Attempts
        /\ result.reason = exchange.last

=============================================================================
