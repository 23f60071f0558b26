-------------------------- MODULE ModelClientProofs --------------------------
(* How long a call of the model client lasts and what it ends with, for every *)
(* number of retries, duration of a request, budget of tokens and pause.      *)
EXTENDS ModelClient, FiniteSetTheorems, TLAPS

\* How far the call is, in the words of the requests it made.
Progress ==
    /\ pc = "start" => attempt = 0 /\ exchange.posts = 0 /\ exchange.asked = 0
    /\ pc = "post"  => exchange.posts = attempt
    /\ pc = "poll"  => exchange.posts = attempt + 1
    /\ pc \in {"returned", "raised"} => exchange.posts \in {0, attempt + 1}
    /\ pc \in {"post", "poll"} => config.nvidia_configured
    /\ pc \in {"start", "post"} => poll.attempt = 0 /\ poll.elapsed = 0

\* Time of the attempt under way, of its POST and of its polling.
PollTime == exchange.longest + poll.elapsed

\* Status requests and time of the attempts made, and of the one under way.
Budget ==
    /\ exchange.polls <= exchange.posts * PollAttempts
                           - (IF pc = "poll" THEN PollAttempts - poll.attempt ELSE 0)
    /\ exchange.clock <= (IF pc = "poll"
                          THEN attempt * AttemptTime(exchange.longest) + PollTime
                          ELSE exchange.posts * AttemptTime(exchange.longest))
                           + attempt * PauseTime
    /\ pc = "poll" => PollTime <= AttemptTime(exchange.longest)

\* The request under way, or the next one, asks for no less than the last.
Asking ==
    /\ exchange.asked <= effective_max_tokens
    /\ (pc = "post" /\ exchange.last = "truncated" /\ exchange.asked < TokenCap)
           => exchange.asked < effective_max_tokens

IInv == TypeOK /\ Progress /\ Budget /\ Asking /\ GivesUpOnlyWhenSpent /\ GraphAssumption

-----------------------------------------------------------------------------
LEMMA PowerType == \A n \in Nat : 2 ^ n \in Nat
<1> SUFFICES ASSUME NEW n \in Nat PROVE 2 ^ n \in Nat
  OBVIOUS
<1>1. IsFiniteSet(1..n) /\ Cardinality(1..n) = n
  BY FS_Interval
<1>2. IsFiniteSet(SUBSET (1..n)) /\ Cardinality(SUBSET (1..n)) = 2 ^ n
  BY <1>1, FS_SUBSET
<1> QED
  BY <1>2, FS_CardinalityType

LEMMA Products == \A a, b \in Nat : (a + 1) * b = a * b + b /\ a * b \in Nat
OBVIOUS

\* The settings of a call are numbers.
LEMMA SettingTypes ==
    ASSUME config \in Configs
    PROVE  /\ Attempts \in Nat \ {0}
           /\ PollMaxFor \in Nat \ {0} /\ PauseTime \in Nat
           /\ \A n \in Nat : /\ AttemptTime(n) \in Nat
                              /\ AttemptTime(n) = n + PollMaxFor + PollInterval + n
BY ClientAssumption DEF Attempts, RetriesFor, EffectiveRetries, Larger, PollMaxFor,
   AttemptTime, PauseTime

\* The settings do not change during a call.
LEMMA SettingsStay ==
    ASSUME config' = config
    PROVE  /\ Attempts' = Attempts /\ PauseTime' = PauseTime
           /\ PollMaxFor' = PollMaxFor
           /\ \A n : AttemptTime(n)' = AttemptTime(n)
BY DEF Attempts, RetriesFor, EffectiveRetries, FastFallbackActive, AttemptTime,
   PollMaxFor, PauseTime

\* Slower requests cost every attempt more.
LEMMA SlowerCostsMore ==
    ASSUME config \in Configs, NEW a \in Nat, NEW m \in Nat, NEW n \in Nat, m <= n
    PROVE  /\ a * AttemptTime(m) \in Nat
           /\ a * AttemptTime(m) <= a * AttemptTime(n)
<1>. PICK b \in Nat, c \in Nat, k \in Nat :
        b = AttemptTime(m) /\ c = AttemptTime(n) /\ k = 2 * (n - m)
  BY SettingTypes
<1>1. c = b + k
  BY SettingTypes, ClientAssumption
<1>2. a * (b + k) = a * b + a * k /\ a * b \in Nat /\ a * k \in Nat
  OBVIOUS
<1> QED
  BY <1>1, <1>2

LEMMA BackoffType ==
    ASSUME config \in Configs, attempt \in Nat, NEW failure
    PROVE  Backoff(failure) \in 0 .. PauseTime
<1>. PICK k : k = 2 ^ (attempt + 1)
  OBVIOUS
<1>1. k \in Nat
  <2>1. attempt + 1 \in Nat
    OBVIOUS
  <2> QED
    BY <2>1, PowerType
<1>2. PauseTime \in Nat
  BY SettingTypes
<1>3. Backoff(failure) \in {0, Smaller(PauseTime, k)}
  BY DEF Backoff, PauseTime
<1> QED
  BY <1>1, <1>2, <1>3 DEF Smaller

LEMMA BudgetType ==
    ASSUME effective_max_tokens \in Nat \ {0}, NEW failure
    PROVE  /\ NextBudget(failure) \in Nat \ {0}
           /\ NextBudget(failure) >= effective_max_tokens
           /\ failure = "truncated" /\ effective_max_tokens < TokenCap =>
                 NextBudget(failure) > effective_max_tokens
<1>. PICK n \in Nat \ {0} : n = effective_max_tokens
  OBVIOUS
<1>1. TokenCap \in Nat
  BY ClientAssumption
<1> QED
  BY <1>1 DEF NextBudget, BumpMaxTokens, Smaller, Larger

LEMMA InitIInv == Init => IInv
<1> SUFFICES ASSUME Init PROVE IInv
  OBVIOUS
<1>1. config \in Configs /\ effective_max_tokens \in Nat \ {0}
  BY ClientAssumption DEF Init
<1>2. /\ Attempts \in Nat \ {0} /\ AttemptTime(0) \in Nat /\ PauseTime \in Nat
      /\ PollAttempts \in Nat \ {0}
  BY <1>1, SettingTypes, ClientAssumption
<1>3. TypeOK
  BY <1>1, <1>2 DEF Init, TypeOK, NoResult
<1>4. Progress /\ Asking /\ GivesUpOnlyWhenSpent /\ GraphAssumption
  BY <1>1 DEF Init, Progress, Asking, GivesUpOnlyWhenSpent, GraphAssumption
<1>5. Budget
  BY <1>2 DEF Init, Budget
<1> QED
  BY <1>3, <1>4, <1>5 DEF IInv

-----------------------------------------------------------------------------
(* What goes over the wire.                                                *)

Exchanges == [posts : Nat, polls : Nat, clock : Nat, longest : Nat, asked : Nat,
              last : Failures \cup {"none", "no_key", "answer"}]

Posted(x, d, n)  == [x EXCEPT !.posts = @ + 1, !.clock = @ + d,
                              !.longest = Larger(@, d), !.asked = n]
Polled(x, s, d)  == [x EXCEPT !.polls = @ + 1, !.clock = @ + s,
                              !.longest = Larger(@, d)]
Ended(x, f)      == [x EXCEPT !.last = f]
Retried(x, b, f) == [x EXCEPT !.clock = @ + b, !.last = f]

LEMMA WireTypes ==
    ASSUME NEW x \in Exchanges, NEW d \in Nat, NEW s \in Nat, NEW n \in Nat,
           NEW f \in Failures \cup {"none", "no_key", "answer"}
    PROVE  /\ Posted(x, d, n) \in Exchanges
           /\ Posted(x, d, n).posts = x.posts + 1
           /\ Posted(x, d, n).polls = x.polls
           /\ Posted(x, d, n).clock = x.clock + d
           /\ Posted(x, d, n).longest = Larger(x.longest, d)
           /\ Posted(x, d, n).asked = n
           /\ Posted(x, d, n).last = x.last
           /\ Polled(x, s, d) \in Exchanges
           /\ Polled(x, s, d).posts = x.posts
           /\ Polled(x, s, d).polls = x.polls + 1
           /\ Polled(x, s, d).clock = x.clock + s
           /\ Polled(x, s, d).longest = Larger(x.longest, d)
           /\ Polled(x, s, d).asked = x.asked
           /\ Polled(x, s, d).last = x.last
           /\ Ended(x, f) \in Exchanges
           /\ Ended(x, f).posts = x.posts
           /\ Ended(x, f).polls = x.polls
           /\ Ended(x, f).clock = x.clock
           /\ Ended(x, f).longest = x.longest
           /\ Ended(x, f).asked = x.asked
           /\ Ended(x, f).last = f
           /\ Retried(x, d, f) \in Exchanges
           /\ Retried(x, d, f).posts = x.posts
           /\ Retried(x, d, f).polls = x.polls
           /\ Retried(x, d, f).clock = x.clock + d
           /\ Retried(x, d, f).longest = x.longest
           /\ Retried(x, d, f).asked = x.asked
           /\ Retried(x, d, f).last = f
<1>1. /\ x.posts \in Nat /\ x.polls \in Nat /\ x.clock \in Nat /\ x.asked \in Nat
      /\ x.longest \in Nat
      /\ x = [posts |-> x.posts, polls |-> x.polls, clock |-> x.clock,
              longest |-> x.longest, asked |-> x.asked, last |-> x.last]
      /\ x.last \in Failures \cup {"none", "no_key", "answer"}
  BY DEF Exchanges
<1>. PICK p \in Nat, q \in Nat, c \in Nat, e \in Nat, l \in Nat :
        /\ p = x.posts + 1 /\ q = x.polls + 1 /\ c = x.clock + d /\ e = x.clock + s
        /\ l = Larger(x.longest, d)
  BY <1>1 DEF Larger
<1>2. Posted(x, d, n) = [posts |-> x.posts + 1, polls |-> x.polls, clock |-> x.clock + d,
                         longest |-> l, asked |-> n, last |-> x.last]
  <2>1. Posted(x, d, n) = [x EXCEPT !.posts = p, !.clock = c, !.longest = l, !.asked = n]
    BY DEF Posted
  <2> QED
    BY <1>1, <2>1
<1>3. Polled(x, s, d) = [posts |-> x.posts, polls |-> x.polls + 1, clock |-> x.clock + s,
                         longest |-> l, asked |-> x.asked, last |-> x.last]
  <2>1. Polled(x, s, d) = [x EXCEPT !.polls = q, !.clock = e, !.longest = l]
    BY DEF Polled
  <2> QED
    BY <1>1, <2>1
<1>4. Ended(x, f) = [posts |-> x.posts, polls |-> x.polls, clock |-> x.clock,
                     longest |-> x.longest, asked |-> x.asked, last |-> f]
  BY <1>1 DEF Ended
<1>5. Retried(x, d, f) = [posts |-> x.posts, polls |-> x.polls, clock |-> x.clock + d,
                          longest |-> x.longest, asked |-> x.asked, last |-> f]
  <2>1. Retried(x, d, f) = [x EXCEPT !.clock = c, !.last = f]
    BY DEF Retried
  <2> QED
    BY <1>1, <2>1
<1> QED
  BY <1>1, <1>2, <1>3, <1>4, <1>5 DEF Exchanges

\* An attempt that ends with this on the wire has kept its budget.
WireOK(wire) ==
    /\ wire \in Exchanges
    /\ wire.posts = attempt + 1
    /\ wire.polls <= (attempt + 1) * PollAttempts
    /\ wire.clock <= (attempt + 1) * AttemptTime(wire.longest) + attempt * PauseTime
    /\ wire.asked <= effective_max_tokens

\* How a call ends.
LEMMA EndStep ==
    ASSUME IInv, pc \in {"post", "poll"}, NEW wire \in Exchanges, WireOK(wire),
           NEW n \in Nat \ {0}, n >= effective_max_tokens,
           NEW f \in Failures \cup {"answer"}, NEW mode \in {"none", "live", "degraded"},
           exchange' = Ended(wire, f),
           effective_max_tokens' = n,
           poll' \in [attempt : 0 .. PollAttempts, elapsed : Nat],
           UNCHANGED <<config, attempt>>,
           result' = [mode |-> mode, reason |-> IF f = "answer" THEN "none" ELSE f],
           f = "answer" <=> mode = "live",
           \/ pc' = "returned" /\ (mode = "live" \/ (mode = "degraded" /\ AllowsPartialFallback))
           \/ pc' = "raised" /\ mode = "none" /\ ~AllowsPartialFallback,
           f \in Retryable => attempt + 1 = Attempts
    PROVE  IInv'
<1>. PICK a \in Nat, x \in Exchanges : a = attempt /\ x = exchange'
  <2>1. f \in Failures \cup {"none", "no_key", "answer"} /\ 0 \in Nat
    OBVIOUS
  <2>2. Ended(wire, f) \in Exchanges
    BY ONLY wire \in Exchanges, <2>1, WireTypes
  <2> QED
    BY <2>2 DEF IInv, TypeOK
<1>1. x.posts = wire.posts /\ x.polls = wire.polls /\ x.clock = wire.clock
      /\ x.longest = wire.longest /\ x.asked = wire.asked /\ x.last = f
  <2>1. f \in Failures \cup {"none", "no_key", "answer"} /\ 0 \in Nat
    OBVIOUS
  <2>2. /\ Ended(wire, f).posts = wire.posts
        /\ Ended(wire, f).polls = wire.polls
        /\ Ended(wire, f).clock = wire.clock
        /\ Ended(wire, f).longest = wire.longest
        /\ Ended(wire, f).asked = wire.asked
        /\ Ended(wire, f).last = f
    BY ONLY wire \in Exchanges, <2>1, WireTypes
  <2> QED
    BY <2>2
<1>2. /\ Attempts' = Attempts /\ PauseTime' = PauseTime
      /\ AttemptTime(x.longest)' = AttemptTime(x.longest)
      /\ Attempts \in Nat \ {0} /\ PauseTime \in Nat
      /\ x.longest \in Nat /\ AttemptTime(x.longest) \in Nat
      /\ config \in Configs
  <2>1. config \in Configs /\ x.longest \in Nat
    BY DEF IInv, TypeOK, Exchanges
  <2> QED
    BY <2>1, SettingTypes, SettingsStay
<1>3. pc' \in {"returned", "raised"}
  OBVIOUS
<1>4. TypeOK'
  BY <1>2, <1>3 DEF IInv, TypeOK, Exchanges
<1>5. Progress'
  BY <1>1, <1>3 DEF Progress, WireOK
<1>6. Budget'
  <2>. PICK t \in Nat : t = AttemptTime(x.longest)
    BY <1>2
  <2>. PICK p1 \in Nat, p2 \in Nat, p3 \in Nat :
          p1 = (a + 1) * PollAttempts /\ p2 = (a + 1) * t /\ p3 = a * PauseTime
    <3>1. PollAttempts \in Nat
      BY ClientAssumption
    <3> QED
      BY <1>2, <3>1, Products
  <2>1. x.polls <= p1 /\ x.clock <= p2 + p3 /\ x.posts = a + 1
    BY <1>1 DEF WireOK
  <2>2. x.polls \in Nat /\ x.clock \in Nat
    BY DEF Exchanges
  <2> QED
    BY <1>2, <1>3, <2>1, <2>2 DEF Budget
<1>7. Asking'
  BY <1>1, <1>3 DEF Asking, WireOK, IInv, TypeOK, Exchanges
<1>8. GivesUpOnlyWhenSpent'
  <2>1. result'.mode # "live" => f \in Failures /\ result'.reason = f
    OBVIOUS
  <2> QED
    BY <1>1, <1>2, <2>1 DEF GivesUpOnlyWhenSpent, WireOK, Failures
<1>9. GraphAssumption'
  <2>1. config.nvidia_configured
    BY DEF IInv, Progress
  <2>2. result'.mode = mode
    OBVIOUS
  <2> QED
    BY <2>1, <2>2 DEF GraphAssumption, Graph!ReturnedModes, Graph!ModelCallRaises,
       Graph!AllowsPartialFallback, AllowsPartialFallback
<1> QED
  BY <1>4, <1>5, <1>6, <1>7, <1>8, <1>9 DEF IInv

\* An attempt that failed ends the call, or starts the next attempt.
LEMMA FailStep ==
    ASSUME IInv, pc \in {"post", "poll"}, NEW wire \in Exchanges, WireOK(wire),
           NEW f \in Failures, Fail(f, wire)
    PROVE  IInv'
<1>. PICK a \in Nat, n \in Nat \ {0}, m \in Nat \ {0} :
        a = attempt /\ n = effective_max_tokens /\ m = NextBudget(f)
  BY BudgetType DEF IInv, TypeOK
<1>1. m >= n /\ (f = "truncated" /\ n < TokenCap => m > n)
  BY BudgetType
<1>2. config \in Configs
  BY DEF IInv, TypeOK
<1>3. poll' = [attempt |-> 0, elapsed |-> 0]
      /\ poll' \in [attempt : 0 .. PollAttempts, elapsed : Nat]
  BY ClientAssumption DEF Fail
<1>4. CASE ~MayRetry(f)
  <2>. PICK mode \in {"none", "degraded"} :
          mode = IF AllowsPartialFallback THEN "degraded" ELSE "none"
    OBVIOUS
  <2>1. /\ exchange' = Ended(wire, f)
        /\ effective_max_tokens' = m
        /\ UNCHANGED <<config, attempt>>
        /\ result' = [mode |-> mode, reason |-> f]
        /\ \/ pc' = "returned" /\ mode = "degraded" /\ AllowsPartialFallback
           \/ pc' = "raised" /\ mode = "none" /\ ~AllowsPartialFallback
    BY <1>4 DEF Fail, GiveUp, DegradedAnswer, Ended
  <2>2. f # "answer"
    BY DEF Failures, Retryable, Final
  <2>3. f \in Retryable => attempt + 1 = Attempts
    <3>1. Attempts \in Nat /\ a \in 0 .. Attempts - 1
      BY <1>2, SettingTypes DEF IInv, TypeOK
    <3> QED
      BY <1>4, <3>1 DEF MayRetry
  <2>4. mode \in {"none", "live", "degraded"} /\ mode # "live" /\ f \in Failures \cup {"answer"}
    OBVIOUS
  <2>5. result' = [mode |-> mode, reason |-> IF f = "answer" THEN "none" ELSE f]
    BY <2>1, <2>2
  <2>6. f = "answer" <=> mode = "live"
    BY <2>2, <2>4
  <2>7. m >= effective_max_tokens
    BY <1>1
  <2> QED
    BY <1>3, <2>1, <2>3, <2>4, <2>5, <2>6, <2>7, EndStep
<1>5. CASE MayRetry(f)
  <2>. PICK b \in Nat : b = Backoff(f) /\ b <= PauseTime
    BY <1>2, BackoffType, SettingTypes
  <2>1. /\ exchange' = Retried(wire, b, f)
        /\ effective_max_tokens' = m
        /\ UNCHANGED <<config, result>>
        /\ attempt' = a + 1
        /\ pc' = "post"
    BY <1>5 DEF Fail, Retried
  <2>2. /\ Retried(wire, b, f) \in Exchanges
        /\ Retried(wire, b, f).posts = wire.posts
        /\ Retried(wire, b, f).polls = wire.polls
        /\ Retried(wire, b, f).clock = wire.clock + b
        /\ Retried(wire, b, f).longest = wire.longest
        /\ Retried(wire, b, f).asked = wire.asked
        /\ Retried(wire, b, f).last = f
    <3>1. f \in Failures \cup {"none", "no_key", "answer"} /\ 0 \in Nat
      OBVIOUS
    <3> QED
      BY ONLY wire \in Exchanges, b \in Nat, <3>1, WireTypes
  <2>. PICK x \in Exchanges : x = exchange'
    BY <2>1, <2>2
  <2>3. /\ x.posts = wire.posts /\ x.polls = wire.polls /\ x.clock = wire.clock + b
        /\ x.longest = wire.longest /\ x.asked = wire.asked /\ x.last = f
    BY <2>1, <2>2
  <2>4. /\ Attempts' = Attempts /\ PauseTime' = PauseTime
        /\ AttemptTime(x.longest)' = AttemptTime(x.longest)
        /\ Attempts \in Nat \ {0} /\ PauseTime \in Nat
        /\ x.longest \in Nat /\ AttemptTime(x.longest) \in Nat
    <3>1. x.longest \in Nat
      BY DEF Exchanges
    <3> QED
      BY <1>2, <2>1, <3>1, SettingTypes, SettingsStay
  <2>5. TypeOK'
    <3>1. a + 1 \in 0 .. Attempts - 1
      BY <1>5, <2>4 DEF MayRetry
    <3>2. exchange' \in [posts : Nat, polls : Nat, clock : Nat, longest : Nat,
                         asked : Nat, last : Failures \cup {"none", "no_key", "answer"}]
      BY <2>1, <2>2 DEF Exchanges
    <3> QED
      BY <1>3, <2>1, <2>4, <3>1, <3>2 DEF IInv, TypeOK
  <2>6. Progress'
    <3>1. poll'.attempt = 0 /\ poll'.elapsed = 0
      BY <1>3
    <3> QED
      BY <2>1, <2>3, <3>1 DEF Progress, WireOK, IInv
  <2>7. Budget'
    <3>. PICK t \in Nat : t = AttemptTime(x.longest)
      BY <2>4
    <3>. PICK p1 \in Nat, p2 \in Nat, p3 \in Nat :
            p1 = (a + 1) * PollAttempts /\ p2 = (a + 1) * t /\ p3 = a * PauseTime
      <4>1. PollAttempts \in Nat
        BY ClientAssumption
      <4> QED
        BY <2>4, <4>1, Products
    <3>1. (a + 1) * PauseTime = p3 + PauseTime
      BY <2>4, Products
    <3>2. x.polls <= p1 /\ x.clock <= p2 + p3 + b /\ x.posts = a + 1
      BY <2>3 DEF WireOK, Exchanges
    <3>3. x.polls \in Nat /\ x.clock \in Nat
      BY DEF Exchanges
    <3>4. x.clock <= p2 + (a + 1) * PauseTime
      BY <2>4, <3>1, <3>2, <3>3
    <3> QED
      BY <2>1, <2>4, <3>2, <3>3, <3>4 DEF Budget
  <2>8. Asking'
    <3>1. wire.asked \in Nat /\ wire.asked <= n /\ TokenCap \in Nat
      BY ClientAssumption DEF WireOK, Exchanges
    <3> QED
      BY <1>1, <2>1, <2>3, <3>1 DEF Asking
  <2>9. GivesUpOnlyWhenSpent' /\ GraphAssumption'
    BY <2>1 DEF GivesUpOnlyWhenSpent, GraphAssumption
  <2> QED
    BY <2>5, <2>6, <2>7, <2>8, <2>9 DEF IInv
<1> QED
  BY <1>4, <1>5

LEMMA AnswerStep ==
    ASSUME IInv, pc \in {"post", "poll"}, NEW wire \in Exchanges, WireOK(wire), Answer(wire)
    PROVE  IInv'
<1>. PICK n \in Nat \ {0} : n = effective_max_tokens
  BY DEF IInv, TypeOK
<1>. PICK f \in Failures \cup {"answer"} : f = "answer"
  OBVIOUS
<1>. PICK mode \in {"none", "live", "degraded"} : mode = "live"
  OBVIOUS
<1>1. /\ exchange' = Ended(wire, f)
      /\ effective_max_tokens' = n
      /\ UNCHANGED <<config, attempt>>
      /\ poll' \in [attempt : 0 .. PollAttempts, elapsed : Nat]
      /\ result' = [mode |-> mode, reason |-> IF f = "answer" THEN "none" ELSE f]
      /\ pc' = "returned"
  BY DEF Answer, Ended, IInv, TypeOK
<1>2. f \notin Retryable
  BY DEF Retryable
<1>3. n >= effective_max_tokens /\ (f = "answer" <=> mode = "live")
  OBVIOUS
<1>4. \/ pc' = "returned" /\ (mode = "live" \/ (mode = "degraded" /\ AllowsPartialFallback))
      \/ pc' = "raised" /\ mode = "none" /\ ~AllowsPartialFallback
  BY <1>1
<1>5. f \in Retryable => attempt + 1 = Attempts
  BY <1>2
<1> QED
  BY <1>1, <1>3, <1>4, <1>5, EndStep

LEMMA StartStep ==
    ASSUME IInv, Start
    PROVE  IInv'
<1>1. config \in Configs /\ attempt = 0 /\ exchange.posts = 0 /\ exchange \in Exchanges
  BY DEF IInv, TypeOK, Progress, Start, Exchanges
<1>2. /\ Attempts' = Attempts /\ PauseTime' = PauseTime
      /\ AttemptTime(exchange.longest)' = AttemptTime(exchange'.longest)
      /\ Attempts \in Nat \ {0} /\ PauseTime \in Nat
      /\ \A k \in Nat : AttemptTime(k) \in Nat
  BY <1>1, SettingTypes, SettingsStay DEF Start
<1>. PICK b : b = IF config.nvidia_configured THEN exchange.last ELSE "no_key"
  OBVIOUS
<1>3. exchange' = Ended(exchange, b)
  <2>1. CASE config.nvidia_configured
    BY <1>1, <2>1 DEF Start, Ended, Exchanges
  <2>2. CASE ~config.nvidia_configured
    BY <2>2 DEF Start, Ended
  <2> QED
    BY <2>1, <2>2
<1>. PICK x \in Exchanges : x = exchange
  BY <1>1
<1>4. b \in Failures \cup {"none", "no_key", "answer"}
  BY <1>1 DEF Exchanges
<1>5. /\ Ended(x, b) \in Exchanges
      /\ Ended(x, b).posts = x.posts
      /\ Ended(x, b).polls = x.polls
      /\ Ended(x, b).clock = x.clock
      /\ Ended(x, b).longest = x.longest
      /\ Ended(x, b).asked = x.asked
      /\ Ended(x, b).last = b
  <2>1. 0 \in Nat
    OBVIOUS
  <2> QED
    BY ONLY x \in Exchanges, <1>4, <2>1, WireTypes
<1>6. /\ pc' \in {"post", "returned", "raised"}
      /\ pc' = "post" => config.nvidia_configured /\ UNCHANGED result
      /\ pc' # "post" =>
           /\ ~config.nvidia_configured
           /\ \/ /\ pc' = "returned" /\ config.allow_idea_aware_partial
                 /\ result' = [mode |-> "degraded", reason |-> "no_key"]
              \/ /\ pc' = "raised" /\ ~config.allow_idea_aware_partial
                 /\ result' = [mode |-> "none", reason |-> "no_key"]
      /\ UNCHANGED <<config, attempt, effective_max_tokens, poll>>
  BY DEF Start, GiveUp, DegradedAnswer
<1>7. TypeOK'
  BY <1>2, <1>3, <1>5, <1>6 DEF IInv, TypeOK, Exchanges
<1>8. Progress'
  <2>1. poll.attempt = 0 /\ poll.elapsed = 0
    BY DEF IInv, Progress, Start
  <2> QED
    BY <1>1, <1>3, <1>5, <1>6, <2>1 DEF Progress
<1>9. Budget'
  BY <1>1, <1>2, <1>3, <1>5, <1>6, ClientAssumption DEF Budget, IInv, Start, Exchanges
<1>10. Asking'
  <2>1. exchange.asked = 0
    BY DEF IInv, Progress, Start
  <2> QED
    BY <1>3, <1>5, <1>6, <2>1 DEF Asking, IInv, TypeOK
<1>11. GivesUpOnlyWhenSpent'
  BY <1>6 DEF GivesUpOnlyWhenSpent
<1>12. GraphAssumption'
  BY <1>6 DEF GraphAssumption, Graph!ReturnedModes, Graph!ModelCallRaises
<1> QED
  BY <1>7, <1>8, <1>9, <1>10, <1>11, <1>12 DEF IInv

LEMMA PostStep ==
    ASSUME IInv, Post
    PROVE  IInv'
<1>1. config \in Configs /\ exchange \in Exchanges
  BY DEF IInv, TypeOK, Exchanges
<1>2. PauseTime \in Nat /\ \A k \in Nat : AttemptTime(k) \in Nat /\ k <= AttemptTime(k)
  BY <1>1, SettingTypes, ClientAssumption
<1>. PICK a \in Nat, n \in Nat \ {0}, x \in Exchanges :
        a = attempt /\ n = effective_max_tokens /\ x = exchange
  BY <1>1 DEF IInv, TypeOK
<1>. PICK d \in Nat :
        LET wire == [exchange EXCEPT !.posts = @ + 1, !.clock = @ + d,
                                     !.longest = Larger(@, d),
                                     !.asked = effective_max_tokens]
        IN  \/ Answer(wire)
            \/ \E f \in PostFailures \cup ParseFailures : Fail(f, wire)
            \/ /\ pc' = "poll"
               /\ exchange' = wire
               /\ UNCHANGED <<config, attempt, effective_max_tokens, poll, result>>
  BY ClientAssumption DEF Post
<1>. PICK wire : wire = Posted(x, d, n)
  OBVIOUS
<1>3. \/ Answer(wire)
      \/ \E f \in PostFailures \cup ParseFailures : Fail(f, wire)
      \/ /\ pc' = "poll"
         /\ exchange' = wire
         /\ UNCHANGED <<config, attempt, effective_max_tokens, poll, result>>
  BY DEF Posted
<1>4. /\ wire \in Exchanges
      /\ wire.posts = x.posts + 1
      /\ wire.polls = x.polls
      /\ wire.clock = x.clock + d
      /\ wire.longest = Larger(x.longest, d)
      /\ wire.asked = n
  <2>1. n \in Nat /\ "none" \in Failures \cup {"none", "no_key", "answer"}
    OBVIOUS
  <2>2. /\ Posted(x, d, n) \in Exchanges
        /\ Posted(x, d, n).posts = x.posts + 1
        /\ Posted(x, d, n).polls = x.polls
        /\ Posted(x, d, n).clock = x.clock + d
        /\ Posted(x, d, n).longest = Larger(x.longest, d)
        /\ Posted(x, d, n).asked = n
    BY ONLY x \in Exchanges, d \in Nat, <2>1, WireTypes
  <2> QED
    BY <2>2
<1>5. pc = "post" /\ x.posts = a
  BY DEF Post, IInv, Progress
<1>. PICK l \in Nat, m \in Nat :
        l = x.longest /\ m = wire.longest /\ l <= m /\ d <= m
  BY <1>4 DEF Exchanges, Larger
<1>. PICK t \in Nat : t = AttemptTime(m) /\ m <= t
  BY <1>2
<1>. PICK p1 \in Nat, p2 \in Nat, p3 \in Nat :
        p1 = a * PollAttempts /\ p2 = a * t /\ p3 = a * PauseTime
  <2>1. PollAttempts \in Nat
    BY ClientAssumption
  <2> QED
    BY <1>2, <2>1, Products
<1>6. /\ (a + 1) * PollAttempts = p1 + PollAttempts
      /\ (a + 1) * t = p2 + t
  BY ClientAssumption, Products
<1>7. x.polls <= p1 /\ x.clock <= p2 + p3 /\ x.polls \in Nat /\ x.clock \in Nat
  <2>1. x.clock <= a * AttemptTime(l) + p3 /\ x.polls <= p1
        /\ x.polls \in Nat /\ x.clock \in Nat
    BY <1>5 DEF IInv, Budget, Exchanges
  <2>2. a * AttemptTime(l) \in Nat /\ a * AttemptTime(l) <= p2
    BY <1>1, SlowerCostsMore
  <2> QED
    BY <2>1, <2>2
<1>8. WireOK(wire)
  BY <1>2, <1>4, <1>5, <1>6, <1>7, ClientAssumption DEF WireOK
<1>9. CASE Answer(wire)
  BY <1>4, <1>5, <1>8, <1>9, AnswerStep
<1>10. CASE \E f \in PostFailures \cup ParseFailures : Fail(f, wire)
  <2>1. PostFailures \cup ParseFailures \subseteq Failures
    BY DEF PostFailures, ParseFailures, Failures, Retryable, Final
  <2> QED
    BY <1>4, <1>5, <1>8, <1>10, <2>1, FailStep
<1>11. CASE /\ pc' = "poll"
            /\ exchange' = wire
            /\ UNCHANGED <<config, attempt, effective_max_tokens, poll, result>>
  <2>1. Attempts' = Attempts /\ PauseTime' = PauseTime /\ AttemptTime(m)' = t
    BY <1>11, SettingsStay
  <2>2. TypeOK'
    BY <1>4, <1>11, <2>1 DEF IInv, TypeOK, Exchanges
  <2>3. Progress'
    BY <1>4, <1>5, <1>11 DEF IInv, Progress
  <2>4. Budget'
    <3>. PICK pa \in 0 .. PollAttempts, pe \in Nat : pa = poll.attempt /\ pe = poll.elapsed
      BY DEF IInv, TypeOK
    <3>1. pa = 0 /\ pe = 0
      BY <1>5 DEF IInv, Progress
    <3>2. x.posts + 1 = a + 1 /\ AttemptTime(exchange.longest)' = t
      BY <1>5, <1>11, <2>1
    <3> QED
      BY <1>2, <1>4, <1>6, <1>7, <1>11, <2>1, <3>1, <3>2, ClientAssumption
         DEF Budget, PollTime
  <2>5. Asking'
    BY <1>4, <1>11 DEF Asking
  <2>6. GivesUpOnlyWhenSpent' /\ GraphAssumption'
    BY <1>11 DEF GivesUpOnlyWhenSpent, GraphAssumption
  <2> QED
    BY <2>2, <2>3, <2>4, <2>5, <2>6 DEF IInv
<1> QED
  BY <1>3, <1>9, <1>10, <1>11

LEMMA PollStatusStep ==
    ASSUME IInv, PollStatus
    PROVE  IInv'
<1>1. config \in Configs /\ exchange \in Exchanges
  BY DEF IInv, TypeOK, Exchanges
<1>2. /\ PauseTime \in Nat
      /\ PollMaxFor \in Nat /\ PollInterval \in Nat /\ PollAttempts \in Nat
      /\ \A k \in Nat : AttemptTime(k) = k + PollMaxFor + PollInterval + k
  BY <1>1, SettingTypes, ClientAssumption
<1>. PICK a \in Nat, x \in Exchanges, pa \in 0 .. PollAttempts, pe \in Nat :
        a = attempt /\ x = exchange /\ pa = poll.attempt /\ pe = poll.elapsed
  BY <1>1 DEF IInv, TypeOK
<1>3. pc = "poll" /\ pa < PollAttempts /\ pe < PollMaxFor
  BY <1>2 DEF PollStatus, PollIsOver
<1>. PICK d \in Nat :
        LET spent == d + (IF poll.attempt > 0 THEN PollInterval ELSE 0)
            wire  == [exchange EXCEPT !.polls = @ + 1, !.clock = @ + spent,
                                      !.longest = Larger(@, d)]
        IN  \/ Answer(wire)
            \/ \E f \in PollFailures \cup (ParseFailures \ {"no_content"}) : Fail(f, wire)
            \/ /\ poll' = [attempt |-> poll.attempt + 1, elapsed |-> poll.elapsed + spent]
               /\ exchange' = wire
               /\ UNCHANGED <<config, pc, attempt, effective_max_tokens, result>>
  BY ClientAssumption DEF PollStatus
<1>. PICK s \in Nat : s = d + (IF poll.attempt > 0 THEN PollInterval ELSE 0)
  BY <1>2
<1>. PICK wire : wire = Polled(x, s, d)
  OBVIOUS
<1>4. \/ Answer(wire)
      \/ \E f \in PollFailures \cup (ParseFailures \ {"no_content"}) : Fail(f, wire)
      \/ /\ poll' = [attempt |-> pa + 1, elapsed |-> pe + s]
         /\ exchange' = wire
         /\ UNCHANGED <<config, pc, attempt, effective_max_tokens, result>>
  BY DEF Polled
<1>5. /\ wire \in Exchanges
      /\ wire.posts = x.posts
      /\ wire.polls = x.polls + 1
      /\ wire.clock = x.clock + s
      /\ wire.longest = Larger(x.longest, d)
      /\ wire.asked = x.asked
  <2>1. 0 \in Nat /\ "none" \in Failures \cup {"none", "no_key", "answer"}
    OBVIOUS
  <2>2. /\ Polled(x, s, d) \in Exchanges
        /\ Polled(x, s, d).posts = x.posts
        /\ Polled(x, s, d).polls = x.polls + 1
        /\ Polled(x, s, d).clock = x.clock + s
        /\ Polled(x, s, d).longest = Larger(x.longest, d)
        /\ Polled(x, s, d).asked = x.asked
    BY ONLY x \in Exchanges, s \in Nat, d \in Nat, <2>1, WireTypes
  <2> QED
    BY <2>2
<1>6. x.posts = a + 1 /\ x.asked <= effective_max_tokens
  BY <1>3 DEF IInv, Progress, Asking
<1>. PICK l \in Nat, m \in Nat :
        l = x.longest /\ m = wire.longest /\ l <= m /\ d <= m
  BY <1>5 DEF Exchanges, Larger
<1>. PICK t \in Nat : t = AttemptTime(m) /\ t = m + PollMaxFor + PollInterval + m
  BY <1>2
<1>. PICK p1 \in Nat, p2 \in Nat, p3 \in Nat :
        p1 = (a + 1) * PollAttempts /\ p2 = a * t /\ p3 = a * PauseTime
  BY <1>2, Products
<1>7. /\ x.polls <= p1 - (PollAttempts - pa)
      /\ x.clock <= p2 + (m + pe) + p3
      /\ x.polls \in Nat /\ x.clock \in Nat
  <2>1. /\ x.polls <= p1 - (PollAttempts - pa)
        /\ x.clock <= a * AttemptTime(l) + (l + pe) + p3
        /\ x.polls \in Nat /\ x.clock \in Nat
    BY <1>3, <1>6 DEF IInv, Budget, PollTime, Exchanges
  <2>2. a * AttemptTime(l) \in Nat /\ a * AttemptTime(l) <= p2
    BY <1>1, SlowerCostsMore
  <2> QED
    BY <2>1, <2>2
<1>8. s <= m + PollInterval /\ (a + 1) * t = p2 + t
  BY <1>2, Products
<1>9. WireOK(wire)
  BY <1>2, <1>3, <1>5, <1>6, <1>7, <1>8 DEF WireOK
<1>10. CASE Answer(wire)
  BY <1>3, <1>5, <1>9, <1>10, AnswerStep
<1>11. CASE \E f \in PollFailures \cup (ParseFailures \ {"no_content"}) : Fail(f, wire)
  <2>1. PollFailures \cup ParseFailures \subseteq Failures
    BY DEF PollFailures, ParseFailures, Failures, Retryable, Final
  <2> QED
    BY <1>3, <1>5, <1>9, <1>11, <2>1, FailStep
<1>12. CASE /\ poll' = [attempt |-> pa + 1, elapsed |-> pe + s]
            /\ exchange' = wire
            /\ UNCHANGED <<config, pc, attempt, effective_max_tokens, result>>
  <2>1. Attempts' = Attempts /\ PauseTime' = PauseTime /\ AttemptTime(m)' = t
    BY <1>12, SettingsStay
  <2>2. TypeOK'
    BY <1>2, <1>3, <1>5, <1>12, <2>1 DEF IInv, TypeOK, Exchanges
  <2>3. Progress'
    BY <1>3, <1>5, <1>12 DEF IInv, Progress
  <2>4. Budget'
    <3>1. /\ poll'.attempt = pa + 1 /\ poll'.elapsed = pe + s
          /\ exchange'.longest = m /\ AttemptTime(exchange.longest)' = t
      BY <1>12, <2>1
    <3> QED
      BY <1>2, <1>3, <1>5, <1>6, <1>7, <1>8, <1>12, <2>1, <3>1 DEF Budget, PollTime
  <2>5. Asking'
    BY <1>3, <1>5, <1>6, <1>12 DEF Asking
  <2>6. GivesUpOnlyWhenSpent' /\ GraphAssumption'
    BY <1>3, <1>12 DEF GivesUpOnlyWhenSpent, GraphAssumption
  <2> QED
    BY <2>2, <2>3, <2>4, <2>5, <2>6 DEF IInv
<1> QED
  BY <1>4, <1>10, <1>11, <1>12

LEMMA StayedPendingStep ==
    ASSUME IInv, StayedPending
    PROVE  IInv'
<1>1. /\ PauseTime \in Nat /\ PollAttempts \in Nat
      /\ \A k \in Nat : AttemptTime(k) \in Nat
  BY SettingTypes, ClientAssumption DEF IInv, TypeOK
<1>. PICK a \in Nat, x \in Exchanges, pa \in 0 .. PollAttempts, pe \in Nat :
        a = attempt /\ x = exchange /\ pa = poll.attempt /\ pe = poll.elapsed
  BY DEF IInv, TypeOK, Exchanges
<1>2. pc = "poll" /\ x.posts = a + 1 /\ x.asked <= effective_max_tokens
  BY DEF StayedPending, IInv, Progress, Asking
<1>. PICK t \in Nat : t = AttemptTime(x.longest)
  BY <1>1 DEF Exchanges
<1>. PICK p1 \in Nat, p2 \in Nat, p3 \in Nat :
        p1 = (a + 1) * PollAttempts /\ p2 = a * t /\ p3 = a * PauseTime
  BY <1>1, Products
<1>3. /\ x.polls <= p1 - (PollAttempts - pa)
      /\ x.clock <= p2 + PollTime + p3
      /\ PollTime <= t
      /\ x.polls \in Nat /\ x.clock \in Nat
  BY <1>2 DEF IInv, Budget, Exchanges
<1>4. PollTime \in Nat /\ (a + 1) * t = p2 + t
  <2>1. PollTime \in Nat
    BY DEF PollTime, IInv, TypeOK
  <2> QED
    BY <2>1, Products
<1>5. WireOK(x)
  BY <1>1, <1>2, <1>3, <1>4 DEF WireOK
<1>6. Fail("stayed_pending", x) /\ "stayed_pending" \in Failures
  BY DEF StayedPending, Failures, Retryable
<1> QED
  BY <1>2, <1>5, <1>6, FailStep

LEMMA NextIInv == IInv /\ [Next]_vars => IInv'
<1> SUFFICES ASSUME IInv, [Next]_vars PROVE IInv'
  OBVIOUS
<1>1. CASE Done \/ UNCHANGED vars
  <2>1. UNCHANGED vars
    BY <1>1 DEF Done
  <2>2. /\ Attempts' = Attempts /\ PauseTime' = PauseTime
        /\ AttemptTime(exchange.longest)' = AttemptTime(exchange.longest)
    BY <2>1, SettingsStay DEF vars
  <2>3. GraphAssumption'
    BY <2>1 DEF vars, IInv, GraphAssumption, Graph!ReturnedModes, Graph!ModelCallRaises,
                Graph!AllowsPartialFallback
  <2> QED
    BY <2>1, <2>2, <2>3 DEF vars, IInv, TypeOK, Progress, Budget, PollTime, Asking,
                            GivesUpOnlyWhenSpent
<1> QED
  BY <1>1, StartStep, PostStep, StayedPendingStep, PollStatusStep DEF Next

LEMMA Invariance == Spec => []IInv
BY InitIInv, NextIInv, PTL DEF Spec

-----------------------------------------------------------------------------
\* The settings, the state of a call and its exchange keep their shape; the
\* counters of attempts and of status requests stay within their ranges.
THEOREM ClientTypeCorrect == Spec => []TypeOK
<1>1. IInv => TypeOK
  BY DEF IInv
<1> QED
  BY <1>1, Invariance, PTL

\* A call ends within the requests its settings allow, and the delays of its
\* requests do not multiply, whatever the settings are and however long a
\* request takes.
THEOREM BudgetIsKeptAlways == Spec => []BudgetIsKept
<1>1. IInv => BudgetIsKept
  <2> SUFFICES ASSUME IInv PROVE BudgetIsKept
    OBVIOUS
  <2>. PICK a \in Nat, x \in Exchanges, pa \in 0 .. PollAttempts, pe \in Nat :
          a = attempt /\ x = exchange /\ pa = poll.attempt /\ pe = poll.elapsed
    BY DEF IInv, TypeOK, Exchanges
  <2>1. /\ PauseTime \in Nat /\ PollAttempts \in Nat /\ Attempts \in Nat \ {0}
        /\ \A k \in Nat : AttemptTime(k) \in Nat
    BY SettingTypes, ClientAssumption DEF IInv, TypeOK
  <2>. PICK t \in Nat : t = AttemptTime(x.longest)
    BY <2>1 DEF Exchanges
  <2>. PICK n \in Nat : n = Attempts - 1
    BY <2>1
  <2>2. a <= n
    BY <2>1 DEF IInv, TypeOK
  <2>3. x.posts \in Nat /\ x.polls \in Nat /\ x.clock \in Nat
    BY DEF Exchanges
  <2>4. x.posts <= a + 1
    BY <2>3 DEF IInv, TypeOK, Progress
  <2>. PICK p1 \in Nat, p2 \in Nat, p3 \in Nat, p4 \in Nat :
          /\ p1 = x.posts * PollAttempts /\ p2 = x.posts * t
          /\ p3 = a * PauseTime /\ p4 = n * PauseTime
    BY <2>1, <2>3, Products
  <2>5. p3 <= p4
    <3>. PICK k \in Nat : k = n - a
      BY <2>2
    <3>1. n * PauseTime = (a + k) * PauseTime
      BY <2>2
    <3>2. (a + k) * PauseTime = a * PauseTime + k * PauseTime /\ k * PauseTime \in Nat
      BY <2>1
    <3> QED
      BY <3>1, <3>2
  <2>6. x.polls <= p1 - (IF pc = "poll" THEN PollAttempts - pa ELSE 0)
    BY DEF IInv, Budget
  <2>7. x.clock <= p2 + p3
    <3>1. CASE pc = "poll"
      <4>1. x.posts = a + 1
        BY <3>1 DEF IInv, Progress
      <4>2. p2 = a * t + t /\ a * t \in Nat
        BY <4>1, Products
      <4>3. x.clock <= a * t + PollTime + p3 /\ PollTime <= t /\ PollTime \in Nat
        BY <3>1 DEF IInv, TypeOK, Budget, PollTime
      <4> QED
        BY <2>3, <4>2, <4>3
    <3>2. CASE pc # "poll"
      BY <3>2 DEF IInv, Budget
    <3> QED
      BY <3>1, <3>2
  <2>8. x.posts <= Attempts /\ x.polls <= p1 /\ x.clock <= p2 + p4
    BY <2>1, <2>2, <2>3, <2>4, <2>5, <2>6, <2>7
  <2> QED
    BY <2>8 DEF BudgetIsKept
<1> QED
  BY <1>1, Invariance, PTL

\* A call with a key ends without a live answer only after a failure no retry
\* can mend or when all attempts are made, and reports the last failure.
THEOREM GivesUpLate == Spec => []GivesUpOnlyWhenSpent
<1>1. IInv => GivesUpOnlyWhenSpent
  BY DEF IInv
<1> QED
  BY <1>1, Invariance, PTL

\* The client keeps the contract Workflow relies on, under every setting.
THEOREM ContractIsKept == Spec => []GraphAssumption
<1>1. IInv => GraphAssumption
  BY DEF IInv
<1> QED
  BY <1>1, Invariance, PTL

\* The handling of an answer leaves the counts as the request made them.
LEMMA HandlingKeeps ==
    ASSUME NEW wire \in Exchanges, NEW f, Answer(wire) \/ Fail(f, wire)
    PROVE  exchange'.posts = wire.posts /\ exchange'.asked = wire.asked
<1>1. CASE \E g : exchange' = [wire EXCEPT !.last = g]
  BY <1>1 DEF Exchanges
<1>2. CASE \E c, g : exchange' = [wire EXCEPT !.clock = c, !.last = g]
  BY <1>2 DEF Exchanges
<1>3. \/ \E g : exchange' = [wire EXCEPT !.last = g]
      \/ \E c, g : exchange' = [wire EXCEPT !.clock = c, !.last = g]
  <2>1. CASE Answer(wire)
    BY <2>1 DEF Answer
  <2>2. CASE Fail(f, wire) /\ ~MayRetry(f)
    BY <2>2 DEF Fail
  <2>3. CASE Fail(f, wire) /\ MayRetry(f)
    <3>. PICK c : c = wire.clock + Backoff(f)
      OBVIOUS
    <3>1. exchange' = [wire EXCEPT !.clock = c, !.last = f]
      BY <2>3 DEF Fail
    <3> QED
      BY <3>1
  <2> QED
    BY <2>1, <2>2, <2>3
<1> QED
  BY <1>1, <1>2, <1>3

\* After a truncated answer more tokens are asked for, and never fewer.
THEOREM RetriesAskForMore == Spec => RetryAsksForMore
<1> DEFINE More == exchange'.posts > exchange.posts =>
                      /\ exchange'.asked >= exchange.asked
                      /\ (exchange.last = "truncated" /\ exchange.asked < TokenCap)
                             => exchange'.asked > exchange.asked
<1>1. IInv /\ [Next]_vars => [More]_vars
  <2> SUFFICES ASSUME IInv, Next, exchange'.posts > exchange.posts PROVE More
    OBVIOUS
  <2>. PICK x \in Exchanges : x = exchange
    BY DEF IInv, TypeOK, Exchanges
  <2>1. x.posts \in Nat
    BY DEF Exchanges
  <2>2. UNCHANGED exchange \/ exchange' = Ended(x, "no_key") => exchange'.posts = x.posts
    BY DEF Ended, Exchanges
  <2>3. ~Start /\ ~Done
    BY <2>1, <2>2 DEF Start, Done, vars, Ended
  <2>4. ~StayedPending
    BY <2>1, HandlingKeeps DEF StayedPending
  <2>5. ~PollStatus
    <3> SUFFICES ASSUME PollStatus PROVE FALSE
      OBVIOUS
    <3>. PICK d \in Nat :
            LET spent == d + (IF poll.attempt > 0 THEN PollInterval ELSE 0)
                wire  == [exchange EXCEPT !.polls = @ + 1, !.clock = @ + spent,
                                          !.longest = Larger(@, d)]
            IN \/ Answer(wire)
               \/ \E f \in PollFailures \cup (ParseFailures \ {"no_content"}) :
                     Fail(f, wire)
               \/ /\ poll' = [attempt |-> poll.attempt + 1,
                               elapsed |-> poll.elapsed + spent]
                  /\ exchange' = wire
                  /\ UNCHANGED <<config, pc, attempt, effective_max_tokens,
                                 result>>
      BY ClientAssumption DEF PollStatus
    <3>. PICK s : s = d + (IF poll.attempt > 0 THEN PollInterval ELSE 0)
      OBVIOUS
    <3>0. s \in Nat
      BY ClientAssumption
    <3>. PICK wire : wire = Polled(x, s, d)
      OBVIOUS
    <3>1. wire \in Exchanges /\ wire.posts = x.posts
      <4>1. 0 \in Nat /\ "none" \in Failures \cup {"none", "no_key", "answer"}
        OBVIOUS
      <4>2. Polled(x, s, d) \in Exchanges /\ Polled(x, s, d).posts = x.posts
        BY ONLY x \in Exchanges, d \in Nat, <3>0, <4>1, WireTypes
      <4> QED
        BY <4>2
    <3>2. Answer(wire) \/ (\E f : Fail(f, wire)) \/ exchange' = wire
      BY DEF Polled
    <3> QED
      BY <2>1, <3>1, <3>2, HandlingKeeps
  <2>6. Post
    BY <2>3, <2>4, <2>5 DEF Next
  <2>7. exchange'.asked = effective_max_tokens
    <3>. PICK n \in Nat : n = effective_max_tokens
      BY DEF IInv, TypeOK
    <3>. PICK d \in Nat :
            LET wire == [exchange EXCEPT !.posts = @ + 1,
                                         !.clock = @ + d,
                                         !.longest = Larger(@, d),
                                         !.asked = effective_max_tokens]
            IN \/ Answer(wire)
               \/ \E f \in PostFailures \cup ParseFailures : Fail(f, wire)
               \/ /\ pc' = "poll"
                  /\ exchange' = wire
                  /\ UNCHANGED <<config, attempt, effective_max_tokens, poll,
                                 result>>
      BY <2>6, ClientAssumption DEF Post
    <3>. PICK wire : wire = Posted(x, d, n)
      OBVIOUS
    <3>1. wire \in Exchanges /\ wire.asked = n
      <4>1. "none" \in Failures \cup {"none", "no_key", "answer"}
        OBVIOUS
      <4>2. Posted(x, d, n) \in Exchanges /\ Posted(x, d, n).asked = n
        BY ONLY x \in Exchanges, d \in Nat, n \in Nat, <4>1, WireTypes
      <4> QED
        BY <4>2
    <3>2. Answer(wire) \/ (\E f : Fail(f, wire)) \/ exchange' = wire
      BY DEF Posted
    <3> QED
      BY <3>1, <3>2, HandlingKeeps
  <2> QED
    BY <2>6, <2>7 DEF Post, IInv, Asking, TypeOK
<1>2. Spec => [][More]_vars
  BY <1>1, Invariance, PTL DEF Spec
<1> QED
  BY <1>2 DEF RetryAsksForMore
=============================================================================
