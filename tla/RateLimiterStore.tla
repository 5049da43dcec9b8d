-------------------------- MODULE RateLimiterStore --------------------------
(***************************************************************************)
(* The process-local store of internal/rateLimiterStore.ts and the one     *)
(* caller it has in the library, spend of http/RateLimits.ts.              *)
(*                                                                         *)
(* The store keeps three maps.  A key is used with one algorithm, so an    *)
(* instance is one key and the algorithm it is used with.  Every call is   *)
(* synchronous, hence one step; the sweep runs between any two.            *)
(*                                                                         *)
(* RateLimiter itself is effect's: a fixed-window call is refused where    *)
(* the count it is answered with exceeds the limit, and a call that is     *)
(* given a delay proceeds when that is over.                               *)
(***************************************************************************)
EXTENDS Integers, FiniteSetsExt

CONSTANTS
    Algorithms, \* which of "fixed", "bucket", "adaptive" the key may be used with
    Limit,      \* options.limit, 0 for none
    Refill,     \* options.refillRate, for one token
    Tokens,     \* the sizes of a call
    MaxTokens,  \* the largest size of a call
    Millis,     \* a millisecond: times are counted in parts of one
    MaxWindow,  \* adaptiveStateMaxWindowMillis
    Grace,      \* adaptiveStateTtlGraceMillis
    Fallback,   \* options.fallbackWindow
    Retries,    \* what the far side may answer as retry-after
    Steps,      \* how far the clock may move at once
    MaxTime,    \* bound: the clock stops here
    MaxDebt,    \* bound: how far a bucket may be overdrawn
    MaxEpoch,   \* bound: adaptive regimes
    MaxCalls,   \* bound: calls whose answer may still come
    MaxObserved,\* bound: tokens let through while learning
    NoEntry     \* a map that has no entry for the key

Whole(t) == t % Millis = 0

ASSUME RatesAreNumbers ==
    /\ Limit \in Nat /\ Refill \in Nat \ {0}
    /\ MaxTokens \in Nat \ {0} /\ Tokens \subseteq 1..MaxTokens
ASSUME BoundsAreNumbers ==
    /\ MaxTime \in Nat /\ MaxDebt \in Nat /\ MaxEpoch \in Nat
    /\ MaxObserved \in Nat /\ MaxTokens <= MaxObserved
\* The clock and every duration are whole milliseconds.
ASSUME WindowsAreNumbers ==
    /\ Millis \in Nat \ {0}
    /\ MaxWindow \in Nat \ {0} /\ Grace \in Nat /\ Fallback \in Nat
    /\ Retries \subseteq Nat /\ Steps \subseteq Nat \ {0}
    /\ Whole(MaxWindow) /\ \A t \in Retries \cup Steps : Whole(t)
\* A learned rate is a fraction in the code: the parts are fine enough to be exact.
ASSUME PartsAreExact == \A l \in 1..(MaxObserved - 1) : Millis % l = 0

VARIABLES
    now,
    config,     \* rateLimit.enabled and rateLimit.failClosed
    algorithm,  \* what the key is used with
    counter,    \* fixedCounters.get(key)
    bucket,     \* tokenBuckets.get(key)
    adaptive,   \* adaptiveStates.get(key)
    calls,      \* what calls that are on their way were answered: epochs and tokens
    reply,      \* history: what fixedWindow last answered at this time
    passed      \* history: tokens let through before each time, of calls that must be limited

storeVars == <<now, config, algorithm, counter, bucket, adaptive, calls, reply, passed>>

FixedCounter == [count : Nat, expiresAt : Int]
\* What a call would make of the count, and for how long that holds.
Reply == [count : Nat, left : Int]
TokenBucket == [tokens : Int, lastRefill : Int, expiresAt : Int]
AdaptiveState == [phase : {"cooldown", "learning", "learned"}, epoch : Nat, cooldownUntil : Int,
                  learningStartedAt : Int, observedTokens : Int, learnedLimit : Nat,
                  learnedWindow : Nat, expiresAt : Int]

ASSUME NoEntryIsNone == NoEntry \notin FixedCounter \cup TokenBucket \cup AdaptiveState

NoReply == [count |-> 0, left |-> 0]

\* A delayed call may proceed after the clock has stopped.
End == 3 * MaxTime + 1
Horizon == 0..(End - 1)

StoreInit ==
    /\ now = 0
    /\ algorithm \in Algorithms
    /\ config \in IF algorithm = "fixed" THEN [enabled : BOOLEAN, failClosed : BOOLEAN]
                  ELSE {[enabled |-> TRUE, failClosed |-> FALSE]}
    /\ counter = NoEntry
    /\ bucket = NoEntry
    /\ adaptive = NoEntry
    /\ calls = {}
    /\ reply = NoReply
    /\ passed = [t \in 0..End |-> 0]

Passing(n, t) == [s \in 0..End |-> IF s > t THEN passed[s] + n ELSE passed[s]]

\* A deployment that lets calls through when nobody counts is promised no bound.
PassingIf(always, n) == IF always /\ config.failClosed THEN Passing(n, now) ELSE passed

Tick ==
    /\ \E d \in Steps : now + d <= MaxTime /\ now' = now + d
    /\ reply' = NoReply
    /\ UNCHANGED <<config, algorithm, counter, bucket, adaptive, calls, passed>>

-----------------------------------------------------------------------------
(* The sweep *)

Expired(entry, t) == entry # NoEntry /\ entry.expiresAt <= t

Kept(entry) == IF Expired(entry, now) THEN NoEntry ELSE entry

Sweep ==
    /\ counter' = Kept(counter)
    /\ bucket' = Kept(bucket)
    /\ adaptive' = Kept(adaptive)
    /\ UNCHANGED <<now, config, algorithm, calls, reply, passed>>

-----------------------------------------------------------------------------
(* fixedWindow, as spend calls it *)

Opened == IF counter = NoEntry \/ Expired(counter, now) THEN [count |-> 0, expiresAt |-> now]
                                                       ELSE counter

Refuses(held, n) == Limit # 0 /\ held.count + n > Limit

Charged(held, n) == [count |-> held.count + n, expiresAt |-> held.expiresAt + Refill * n]

Uncharged(held, n) == held

\* Mutant: a switch turns a lockout off.
IsSpentWhereEnabled(always) == config.enabled

IsSpent(always) == config.enabled \/ always

PassUncounted(n, always) ==
    /\ algorithm = "fixed"
    /\ ~IsSpent(always)
    /\ passed' = PassingIf(always, n)
    /\ UNCHANGED <<now, config, algorithm, counter, bucket, adaptive, calls, reply>>

Admit(n, always) ==
    /\ algorithm = "fixed"
    /\ IsSpent(always)
    /\ ~Refuses(Opened, n)
    /\ counter' = Charged(Opened, n)
    /\ reply' = [count |-> Charged(Opened, n).count, left |-> Charged(Opened, n).expiresAt - now]
    /\ passed' = PassingIf(always, n)
    /\ UNCHANGED <<now, config, algorithm, bucket, adaptive, calls>>

\* Mutant: the limit is checked before a counter that is over is reset.
RefuseUnswept(n, always) ==
    /\ algorithm = "fixed"
    /\ IsSpent(always)
    /\ counter # NoEntry /\ Refuses(counter, n)
    /\ reply' = [count |-> counter.count + n, left |-> counter.expiresAt - now]
    /\ UNCHANGED <<now, config, algorithm, counter, bucket, adaptive, calls, passed>>

Refuse(n, always) ==
    /\ algorithm = "fixed"
    /\ IsSpent(always)
    /\ Refuses(Opened, n)
    /\ counter' = Uncharged(Opened, n)
    /\ reply' = [count |-> Opened.count + n, left |-> Opened.expiresAt - now]
    /\ UNCHANGED <<now, config, algorithm, bucket, adaptive, calls, passed>>

LetsThrough == ~config.failClosed

\* A store of the deployment's own can fail: then nobody counts.
StoreFails(n, always) ==
    /\ algorithm = "fixed"
    /\ IsSpent(always)
    /\ passed' = IF LetsThrough THEN PassingIf(always, n) ELSE passed
    /\ UNCHANGED <<now, config, algorithm, counter, bucket, adaptive, calls, reply>>

-----------------------------------------------------------------------------
(* tokenBucket *)

\* Refilled in whole tokens only: what is left of an interval counts later.
Refilled ==
    IF bucket = NoEntry THEN [tokens |-> Limit, lastRefill |-> now, expiresAt |-> now]
    ELSE LET gained == (now - bucket.lastRefill) \div Refill IN
         [bucket EXCEPT !.tokens = IF gained > 0 /\ bucket.tokens + gained > Limit
                                   THEN Limit ELSE bucket.tokens + gained,
                        !.lastRefill = bucket.lastRefill + Refill * gained]

\* Full and idle is what an absent bucket is rebuilt as.
IdleFrom(b) == b.lastRefill + Refill * (Limit - b.tokens)

\* A call that may overflow takes its tokens in any case and waits its debt off.
TakeTokens(n, allowOverflow) ==
    /\ algorithm = "bucket"
    /\ LET left == Refilled.tokens - n
           taken == [Refilled EXCEPT !.tokens = IF allowOverflow \/ left >= 0 THEN left ELSE @]
           wait == IF left >= 0 THEN 0 ELSE Refill * (-left)
       IN  /\ left >= -MaxDebt /\ now + wait \in Horizon
           /\ bucket' = [taken EXCEPT !.expiresAt = IdleFrom(taken)]
           /\ passed' = IF allowOverflow \/ left >= 0 THEN Passing(n, now + wait) ELSE passed
    /\ UNCHANGED <<now, config, algorithm, counter, adaptive, calls, reply>>

-----------------------------------------------------------------------------
(* adaptiveConsume *)

\* getAdaptiveState.
Current == IF Expired(adaptive, now) THEN NoEntry ELSE adaptive

Clamped(t) == IF t <= 0 THEN Millis ELSE IF t > MaxWindow THEN MaxWindow ELSE t

Answered(epoch, n) ==
    calls' = IF Cardinality(calls) < MaxCalls THEN calls \cup {[epoch |-> epoch, tokens |-> n]}
                                              ELSE calls

Cooling(epoch, until) ==
    [phase |-> "cooldown", epoch |-> epoch, cooldownUntil |-> until, learningStartedAt |-> 0,
     observedTokens |-> 0, learnedLimit |-> 0, learnedWindow |-> 0, expiresAt |-> until + Grace]

ConsumeInactive(n) ==
    /\ algorithm = "adaptive"
    /\ Current = NoEntry
    /\ adaptive' = NoEntry
    /\ Answered(0, n)
    /\ UNCHANGED <<now, config, algorithm, counter, bucket, reply, passed>>

ConsumeCooling(n) ==
    /\ algorithm = "adaptive"
    /\ Current # NoEntry
    /\ adaptive.phase = "cooldown" /\ adaptive.cooldownUntil > now
    /\ Answered(adaptive.epoch, n)
    /\ UNCHANGED <<now, config, algorithm, counter, bucket, adaptive, reply, passed>>

BeginLearning(n) ==
    /\ algorithm = "adaptive"
    /\ Current # NoEntry
    /\ adaptive.phase = "cooldown" /\ adaptive.cooldownUntil <= now
    /\ adaptive.epoch < MaxEpoch
    /\ adaptive' = [adaptive EXCEPT !.phase = "learning", !.epoch = @ + 1,
                                    !.learningStartedAt = now, !.observedTokens = n,
                                    !.expiresAt = now + Fallback + Grace]
    /\ Answered(adaptive.epoch + 1, n)
    /\ UNCHANGED <<now, config, algorithm, counter, bucket, reply, passed>>

\* Any number of calls is let through, to see how many are too many.
ConsumeLearning(n) ==
    /\ algorithm = "adaptive"
    /\ Current # NoEntry
    /\ adaptive.phase = "learning"
    /\ adaptive.observedTokens + n <= MaxObserved
    /\ adaptive' = [adaptive EXCEPT !.observedTokens = @ + n]
    /\ Answered(adaptive.epoch, n)
    /\ UNCHANGED <<now, config, algorithm, counter, bucket, reply, passed>>

\* The window a token falls in, counted from the first of the run.
WindowNumber(state) == (state.observedTokens - 1) \div state.learnedLimit

ConsumeLearned(n) ==
    /\ algorithm = "adaptive"
    /\ Current # NoEntry
    /\ adaptive.phase = "learned"
    /\ LET rate == adaptive.learnedWindow \div adaptive.learnedLimit
           begun == IF adaptive.cooldownUntil <= now
                    THEN [adaptive EXCEPT !.observedTokens = 0, !.cooldownUntil = now]
                    ELSE adaptive
           state == [begun EXCEPT !.observedTokens = @ + n, !.cooldownUntil = @ + rate * n]
           elapsed == rate * state.observedTokens - (state.cooldownUntil - now)
           wait == WindowNumber(state) * state.learnedWindow - elapsed
           turn == IF wait <= 0 THEN now ELSE now + wait
       IN  /\ turn \in Horizon
           /\ adaptive' = state
           /\ passed' = Passing(n, turn)
    /\ Answered(adaptive.epoch, n)
    /\ UNCHANGED <<now, config, algorithm, counter, bucket, reply>>

-----------------------------------------------------------------------------
(* adaptiveFeedback: a call came back with 429 and a retry-after *)

Feedback(call, retryAfter) ==
    /\ algorithm = "adaptive"
    /\ call \in calls
    /\ calls' \in {calls, calls \ {call}}   \* others may have been answered alike
    /\ LET until == now + Clamped(retryAfter)
           accepted == adaptive.observedTokens - call.tokens
           learned == Clamped(now - adaptive.learningStartedAt + Clamped(retryAfter))
       IN  \/ /\ Current = NoEntry
              /\ adaptive' = IF call.epoch # 0 THEN NoEntry ELSE Cooling(0, until)
              /\ passed' = passed
           \/ /\ Current # NoEntry
              /\ adaptive.epoch # call.epoch
              /\ UNCHANGED <<adaptive, passed>>
           \/ /\ Current # NoEntry
              /\ adaptive.epoch = call.epoch
              /\ adaptive.phase = "cooldown"
              /\ adaptive' = [adaptive EXCEPT
                    !.cooldownUntil = IF until > @ THEN until ELSE @,
                    !.expiresAt = (IF until > adaptive.cooldownUntil
                                   THEN until ELSE adaptive.cooldownUntil) + Grace]
              /\ passed' = passed
           \/ /\ Current # NoEntry
              /\ adaptive.epoch = call.epoch
              /\ adaptive.phase = "learned" \/ (adaptive.phase = "learning" /\ accepted <= 0)
              /\ adaptive' = Cooling(adaptive.epoch, until)
              /\ passed' = passed
           \/ /\ Current # NoEntry
              /\ adaptive.epoch = call.epoch
              /\ adaptive.phase = "learning" /\ accepted > 0
              /\ adaptive.epoch < MaxEpoch
              /\ adaptive' = [adaptive EXCEPT
                    !.phase = "learned", !.epoch = @ + 1,
                    !.cooldownUntil = adaptive.learningStartedAt + learned,
                    !.observedTokens = accepted, !.learnedLimit = accepted,
                    !.learnedWindow = learned, !.expiresAt = now + learned + Grace]
              /\ passed' = [t \in 0..End |-> 0]
    /\ UNCHANGED <<now, config, algorithm, counter, bucket, reply>>

-----------------------------------------------------------------------------

StoreNext ==
    \/ Tick
    \/ Sweep
    \/ \E n \in Tokens :
        \/ \E always \in BOOLEAN :
            PassUncounted(n, always) \/ Admit(n, always) \/ Refuse(n, always) \/ StoreFails(n, always)
        \/ \E allowOverflow \in BOOLEAN : TakeTokens(n, allowOverflow)
        \/ ConsumeInactive(n) \/ ConsumeCooling(n) \/ BeginLearning(n)
        \/ ConsumeLearning(n) \/ ConsumeLearned(n)
    \/ \E call \in calls, retryAfter \in Retries : Feedback(call, retryAfter)

StoreSpec == StoreInit /\ [][StoreNext]_storeVars

-----------------------------------------------------------------------------

\* What was learned divides: it has a limit and a window, neither of them nothing.
Learned(state) == state.phase = "learned" => state.learnedLimit > 0 /\ state.learnedWindow > 0

StoreTypeOK ==
    /\ now \in 0..MaxTime
    /\ config \in [enabled : BOOLEAN, failClosed : BOOLEAN]
    /\ algorithm \in Algorithms
    /\ counter \in FixedCounter \cup {NoEntry}
    /\ bucket \in TokenBucket \cup {NoEntry}
    /\ adaptive \in AdaptiveState \cup {NoEntry}
    /\ adaptive # NoEntry => Learned(adaptive)
    /\ calls \subseteq [epoch : Nat, tokens : Tokens]
    /\ reply \in Reply
    /\ passed \in [0..End -> Nat]

\* What was let through from one time to another, both included.
PassedIn(from, to) == passed[IF to < End THEN to + 1 ELSE End] - passed[from]

\* The longest span a property asks about.
Span == Max({Limit * Refill, MaxWindow})

Ceiling(a, b) == (a + b - 1) \div b

\* However the clock, the sweep, the refusals and the failures of the store
\* fall: a span as long as a window lets through less than two windows' worth, and
\* a bucket no more than what it holds, or one call that overdraws it, and what it
\* gains meanwhile.  Where the store may fail, only failClosed holds the bound; a
\* limit that must hold does so with rateLimit.enabled switched off.  A learned
\* window is overshot by one call that is larger than it, at most.  (What
\* fixedWindow, tokenBucket, sweepAt, the learned phase of adaptiveConsume and
\* spend do together.)
SlidingBound ==
    \A from \in Horizon :
        /\ algorithm = "fixed" /\ config.failClosed /\ Limit # 0 =>
            PassedIn(from, from + Limit * Refill - 1) <= 2 * Limit - 1
        /\ algorithm = "bucket" =>
            \A span \in 0..Span :
                PassedIn(from, from + span) <= Max({Limit, MaxTokens}) + Ceiling(span, Refill)
        /\ adaptive # NoEntry /\ adaptive.phase = "learned" =>
            PassedIn(from, from + adaptive.learnedWindow - 1)
                <= 2 * adaptive.learnedLimit - 1 + (MaxTokens - 1)

\* Whether a window that is over has been swept or is still held makes no
\* difference to any answer: what a call is told of the count and of the time left,
\* and whether it was let through or refused, is what a counter would answer whose
\* windows are forgotten the moment they are over.  "Nothing else about the store's
\* arithmetic differs" (http/RateLimits.ts, layerStore).
Unswept == INSTANCE Window WITH
    Closed <- NoEntry,
    window <- IF Expired(counter, now) THEN NoEntry ELSE counter

ImplementsWindow == Unswept!Spec
=============================================================================
