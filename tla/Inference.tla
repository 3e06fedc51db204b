----------------------------- MODULE Inference -----------------------------
(***************************************************************************)
(* The calls of one workspace on the models: the request limiter of        *)
(* api-gateway, then a process of llm-gateway with its quota, a provider,  *)
(* the counters in Redis and the token_usage table.  Both limiters count   *)
(* in fixed windows; the tokens of a day are read before a call and added  *)
(* after it, under the day of that moment.  A process that does not reach  *)
(* Redis when it starts has no quota until it starts again.                *)
(***************************************************************************)
EXTENDS Integers, FiniteSets, Sums

CONSTANTS
  Calls,          \* the calls made
  Gateways,       \* of llm-gateway
  Plans,          \* what the calls may be: each call's kind, whether it has a
                  \* workspace, its process, and whether its path is limited
  RatePerMinute,  \* requests of the principal api-gateway lets through, if any
  RpmLimit,       \* requests of the workspace per minute: no quota if not positive
  TokenLimit,     \* tokens of the workspace per day: no budget if not positive
  MaxTokens,      \* tokens of one call
  LastMinute,     \* bound on the clock
  MinutesPerDay,
  MaxFaults       \* times Redis goes away or a process of llm-gateway stops

ASSUME InferenceAssumption ==
  /\ IsFiniteSet(Calls)
  /\ Plans \subseteq [Calls -> [kind : {"chat", "stream", "embed"}, workspace : BOOLEAN,
                               on : Gateways, limited : BOOLEAN]]
  /\ {RatePerMinute, RpmLimit, TokenLimit} \subseteq Int
  /\ {MaxTokens, MinutesPerDay} \subseteq Nat \ {0}
  /\ {LastMinute, MaxFaults} \subseteq Nat

VARIABLES
  now,      \* the minute
  redis,    \* Redis answers
  faults,   \* times it has gone away or a process has stopped
  quota,    \* what each process has: a QuotaService or the Noop one
  blind,    \* history: a process has started with the Noop one
  rl,       \* rl:{principal}:{minute}
  rpm,      \* quota:rpm:{workspace}:{minute}
  tokens,   \* quota:tokens:{workspace}:{day}
  plan,     \* what the calls are
  call,     \* how far each call is
  paid,     \* history: what each call has added to the day's counter
  usage,    \* the token_usage rows of each call
  peak,     \* history: most calls at once between the read and the charge
  unread    \* history: calls that went on without the day's counter: its read
            \* failed, or the request limit is off and it is not read at all

counters == <<rl, rpm, tokens>>
servers == <<redis, faults, quota, blind>>
history == <<paid, peak, unread>>
inferenceVars == <<now, servers, counters, plan, call, usage, history>>

-----------------------------------------------------------------------------
Minutes == 0..LastMinute
Day(minute) == minute \div MinutesPerDay
Days == 0..Day(LastMinute)

Over == {"limited", "exceeded", "exhausted", "raised", "left", "ok", "killed"}
Steps == {"new", "passed", "reserving", "asking", "sent", "answered", "charged"} \cup Over

\* Calls for which their process had a quota, and those whose tokens may still
\* be added to a day's counter.
Metered == {c \in Calls : call[c].counted # -1 \/ c \in unread}
Open == {c \in Metered : call[c].at \in {"asking", "sent", "answered"}}
Asked == {c \in Calls : call[c].at \in {"asking", "sent", "answered", "charged", "ok"}}

InferenceTypeOK ==
  /\ now \in Minutes
  /\ redis \in BOOLEAN /\ blind \in BOOLEAN
  /\ faults \in 0..MaxFaults
  /\ quota \in [Gateways -> {"redis", "noop"}]
  /\ rl \in [Minutes -> Nat] /\ rpm \in [Minutes -> Nat] /\ tokens \in [Days -> Nat]
  /\ call \in [Calls -> [at : Steps, counted : Minutes \cup {-1}, used : 0..MaxTokens]]
  /\ plan \in Plans
  /\ paid \in [Calls -> 0..MaxTokens]
  /\ usage \in [Calls -> 0..1]
  /\ peak \in 0..Cardinality(Calls) /\ unread \subseteq Calls

InferenceInit ==
  /\ now = 0
  /\ redis \in BOOLEAN
  /\ faults = 0
  /\ quota = [p \in Gateways |-> IF redis THEN "redis" ELSE "noop"]
  /\ blind = ~redis
  /\ rl = [m \in Minutes |-> 0]
  /\ rpm = [m \in Minutes |-> 0]
  /\ tokens = [d \in Days |-> 0]
  /\ plan \in Plans
  /\ call = [c \in Calls |-> [at |-> "new", counted |-> -1, used |-> 0]]
  /\ paid = [c \in Calls |-> 0]
  /\ usage = [c \in Calls |-> 0]
  /\ peak = 0 /\ unread = {}

-----------------------------------------------------------------------------
(* api-gateway.                                                            *)

\* dispatch: the path is not limited, nothing is, or the bucket fails and the
\* request passes, or the request is counted and passes or not.
Dispatch(c) ==
  /\ call[c].at = "new"
  /\ IF RatePerMinute > 0 /\ plan[c].limited /\ redis
     THEN /\ rl' = [rl EXCEPT ![now] = @ + 1]
          /\ call' = [call EXCEPT ![c].at =
                        IF rl'[now] > RatePerMinute THEN "limited" ELSE "passed"]
     ELSE call' = [call EXCEPT ![c].at = "passed"] /\ UNCHANGED rl
  /\ UNCHANGED <<now, servers, rpm, tokens, usage, history, plan>>

-----------------------------------------------------------------------------
(* llm-gateway.                                                            *)

\* Where a handler runs on without giving up its process's event loop.
Unbroken == {"reserving", "answered", "charged"}
Scheduled(c) ==
  \A d \in Calls \ {c} : plan[d].on = plan[c].on => call[d].at \notin Unbroken

\* A call of a workspace, in a process that has a quota.
Limited(c) == plan[c].workspace /\ quota[plan[c].on] = "redis"

\* The most calls that have been open at once, these being open.
Watermark(calls) == IF Cardinality(calls) > peak THEN Cardinality(calls) ELSE peak

\* MUTANTS of Count: the minute's count without this call is compared; the call
\* that reaches the limit is refused.
CountBefore(c) ==
  /\ Scheduled(c)
  /\ call[c].at = "passed" /\ Limited(c) /\ RpmLimit > 0 /\ redis
  /\ rpm' = [rpm EXCEPT ![now] = @ + 1]
  /\ call' = [call EXCEPT ![c].counted = now, ![c].at =
                IF rpm[now] > RpmLimit THEN "exceeded" ELSE "reserving"]
  /\ UNCHANGED <<now, servers, rl, tokens, plan, usage, history>>
CountAtLimit(c) ==
  /\ Scheduled(c)
  /\ call[c].at = "passed" /\ Limited(c) /\ RpmLimit > 0 /\ redis
  /\ rpm' = [rpm EXCEPT ![now] = @ + 1]
  /\ call' = [call EXCEPT ![c].counted = now, ![c].at =
                IF rpm'[now] >= RpmLimit THEN "exceeded" ELSE "reserving"]
  /\ UNCHANGED <<now, servers, rl, tokens, plan, usage, history>>

\* check_and_reserve_request, as far as the INCR of the minute.  Where the
\* request limit is off, neither counter is looked at.  A call beyond the limit
\* is refused after the read of the day's counter, which it ignores.
Count(c) ==
  /\ Scheduled(c)
  /\ call[c].at = "passed"
  /\ \/ /\ ~Limited(c)
        /\ call' = [call EXCEPT ![c].at = "asking"]
        /\ UNCHANGED <<rpm, history>>
     \/ /\ Limited(c) /\ RpmLimit <= 0
        /\ call' = [call EXCEPT ![c].at = "asking"]
        /\ unread' = unread \cup {c} /\ peak' = Watermark(Open')
        /\ UNCHANGED <<rpm, paid>>
     \/ /\ Limited(c) /\ RpmLimit > 0 /\ redis
        /\ rpm' = [rpm EXCEPT ![now] = @ + 1]
        /\ call' = [call EXCEPT ![c].counted = now, ![c].at =
                      IF rpm'[now] > RpmLimit THEN "exceeded" ELSE "reserving"]
        /\ UNCHANGED history
     \/ /\ Limited(c) /\ RpmLimit > 0 /\ ~redis
        /\ call' = [call EXCEPT ![c].at = "raised"]
        /\ UNCHANGED <<rpm, history>>
  /\ UNCHANGED <<now, servers, rl, tokens, usage, plan>>

\* MUTANT of Peek: the budget is compared the wrong way at its end.
PeekPastTheEnd(c) ==
  /\ Scheduled(c)
  /\ call[c].at = "reserving"
  /\ call' = [call EXCEPT ![c].at =
                IF redis /\ TokenLimit > 0 /\ tokens[Day(now)] > TokenLimit
                THEN "exhausted" ELSE "asking"]
  /\ unread' = IF redis THEN unread ELSE unread \cup {c}
  /\ peak' = Watermark(Open')
  /\ UNCHANGED <<now, servers, counters, paid, usage, plan>>

\* The rest of it: the day's counter is read, as nothing if that fails.
Peek(c) ==
  /\ Scheduled(c)
  /\ call[c].at = "reserving"
  /\ call' = [call EXCEPT ![c].at =
                IF redis /\ TokenLimit > 0 /\ tokens[Day(now)] >= TokenLimit
                THEN "exhausted" ELSE "asking"]
  /\ unread' = IF redis THEN unread ELSE unread \cup {c}
  /\ peak' = Watermark(Open')
  /\ UNCHANGED <<now, servers, counters, paid, usage, plan>>

\* One more chunk of a stream, with content.
Chunk(c) ==
  /\ Scheduled(c)
  /\ plan[c].kind = "stream" /\ call[c].at = "asking" /\ call[c].used < MaxTokens
  /\ call' = [call EXCEPT ![c].used = @ + 1]
  /\ UNCHANGED <<now, servers, counters, plan, usage, history>>

\* One more input of an embedding, which ollama takes one at a time.
EmbedInput(c) ==
  /\ Scheduled(c)
  /\ plan[c].kind = "embed" /\ call[c].at = "asking" /\ call[c].used < MaxTokens
  /\ call' = [call EXCEPT ![c].used = @ + 1]
  /\ UNCHANGED <<now, servers, counters, plan, usage, history>>

\* What a whole answer says it has used, or nothing if it does not say.
Reported == 0..MaxTokens

\* chat_completions, given a whole answer.
AnswerChat(c) ==
  /\ Scheduled(c)
  /\ plan[c].kind = "chat" /\ call[c].at = "asking"
  /\ \E n \in Reported : call' = [call EXCEPT ![c].at = "answered", ![c].used = n]
  /\ UNCHANGED <<now, servers, counters, plan, usage, history>>

\* embeddings, given all the vectors.
AnswerEmbeddings(c) ==
  /\ Scheduled(c)
  /\ plan[c].kind = "embed" /\ call[c].at = "asking"
  /\ call' = [call EXCEPT ![c].at = "answered"]
  /\ UNCHANGED <<now, servers, counters, plan, usage, history>>

\* The provider's stream is over and gen yields its [DONE].
SendDone(c) ==
  /\ Scheduled(c)
  /\ plan[c].kind = "stream" /\ call[c].at = "asking"
  /\ call' = [call EXCEPT ![c].at = "sent"]
  /\ UNCHANGED <<now, servers, counters, plan, usage, history>>

\* The provider refuses, breaks off or does not answer in time.
ProviderFails(c) ==
  /\ Scheduled(c)
  /\ call[c].at = "asking"
  /\ call' = [call EXCEPT ![c].at = "raised"]
  /\ UNCHANGED <<now, servers, counters, plan, usage, history>>

\* The client takes [DONE], and the generator goes on.
Consume(c) ==
  /\ Scheduled(c)
  /\ call[c].at = "sent"
  /\ call' = [call EXCEPT ![c].at = "answered"]
  /\ UNCHANGED <<now, servers, counters, plan, usage, history>>

\* The client of a stream has gone: the generator is closed where it waits.
Leave(c) ==
  /\ Scheduled(c)
  /\ plan[c].kind = "stream" /\ call[c].at \in {"asking", "sent"}
  /\ call' = [call EXCEPT ![c].at = "left"]
  /\ UNCHANGED <<now, servers, counters, plan, usage, history>>

\* MUTANT of Charge: a failure of Redis is swallowed.
ChargeIfRedis(c) ==
  /\ Scheduled(c)
  /\ call[c].at = "answered"
  /\ call' = [call EXCEPT ![c].at = "charged"]
  /\ IF Limited(c) /\ TokenLimit > 0 /\ redis
     THEN /\ tokens' = [tokens EXCEPT ![Day(now)] = @ + call[c].used]
          /\ paid' = [paid EXCEPT ![c] = call[c].used]
     ELSE UNCHANGED <<tokens, paid>>
  /\ UNCHANGED <<now, servers, rl, rpm, plan, usage, peak, unread>>

\* add_tokens, under the key of the day it is by now.
Charge(c) ==
  /\ Scheduled(c)
  /\ call[c].at = "answered"
  /\ IF ~Limited(c) \/ TokenLimit <= 0 \/ call[c].used = 0
     THEN call' = [call EXCEPT ![c].at = "charged"] /\ UNCHANGED <<tokens, paid>>
     ELSE IF redis
     THEN /\ tokens' = [tokens EXCEPT ![Day(now)] = @ + call[c].used]
          /\ paid' = [paid EXCEPT ![c] = call[c].used]
          /\ call' = [call EXCEPT ![c].at = "charged"]
     ELSE call' = [call EXCEPT ![c].at = "raised"] /\ UNCHANGED <<tokens, paid>>
  /\ UNCHANGED <<now, servers, rl, rpm, usage, peak, unread, plan>>

\* _record_usage, whose failure only a streamed call survives, and what follows
\* it: one that is not streamed may still fail over the answer it is to return.
Record(c) ==
  /\ Scheduled(c)
  /\ call[c].at = "charged"
  /\ \/ /\ usage' = [usage EXCEPT ![c] = 1]
        /\ \E place \in IF plan[c].kind = "stream" THEN {"ok"} ELSE {"ok", "raised"} :
             call' = [call EXCEPT ![c].at = place]
     \/ /\ call' = [call EXCEPT ![c].at = IF plan[c].kind = "stream" THEN "ok" ELSE "raised"]
        /\ UNCHANGED usage
  /\ UNCHANGED <<now, servers, counters, history, plan>>

-----------------------------------------------------------------------------
(* The processes, Redis and the clock.                                     *)

\* init_state, after the process has stopped with its calls.
InitState(p) ==
  /\ faults < MaxFaults
  /\ faults' = faults + 1
  /\ quota' = [quota EXCEPT ![p] = IF redis THEN "redis" ELSE "noop"]
  /\ blind' = (blind \/ ~redis)
  /\ call' = [c \in Calls |->
                IF plan[c].on = p /\ call[c].at \in {"reserving", "asking", "sent", "answered", "charged"}
                THEN [call[c] EXCEPT !.at = "killed"] ELSE call[c]]
  /\ UNCHANGED <<now, redis, counters, plan, usage, history>>

RedisStops ==
  /\ redis /\ faults < MaxFaults
  /\ redis' = FALSE /\ faults' = faults + 1
  /\ UNCHANGED <<now, quota, blind, counters, plan, call, usage, history>>

RedisReturns ==
  /\ ~redis
  /\ redis' = TRUE
  /\ UNCHANGED <<now, faults, quota, blind, counters, plan, call, usage, history>>

Tick ==
  /\ now < LastMinute
  /\ now' = now + 1
  /\ UNCHANGED <<servers, counters, plan, call, usage, history>>

-----------------------------------------------------------------------------
Handler(c) ==
  \/ Dispatch(c) \/ Count(c) \/ Peek(c)
  \/ Chunk(c) \/ EmbedInput(c) \/ AnswerChat(c) \/ AnswerEmbeddings(c) \/ ProviderFails(c)
  \/ SendDone(c) \/ Consume(c) \/ Leave(c) \/ Charge(c) \/ Record(c)

InferenceNext ==
  \/ \E c \in Calls : Handler(c)
  \/ \E p \in Gateways : InitState(p)
  \/ RedisStops \/ RedisReturns \/ Tick

InferenceSpec == InferenceInit /\ [][InferenceNext]_inferenceVars

-----------------------------------------------------------------------------
\* However the processes interleave and whatever fails, where there is a limit:
\* unless a process has started without Redis, every call of the workspace that
\* reaches a provider has been counted, and at most rpm_limit of those counted in
\* one minute do.
WindowHolds ==
  RpmLimit > 0 =>
    /\ ~blind => \A c \in Asked : plan[c].workspace => call[c].counted # -1
    /\ \A m \in Minutes :
         Cardinality({c \in Asked : call[c].counted = m}) <= RpmLimit

\* The day's budget is read before a call and charged after it, across
\* midnight too, so a day may end beyond it, but by no more than the calls that
\* were open at one moment can use, and those that went on without reading it.
OverrunBounded ==
  TokenLimit > 0 =>
    \A d \in Days : tokens[d] <= TokenLimit - 1 + MaxTokens * (peak + Cardinality(unread))

\* A call is refused only when the window it met is used up: by as many other
\* calls of its minute, refused ones included, or by the tokens of a day no
\* earlier than that minute.
RefusalsDue ==
  \A c \in Calls :
    /\ call[c].at = "exceeded" =>
         Cardinality({d \in Calls : call[d].counted = call[c].counted}) > RpmLimit
    /\ call[c].at = "exhausted" =>
         \E d \in Days : Day(call[c].counted) <= d /\ tokens[d] >= TokenLimit

\* The counters hold what the calls were charged.  A call that succeeds, and one
\* that has a row, has been charged what it used; one that succeeds and is not
\* streamed has a row.  What was refused or broken off has neither.
LedgerAgrees ==
  /\ Sum(tokens, Days) = Sum(paid, Calls)
  /\ \A c \in Calls :
       /\ (call[c].at = "ok" \/ usage[c] = 1) /\ c \in Metered /\ TokenLimit > 0 =>
            paid[c] = call[c].used
       /\ call[c].at = "ok" /\ plan[c].kind # "stream" => usage[c] = 1
       /\ call[c].at \in {"left", "limited", "exceeded", "exhausted"} =>
            paid[c] = 0 /\ usage[c] = 0

\* docs/api.md: token usage is recorded for every call.  So there is a row for
\* each call whose client took an answer, all of it or as far as it stayed.
EveryCallIsRecorded ==
  \A c \in Calls : call[c].at \in {"ok", "left"} /\ call[c].used > 0 => usage[c] = 1
=============================================================================
