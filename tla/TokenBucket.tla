----------------------------- MODULE TokenBucket -----------------------------
(***************************************************************************)
(* The _TokenBucket of sources/notion.py and the requests of one sync that *)
(* pass it.  A tick is 1/Period of the bucket's period and a token is      *)
(* Period units, so that Rate units come back per tick and the waits of    *)
(* the code are whole ticks.  The requests queue for the asyncio lock.     *)
(***************************************************************************)
EXTENDS Clock, Integers

CONSTANTS Rate,        \* requests per period
          Period,      \* ticks per period, a multiple of Rate
          MaxRequests  \* Bound: requests sent

ASSUME BucketAssumption ==
  /\ Rate \in Nat \ {0} /\ MaxRequests \in Nat
  /\ \E k \in 1..Period : Period = k * Rate

VARIABLES tokens,       \* _tokens, in units
          last_refill,  \* _last_refill
          wakes,        \* when the request that sleeps with the lock goes on
          sent          \* history: how many requests were let through up to the
                        \* end of each tick

bucketVars == <<tokens, last_refill, wakes, sent>>

Awake == MaxNow + Period + 1  \* no request sleeps
Full == Rate * Period

BucketInit ==
  /\ tokens = Full /\ last_refill = 0 /\ wakes = Awake
  /\ sent = [t \in 0..MaxNow |-> 0]

\* Requests let through from tick a to tick b.
SentIn(a, b) == sent[b] - (IF a = 0 THEN 0 ELSE sent[a - 1])

LetThrough == /\ sent[now] < MaxRequests
              /\ sent' = [t \in 0..MaxNow |-> IF t < now THEN sent[t] ELSE sent[t] + 1]
------------------------------------------------------------------------------
\* Plausible slip: idle time earns tokens without end.
RefillUnbounded == tokens + (now - last_refill) * Rate

Refill == IF RefillUnbounded > Full THEN Full ELSE RefillUnbounded

\* Plausible slip: the last token is lent.
TakeAnyway ==
  /\ wakes = Awake
  /\ tokens' = Refill - Period /\ last_refill' = now
  /\ LetThrough
  /\ UNCHANGED <<now, wakes>>

\* acquire with a token at hand.
Take ==
  /\ wakes = Awake /\ Refill >= Period
  /\ tokens' = Refill - Period /\ last_refill' = now
  /\ LetThrough
  /\ UNCHANGED <<now, wakes>>

\* acquire without: the request sleeps until one token's worth has come.
Sleep ==
  /\ wakes = Awake /\ Refill < Period
  /\ tokens' = Refill /\ last_refill' = now
  /\ wakes' = now + (Period - Refill) \div Rate
  /\ UNCHANGED <<now, sent>>

Wake ==
  /\ now >= wakes
  /\ tokens' = 0 /\ wakes' = Awake
  /\ LetThrough
  /\ UNCHANGED <<now, last_refill>>

BucketNext == \/ Take \/ Sleep \/ Wake
              \/ Tick /\ UNCHANGED bucketVars

BucketSpec == BucketInit /\ now = 0 /\ [][BucketNext]_<<now, bucketVars>>
------------------------------------------------------------------------------
BucketTypeOK ==
  /\ tokens \in 0..Full /\ last_refill \in 0..now
  /\ wakes \in Nat
  /\ sent \in [0..MaxNow -> Nat]

\* What the code does of what it promises: a stretch of ticks from a to b lets
\* through at most the burst, two tokens for each the stretch earns, and the
\* one being waited for.  Time slept is counted again by the next refill,
\* _last_refill not having moved when the sleeper wakes (notion.py:54-69), but
\* it is counted no third time, and idle time only once.
PaceAtMostDoubled ==
  \A a, b \in 0..now : a <= b =>
    SentIn(a, b) * Period <= Full + 2 * (b - a) * Rate + Period

\* notion.py:13, 41, 47: "average 3 req/s", with "a small burst": a stretch
\* lets through the burst, what the stretch earns and the one waited for.
PromisedPace ==
  \A a, b \in 0..now : a <= b =>
    SentIn(a, b) * Period <= Full + (b - a) * Rate + Period
==============================================================================
