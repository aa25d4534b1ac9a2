----------------------------- MODULE ModelClient -----------------------------
(***************************************************************************)
(* The calls of the language model: the chain of providers that            *)
(* build_llm_client makes and FallbackLLMClient walks, the attempts of     *)
(* _post_with_retry at each provider, and the RateLimiter that all runs    *)
(* share for the requests to NVIDIA.  Threads make calls at the same time; *)
(* what is asked and answered is left out.                                 *)
(*                                                                         *)
(* The deque of the limiter is the tail of slots that begins after the     *)
(* first `dropped` entries, so that popleft adds one to dropped and the    *)
(* slots handed out so far remain to be spoken of.                         *)
(***************************************************************************)
EXTENDS Naturals, Sequences, FiniteSets

CONSTANTS
  Threads,
  Configured,   \* the providers with a key, in the order of build_llm_client
  Preferred,    \* settings.model_provider
  MaxRequests,  \* RateLimiter._max_requests
  Window,       \* RateLimiter._per_seconds
  MaxRetries,   \* _MAX_RETRIES
  Backoff,      \* _RETRY_BACKOFF_SECONDS * 2 ** attempt, for each attempt
  MaxCalls,     \* bound: calls of a thread
  Horizon,      \* bound: until then time passes while nobody sleeps
  None

ASSUME ProvidersAssumption == Configured \in Seq({"nvidia", "openai", "openrouter"})

ASSUME ModelClientAssumption ==
  /\ MaxRequests \in Nat \ {0} /\ Window \in Nat \ {0}
  /\ MaxRetries \in Nat /\ Backoff \in [0..MaxRetries -> Nat]
  /\ MaxCalls \in Nat /\ Horizon \in Nat
  /\ None \notin Threads

VARIABLES
  clock,    \* time.monotonic()
  lock,     \* RateLimiter._lock: its holder
  now,      \* the time that its last holder read
  slots,    \* the times of the slots handed out
  dropped,  \* how many of them have left the deque
  pc, link, \* where a thread is, and at which provider of the chain
  attempt,  \* in the loop of _post_with_retry
  nap,      \* how long it was told to sleep
  until,    \* when that is over, 0 for a thread that does not sleep
  calls,    \* how many calls it has made
  got,      \* history: slots it was given
  sent      \* history: requests it sent to the paced provider

limiter == <<lock, now, slots, dropped>>
call    == <<pc, link, attempt, calls>>
sleep   == <<nap, until>>
history == <<got, sent>>
vars    == <<clock, lock, now, slots, dropped, pc, link, attempt, nap, until, calls, got, sent>>

(* The preferred provider leads, if it has a key; the others keep their    *)
(* order.  With no key at all the chain is one client that will fail.      *)
Chain ==
  IF Configured = <<>> THEN <<"openrouter">>
  ELSE SelectSeq(Configured, LAMBDA p : p = Preferred)
       \o SelectSeq(Configured, LAMBDA p : p # Preferred)

(* _rate_limiter of the provider at place i of the chain                   *)
Paced(i) == Chain[i] = "nvidia"

Waiting == {"acquire", "look", "grant", "nap"}
Places  == {"idle", "send", "posted", "backoff"} \cup Waiting

Init ==
  /\ clock = 0 /\ lock = None /\ now = 0 /\ slots = <<>> /\ dropped = 0
  /\ pc = [c \in Threads |-> "idle"] /\ link = [c \in Threads |-> 1]
  /\ attempt = [c \in Threads |-> 0] /\ calls = [c \in Threads |-> 0]
  /\ nap = [c \in Threads |-> 0] /\ until = [c \in Threads |-> 0]
  /\ got = [c \in Threads |-> 0] /\ sent = [c \in Threads |-> 0]

Goto(c, place) == pc' = [pc EXCEPT ![c] = place]

Sleep(c, time) ==
  /\ nap' = [nap EXCEPT ![c] = time]
  /\ until' = [until EXCEPT ![c] = clock + time]

Awake(c) ==
  /\ nap' = [nap EXCEPT ![c] = 0]
  /\ until' = [until EXCEPT ![c] = 0]

-----------------------------------------------------------------------------
(* RateLimiter.acquire                                                     *)

(* Mutant: nobody is kept out.                                             *)
LockAnyway(c) ==
  /\ pc[c] = "acquire"
  /\ lock' = c /\ now' = clock
  /\ Goto(c, "look")
  /\ UNCHANGED <<clock, slots, dropped, link, attempt, calls, sleep, history>>

(* The time is read under the lock.                                        *)
Lock(c) ==
  /\ pc[c] = "acquire" /\ lock = None
  /\ lock' = c /\ now' = clock
  /\ Goto(c, "look")
  /\ UNCHANGED <<clock, slots, dropped, link, attempt, calls, sleep, history>>

InDeque == Len(slots) - dropped
Expired == InDeque > 0 /\ now - slots[dropped + 1] >= Window

Pop(c) ==
  /\ pc[c] = "look" /\ Expired
  /\ dropped' = dropped + 1
  /\ UNCHANGED <<clock, lock, now, slots, call, sleep, history>>

SeeRoom(c) ==
  /\ pc[c] = "look" /\ ~Expired
  /\ InDeque < MaxRequests
  /\ Goto(c, "grant")
  /\ UNCHANGED <<clock, limiter, link, attempt, calls, sleep, history>>

Grant(c) ==
  /\ pc[c] = "grant"
  /\ slots' = Append(slots, now)
  /\ got' = [got EXCEPT ![c] = @ + 1]
  /\ lock' = None
  /\ Goto(c, "send")
  /\ UNCHANGED <<clock, now, dropped, link, attempt, calls, sleep, sent>>

(* Mutant: the sleep is under the lock.                                    *)
SeeNoRoomHolding(c) ==
  /\ pc[c] = "look" /\ ~Expired
  /\ InDeque >= MaxRequests
  /\ Sleep(c, Window - (now - slots[dropped + 1]))
  /\ Goto(c, "nap")
  /\ UNCHANGED <<clock, limiter, link, attempt, calls, history>>

(* The lock is released before the sleep, and nothing is reserved for the  *)
(* sleeper: it looks again.                                                *)
SeeNoRoom(c) ==
  /\ pc[c] = "look" /\ ~Expired
  /\ InDeque >= MaxRequests
  /\ lock' = None
  /\ Sleep(c, Window - (now - slots[dropped + 1]))
  /\ Goto(c, "nap")
  /\ UNCHANGED <<clock, now, slots, dropped, link, attempt, calls, history>>

WakeUp(c) ==
  /\ pc[c] = "nap" /\ clock >= until[c]
  /\ Awake(c)
  /\ Goto(c, "acquire")
  /\ UNCHANGED <<clock, limiter, link, attempt, calls, history>>

-----------------------------------------------------------------------------
(* _post_with_retry and FallbackLLMClient                                  *)

(* An attempt at the provider at place i.                                  *)
Attempt(c, i) == Goto(c, IF Paced(i) THEN "acquire" ELSE "send")

Begin(c) ==
  /\ pc[c] = "idle" /\ calls[c] < MaxCalls
  /\ calls' = [calls EXCEPT ![c] = @ + 1]
  /\ link' = [link EXCEPT ![c] = 1] /\ attempt' = [attempt EXCEPT ![c] = 0]
  /\ Attempt(c, 1)
  /\ UNCHANGED <<clock, limiter, sleep, history>>

Post(c) ==
  /\ pc[c] = "send"
  /\ sent' = [sent EXCEPT ![c] = IF Paced(link[c]) THEN @ + 1 ELSE @]
  /\ Goto(c, "posted")
  /\ UNCHANGED <<clock, limiter, link, attempt, calls, sleep, got>>

Answered(c) ==
  /\ pc[c] = "posted"
  /\ Goto(c, "idle")
  /\ UNCHANGED <<clock, limiter, link, attempt, calls, sleep, history>>

(* A status of _RETRYABLE_STATUS_CODES, with attempts left.                *)
BackOff(c) ==
  /\ pc[c] = "posted" /\ attempt[c] < MaxRetries
  /\ Sleep(c, Backoff[attempt[c]])
  /\ Goto(c, "backoff")
  /\ UNCHANGED <<clock, limiter, link, attempt, calls, history>>

(* Mutant: a slot is acquired for the first attempt.                       *)
RetryUnpaced(c) ==
  /\ pc[c] = "backoff" /\ clock >= until[c]
  /\ attempt' = [attempt EXCEPT ![c] = @ + 1]
  /\ Awake(c)
  /\ Goto(c, "send")
  /\ UNCHANGED <<clock, limiter, link, calls, history>>

Retry(c) ==
  /\ pc[c] = "backoff" /\ clock >= until[c]
  /\ attempt' = [attempt EXCEPT ![c] = @ + 1]
  /\ Awake(c)
  /\ Attempt(c, link[c])
  /\ UNCHANGED <<clock, limiter, link, calls, history>>

(* Any exception - another status, the last retryable one, no connection,  *)
(* an answer that cannot be read - and the next provider of the chain is   *)
(* asked, or the caller gets the exception.                                *)
Fails(c) ==
  /\ pc[c] = "posted"
  /\ IF link[c] < Len(Chain)
       THEN /\ link' = [link EXCEPT ![c] = @ + 1]
            /\ attempt' = [attempt EXCEPT ![c] = 0]
            /\ Attempt(c, link[c] + 1)
       ELSE Goto(c, "idle") /\ UNCHANGED <<link, attempt>>
  /\ UNCHANGED <<clock, limiter, calls, sleep, history>>

-----------------------------------------------------------------------------

Sleeps(c) == pc[c] \in {"nap", "backoff"} /\ until[c] > clock

(* Past the horizon time passes for sleepers.                              *)
Tick ==
  /\ clock < Horizon \/ \E c \in Threads : Sleeps(c)
  /\ clock' = clock + 1
  /\ UNCHANGED <<limiter, call, sleep, history>>

Acquires(c) == Lock(c) \/ Pop(c) \/ SeeRoom(c) \/ Grant(c) \/ SeeNoRoom(c) \/ WakeUp(c)
Asks(c)     == Post(c) \/ Answered(c) \/ BackOff(c) \/ Retry(c) \/ Fails(c)

Next == Tick \/ \E c \in Threads : Begin(c) \/ Acquires(c) \/ Asks(c)

Spec == Init /\ [][Next]_vars

(* Threads are scheduled, a request is answered or times out after 60      *)
(* seconds, and time passes.  Nobody has to begin a call.                  *)
FairSpec ==
  /\ Spec /\ WF_vars(Tick)
  /\ \A c \in Threads : WF_vars(Acquires(c)) /\ WF_vars(Asks(c))

-----------------------------------------------------------------------------
(* Properties                                                              *)

TypeOK ==
  /\ clock \in Nat /\ now \in Nat /\ lock \in Threads \cup {None}
  /\ slots \in Seq(Nat) /\ dropped \in 0..Len(slots)
  /\ pc \in [Threads -> Places] /\ link \in [Threads -> Nat]
  /\ attempt \in [Threads -> 0..MaxRetries] /\ calls \in [Threads -> 0..MaxCalls]
  /\ nap \in [Threads -> Nat] /\ until \in [Threads -> Nat]
  /\ got \in [Threads -> Nat] /\ sent \in [Threads -> Nat]

(* RateLimiter's promise: never more than MaxRequests acquisitions in any  *)
(* window, wherever it begins, whichever threads they were for, and        *)
(* whoever waited, retried or took the slot that another had waited for.   *)
WindowNeverExceeded ==
  \A t \in 0..clock :
    Cardinality({i \in DOMAIN slots : slots[i] \in t..t + Window - 1}) <= MaxRequests

(* Whoever is told to sleep for a slot sleeps a time that time.sleep       *)
(* accepts, and not for more than the window.                              *)
NapsAreBounded == \A c \in Threads : pc[c] = "nap" => nap[c] \in 1..Window

(* Every request to the paced provider, retries and fallbacks included,    *)
(* used a slot of its own, and no slot was handed out for nothing: the     *)
(* comment in _post_with_retry on the place of acquire().                  *)
EveryRequestPaced == \A c \in Threads :
  got[c] = IF pc[c] = "send" /\ Paced(link[c]) THEN sent[c] + 1 ELSE sent[c]

(* Every call ends, with an answer or an exception: nobody waits for a     *)
(* slot for ever - if the others make calls for a limited time, as they do *)
(* here.  A waiter that others keep passing by is never served first.      *)
EveryCallEnds == \A c \in Threads : pc[c] # "idle" ~> pc[c] = "idle"
=============================================================================
