----------------------------- MODULE PublicCalls -----------------------------
(***************************************************************************)
(* The two callers of the rate limiter: ChatService.answer (chat/          *)
(* service.py), limited per thread, and the analyze endpoints (api/routes/ *)
(* analyze.py), limited per client host.  Each awaits one thing after it   *)
(* was let in: chat the model, through a router and a token budget of its  *)
(* own, analyze the diff it fetches from GitHub.  Pasted code is reviewed  *)
(* offline, which awaits nothing but coroutines that never suspend.        *)
(***************************************************************************)
EXTENDS RateLimiter

CONSTANTS
  Thread,     \* chat threads, the keys of chat
  HasRouter,  \* ChatService was given a router
  MaxCalls    \* bound: calls in a behaviour

ASSUME PublicAssumption == Thread \subseteq LimitKey /\ HasRouter \in BOOLEAN /\ MaxCalls \in Nat

VARIABLES
  awaits,  \* per caller: what it awaits after it was let in
  reply,   \* per caller: the answer to its last call
  calls    \* history: calls so far

callVars == <<limiterVars, awaits, reply, calls>>

Host == LimitKey \ Thread
Awaited == {"nothing", "model", "diff"}

(* full: the model's text, or a review; fallback: the answer built from    *)
(* the finding, or an error status.                                        *)
Reply == {"none", "full", "fallback"}

CallsTypeOK == LimiterTypeOK /\ awaits \in [Caller -> Awaited] /\ reply \in [Caller -> Reply]

CallsInit ==
  /\ LimiterInit
  /\ awaits = [c \in Caller |-> "nothing"]
  /\ reply = [c \in Caller |-> "none"]
  /\ calls = 0

-----------------------------------------------------------------------------
(* A question or a request arrives and reaches the limiter; what fails     *)
(* validation (422) never gets here.                                       *)
Call(c, k) ==
  /\ calls < MaxCalls /\ calls' = calls + 1
  /\ ReadClock(c, k)
  /\ reply' = [reply EXCEPT ![c] = "none"]
  /\ UNCHANGED awaits

Admit(c) == Allow(c) /\ UNCHANGED <<awaits, reply, calls>>

Return(c, answer) ==
  /\ Leave(c)
  /\ awaits' = [awaits EXCEPT ![c] = "nothing"]
  /\ reply' = [reply EXCEPT ![c] = answer]
  /\ UNCHANGED calls

AwaitFor(c, what) ==
  /\ awaits' = [awaits EXCEPT ![c] = what]
  /\ UNCHANGED <<limiterVars, reply, calls>>

(* Over the limit: the canned answer in chat, 429 from analyze.            *)
Refused(c) == stage[c] = "refused" /\ Return(c, "fallback")

(* Let in: without a router the answer is canned, else the model is asked. *)
Answer(c) ==
  /\ stage[c] = "granted" /\ awaits[c] = "nothing" /\ key[c] \in Thread
  /\ IF HasRouter THEN AwaitFor(c, "model") ELSE Return(c, "fallback")

(* Mutant of AfterModel: an exception of the router is not caught.         *)
AfterModelOrRaise(c) ==
  /\ awaits[c] = "model"
  /\ \E answer \in {"full", "none"} : Return(c, answer)

(* complete returned a text, or it raised (budget, outage, anything else)  *)
(* and the answer is canned, as it is for an empty text.                   *)
AfterModel(c) ==
  /\ awaits[c] = "model"
  /\ \E answer \in {"full", "fallback"} : Return(c, answer)

(* /code and /pr: 400 without code or a pull request's URL; pasted code is *)
(* reviewed at once, a pull request's diff is fetched first.               *)
Analyze(c) ==
  /\ stage[c] = "granted" /\ awaits[c] = "nothing" /\ key[c] \in Host
  /\ Return(c, "fallback") \/ Return(c, "full") \/ AwaitFor(c, "diff")

(* The fetch fails (502) or finds nothing (404), or its diff is reviewed.  *)
AfterFetch(c) ==
  /\ awaits[c] = "diff"
  /\ \E answer \in {"fallback", "full"} : Return(c, answer)

Proceed(c) == Admit(c) \/ Refused(c) \/ Answer(c) \/ AfterModel(c) \/ Analyze(c) \/ AfterFetch(c)

CallsNext ==
  \/ Tick /\ UNCHANGED <<awaits, reply, calls>>
  \/ \E c \in Caller : (\E k \in LimitKey : Call(c, k)) \/ Proceed(c)

(* A call that was made keeps going: the lock is never held across an      *)
(* await, and both the model and the fetch have timeouts.                  *)
CallsFairness == \A c \in Caller : WF_callVars(Proceed(c))

CallsSpec == CallsInit /\ [][CallsNext]_callVars /\ CallsFairness

-----------------------------------------------------------------------------
(* "so chat always responds" (chat/service.py:7), and so does analyze:     *)
(* every call is answered, whatever the limiter, the model and GitHub do.  *)
EveryCallIsAnswered ==
  \A c \in Caller : stage[c] = "waiting" ~> (stage[c] = "idle" /\ reply[c] # "none")
=============================================================================
