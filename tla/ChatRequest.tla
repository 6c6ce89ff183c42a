---------------------------- MODULE ChatRequest ----------------------------
(***************************************************************************)
(* One chat completion, from the HTTP handler that reads its events to the *)
(* goroutines that fetch the upstream's answers: ChatFlow.executeWithRetry *)
(* (internal/flow/chat.go) retries over tokens and hands events to the     *)
(* handler through the channel outCh; every attempt has a goroutine of its *)
(* own (internal/xai/chat.go, streamChat) that hands events to the flow    *)
(* through a channel of its own.  Both channels are bounded, a full one    *)
(* blocks its sender, and no send gives up when the request is cancelled.  *)
(***************************************************************************)
EXTENDS Naturals, Sequences

CONSTANTS
    NoToken,            \* no current token
    Primary, Fallback,  \* tokens of the model's pool and of its fallback pool
    MaxTokens, PerTokenRetries,     \* retry.max_tokens, per_token_retries
    EventCap, OutCap,   \* the channels' capacities, 16 and 64 in the code
    Lines,              \* bound on the lines of one answer
    Answers,            \* errors the upstream may answer with
    AtOnce              \* errors client.Chat may return by itself

Tokens == Primary \cup Fallback
MaxAttempts == MaxTokens * PerTokenRetries
Attempts == 0 .. MaxAttempts - 1

\* What an error is to the flow: a 401, a 403 of the token, a 403 of
\* Cloudflare, a 429, a policy refusal, any other 400, a network error or
\* 5xx, an error none of the tests knows, and the end of the context.
Error == {"invalid", "forbidden", "challenge", "limited", "policy", "bad",
          "transport", "other", "cancelled"}

ASSUME ChatAssumption ==
    /\ Primary \cap Fallback = {}
    /\ NoToken \notin Tokens
    /\ MaxTokens \in Nat /\ PerTokenRetries \in Nat
    /\ EventCap \in Nat \ {0} /\ OutCap \in Nat \ {0} /\ Lines \in Nat
    /\ Answers \cup AtOnce \subseteq Error \ {"cancelled"}

VARIABLES
    flow,       \* executeWithRetry
    up,         \* the goroutine of each attempt
    events,     \* the channel of each attempt
    out,        \* outCh, closed once the flow has ended
    handler,    \* streamResponse or blockingResponse
    cancelled,  \* the request's context has ended
    late,       \* the retry budget has passed
    selectable, \* tokens a pick may return; other requests change it too
    refused,    \* history: tokens cooled or expired by a 429 or 403 of this
                \* request and not put back since
    stale,      \* history: the client's session met a challenge, no reset yet
    cut,        \* history: attempts whose answer the flow stopped reading
    billed      \* history: successes reported, consumed and recorded

history == <<refused, stale, cut, billed>>
vars == <<flow, up, events, out, handler, cancelled, late, selectable, history>>

FlowPc == {"top", "pick", "fallback", "call", "backoff", "stream", "emit",
           "flush", "finish", "settle", "fail", "done", "panicked"}

Flow == [pc : FlowPc, attempt : 0 .. MaxAttempts, token : Tokens \cup {NoToken},
         retries : 0 .. PerTokenRetries, got : 0 .. Lines]

Sender == [pc : {"off", "asked", "body", "failing", "ended"}, sent : 0 .. Lines,
           err : Error \cup {"none"}]

Handler == [pc : {"reading", "left", "failed", "complete"}, streaming : BOOLEAN]

Item == {"line", "malformed"} \cup Error

TypeOK ==
    /\ flow \in Flow
    /\ up \in [Attempts -> Sender]
    /\ events \in [Attempts -> Seq(Item)]
    /\ \A a \in Attempts : Len(events[a]) <= EventCap
    /\ out \in Seq({"content", "finish", "error"}) /\ Len(out) <= OutCap
    /\ handler \in Handler
    /\ cancelled \in BOOLEAN /\ late \in BOOLEAN
    /\ selectable \subseteq Tokens
    /\ refused \subseteq Tokens
    /\ stale \in BOOLEAN
    /\ cut \subseteq Attempts
    /\ billed \in 0 .. 1

Init ==
    /\ flow = [pc |-> "top", attempt |-> 0, token |-> NoToken, retries |-> 0,
               got |-> 0]
    /\ up = [a \in Attempts |-> [pc |-> "off", sent |-> 0, err |-> "none"]]
    /\ events = [a \in Attempts |-> <<>>]
    /\ out = <<>>
    /\ handler \in [pc : {"reading"}, streaming : BOOLEAN]
    /\ cancelled = FALSE /\ late = FALSE
    /\ selectable \in SUBSET Tokens
    /\ refused = {} /\ stale = FALSE /\ cut = {} /\ billed = 0

-----------------------------------------------------------------------------
(* What the flow makes of an error.                                        *)

NonRecoverable == {"invalid", "policy", "bad", "cancelled"}

\* Mutant of Swaps: the codes that cool a token do not make the flow let go.
SwapsForbiddenOnly(e) == e = "forbidden"

\* ShouldSwapToken with the default cooling code.
Swaps(e) == e \in {"forbidden", "limited"}

\* handleError: a token is expired, cooled or quarantined, which takes it out
\* of selection, or counts a failure, which may; a challenge, a network error
\* and a cancellation are not held against it.
HandleError(t, e) ==
    \/ /\ e \in {"invalid", "forbidden", "limited", "policy", "bad", "other"}
       /\ selectable' = selectable \ {t}
       /\ refused' = IF e \in {"forbidden", "limited"}
                     THEN refused \cup {t} ELSE refused
    \/ /\ e \in {"challenge", "transport", "cancelled", "bad", "other"}
       /\ UNCHANGED <<selectable, refused>>

-----------------------------------------------------------------------------
(* The flow's loop.                                                        *)

Goto(pc) == flow' = [flow EXCEPT !.pc = pc]

\* Mutant of LoopHead: one attempt too many.
LoopHeadPast ==
    LET over == flow.attempt > MaxAttempts \/ late \/ cancelled
        fresh == flow.token = NoToken \/ flow.retries >= PerTokenRetries
    IN  /\ flow.pc = "top"
        /\ \/ over /\ Goto("fail")
           \/ ~over /\ fresh /\ Goto("pick")
           \/ ~over /\ ~fresh /\ Goto("call")
        /\ UNCHANGED <<up, events, out, handler, cancelled, late, selectable, history>>

\* The budget, the context and the token to use; after the last attempt, and
\* whenever the loop is left, the error goes to the client.
LoopHead ==
    LET over == flow.attempt = MaxAttempts \/ late \/ cancelled
        fresh == flow.token = NoToken \/ flow.retries >= PerTokenRetries
    IN  /\ flow.pc = "top"
        /\ \/ over /\ Goto("fail")
           \/ ~over /\ fresh /\ Goto("pick")
           \/ ~over /\ ~fresh /\ Goto("call")
        /\ UNCHANGED <<up, events, out, handler, cancelled, late, selectable, history>>

NextAttempt ==
    flow' = [flow EXCEPT !.pc = "top", !.attempt = @ + 1]

\* Pick from the pool, then from the fallback, each under the manager's lock;
\* a new token comes with a new client and so with a new session.
PickFrom(pool, otherwise) ==
    \/ \E t \in pool \cap selectable :
          /\ flow' = [flow EXCEPT !.pc = "call", !.token = t, !.retries = 0]
          /\ stale' = FALSE
    \/ /\ pool \cap selectable = {}
       /\ otherwise
       /\ UNCHANGED stale

Pick ==
    /\ \/ /\ flow.pc = "pick"
          /\ PickFrom(Primary, IF Fallback = {} THEN NextAttempt
                               ELSE Goto("fallback"))
       \/ /\ flow.pc = "fallback"
          /\ PickFrom(Fallback, NextAttempt)
    /\ UNCHANGED <<up, events, out, handler, cancelled, late, selectable, refused,
                   cut, billed>>

\* The factory had returned no client: the call panics, SafeGo recovers, and
\* the deferred close of outCh is all that is left of the flow.
CallWithoutClient ==
    /\ flow.pc = "call" /\ flow.retries = 0
    /\ Goto("panicked")
    /\ UNCHANGED <<up, events, out, handler, cancelled, late, selectable, history>>

\* buildXAIRequest fails: an upload, or a message without content.
BuildFails ==
    /\ flow.pc = "call"
    /\ Goto("fail")
    /\ UNCHANGED <<up, events, out, handler, cancelled, late, selectable, history>>

Chat ==
    /\ flow.pc = "call"
    /\ flow' = [flow EXCEPT !.pc = "stream", !.got = 0]
    /\ up' = [up EXCEPT ![flow.attempt].pc = "asked"]
    /\ UNCHANGED <<events, out, handler, cancelled, late, selectable, history>>

\* client.Chat returns an error: the session is reset after a challenge, an
\* error that is not recoverable ends the request, others wait for a retry
\* unless the budget ends before the delay does.
ChatFails(e) ==
    /\ flow.pc = "call" /\ e \in AtOnce
    /\ HandleError(flow.token, e)
    /\ stale' = (stale /\ e # "challenge")
    /\ \E pc \in IF e \in NonRecoverable THEN {"fail"}
                 ELSE IF late THEN {"fail"} ELSE {"backoff", "fail"} :
          flow' = [flow EXCEPT !.pc = pc, !.retries = @ + 1,
                               !.token = IF Swaps(e) THEN NoToken ELSE @]
    /\ UNCHANGED <<up, events, out, handler, cancelled, late, cut, billed>>

Backoff ==
    /\ flow.pc = "backoff"
    /\ \/ NextAttempt
       \/ cancelled /\ Goto("fail")
    /\ UNCHANGED <<up, events, out, handler, cancelled, late, selectable, history>>

-----------------------------------------------------------------------------
(* streamEvents and what follows it.                                       *)

\* The stream ended in an error: the token pays, and is let go when its
\* retries are used up or the error asks for another one.  Neither the
\* session nor whether the error is recoverable is looked at.
StreamFails(e) ==
    /\ HandleError(flow.token, e)
    /\ flow' = [flow EXCEPT
                  !.pc = "top", !.attempt = @ + 1, !.retries = @ + 1,
                  !.token = IF flow.retries + 1 >= PerTokenRetries \/ Swaps(e)
                            THEN NoToken ELSE @]
    /\ stale' = (stale \/ e = "challenge")

Chan == events[flow.attempt]
Receive == events' = [events EXCEPT ![flow.attempt] = Tail(@)]
CutOff == cut' = cut \cup {flow.attempt}

StreamCancelled ==
    /\ flow.pc = "stream" /\ cancelled
    /\ StreamFails("cancelled")
    /\ CutOff
    /\ UNCHANGED <<up, events, out, handler, cancelled, late, billed>>

\* A line that is no JSON is an error of the token; an error event is last.
StreamError ==
    /\ flow.pc = "stream" /\ Chan # <<>> /\ Head(Chan) # "line"
    /\ Receive
    /\ IF Head(Chan) = "malformed"
       THEN StreamFails("other") /\ CutOff
       ELSE StreamFails(Head(Chan)) /\ UNCHANGED cut
    /\ UNCHANGED <<up, out, handler, cancelled, late, billed>>

\* A line is forwarded, unless parsing and filters leave nothing of it.
StreamLine ==
    /\ flow.pc = "stream" /\ Chan # <<>> /\ Head(Chan) = "line"
    /\ Receive
    /\ \E pc \in {"emit", "stream"} :
          flow' = [flow EXCEPT !.pc = pc, !.got = @ + 1]
    /\ UNCHANGED <<up, out, handler, cancelled, late, selectable, history>>

StreamClosed ==
    /\ flow.pc = "stream" /\ Chan = <<>> /\ up[flow.attempt].pc = "ended"
    /\ Goto("flush")
    /\ UNCHANGED <<up, events, out, handler, cancelled, late, selectable, history>>

\* A blocking send on outCh.
Send(event, pc) ==
    /\ Len(out) < OutCap
    /\ out' = Append(out, event)
    /\ Goto(pc)
    /\ UNCHANGED <<up, events, handler, cancelled, late, selectable, history>>

\* Text the filters held back may be left to send before the finish event.
SendEvent ==
    \/ flow.pc = "emit"  /\ Send("content", "stream")
    \/ flow.pc = "flush" /\ Send("content", "finish")
    \/ flow.pc \in {"flush", "finish"} /\ Send("finish", "settle")

\* ReportSuccess, Consume, the usage record and the API key's counter.
Settle ==
    /\ flow.pc = "settle"
    /\ Goto("done")
    /\ billed' = billed + 1
    /\ \E s \in {selectable, selectable \cup {flow.token}} : selectable' = s
    /\ UNCHANGED <<up, events, out, handler, cancelled, late, refused, stale,
                   cut>>

\* Mutant of Fail: the channel is closed without the error.
FailSilently ==
    /\ flow.pc = "fail"
    /\ Goto("done")
    /\ UNCHANGED <<up, events, out, handler, cancelled, late, selectable, history>>

Fail == flow.pc = "fail" /\ Send("error", "done")

-----------------------------------------------------------------------------
(* streamChat, one attempt each: the chat flow's clients do not retry.     *)

\* Mutant of Respond: an answer that is cut short is taken for a whole one.
RespondAnyEnd(a) ==
    /\ \/ up[a].pc = "asked"
          /\ \/ up' = [up EXCEPT ![a].pc = "body"]
             \/ \E e \in Answers \cup {"transport"} :
                   up' = [up EXCEPT ![a].pc = "failing", ![a].err = e]
       \/ up[a].pc = "body"
          /\ \E e \in {"none", "transport"} :
                up' = [up EXCEPT ![a].pc = "ended", ![a].err = e]
    /\ UNCHANGED <<flow, events, out, handler, cancelled, late, selectable, history>>

\* The response's status, and the end of its body.
Respond(a) ==
    /\ \/ up[a].pc = "asked"
          /\ \/ up' = [up EXCEPT ![a].pc = "body"]
             \/ \E e \in Answers \cup {"transport"} :
                   up' = [up EXCEPT ![a].pc = "failing", ![a].err = e]
       \/ up[a].pc = "body"
          /\ \/ up' = [up EXCEPT ![a].pc = "ended"]
             \/ up' = [up EXCEPT ![a].pc = "failing", ![a].err = "transport"]
    /\ UNCHANGED <<flow, events, out, handler, cancelled, late, selectable, history>>

SendLine(a) ==
    /\ up[a].pc = "body" /\ up[a].sent < Lines
    /\ Len(events[a]) < EventCap
    /\ \E line \in {"line", "malformed"} :
          events' = [events EXCEPT ![a] = Append(@, line)]
    /\ up' = [up EXCEPT ![a].sent = @ + 1]
    /\ UNCHANGED <<flow, out, handler, cancelled, late, selectable, history>>

\* Mutant of SendError: the goroutine tries again after it has given up.
SendErrorAndRetry(a) ==
    /\ up[a].pc = "failing" /\ Len(events[a]) < EventCap
    /\ events' = [events EXCEPT ![a] = Append(@, up[a].err)]
    /\ up' = [up EXCEPT ![a].pc = "asked"]
    /\ UNCHANGED <<flow, out, handler, cancelled, late, selectable, history>>

SendError(a) ==
    /\ up[a].pc = "failing" /\ Len(events[a]) < EventCap
    /\ events' = [events EXCEPT ![a] = Append(@, up[a].err)]
    /\ up' = [up EXCEPT ![a].pc = "ended"]
    /\ UNCHANGED <<flow, out, handler, cancelled, late, selectable, history>>

-----------------------------------------------------------------------------
(* The handler, and what happens around the request.                       *)

Closed == flow.pc \in {"done", "panicked"}

\* The context ends with the handler.
Return(pc) ==
    /\ handler' = [handler EXCEPT !.pc = pc]
    /\ cancelled' = (cancelled \/ pc # "reading")
    /\ UNCHANGED <<flow, up, events, late, selectable, history>>

\* Only a streaming handler looks at the context, after it received an event.
Read ==
    /\ handler.pc = "reading" /\ out # <<>>
    /\ out' = Tail(out)
    /\ Return(IF handler.streaming /\ cancelled THEN "left"
              ELSE IF Head(out) = "error" THEN "failed" ELSE "reading")

Complete ==
    /\ handler.pc = "reading" /\ out = <<>> /\ Closed
    /\ UNCHANGED out
    /\ Return("complete")

Disconnect ==
    /\ ~cancelled
    /\ cancelled' = TRUE
    /\ UNCHANGED <<flow, up, events, out, handler, late, selectable, history>>

BudgetPasses ==
    /\ ~late /\ ~Closed
    /\ late' = TRUE
    /\ UNCHANGED <<flow, up, events, out, handler, cancelled, selectable, history>>

\* Other requests, tickers and operators: TokenManager.
OthersChange(t) ==
    /\ ~Closed
    /\ \/ t \in selectable /\ selectable' = selectable \ {t} /\ UNCHANGED refused
       \/ /\ t \notin selectable
          /\ selectable' = selectable \cup {t}
          /\ refused' = refused \ {t}
    /\ UNCHANGED <<flow, up, events, out, handler, cancelled, late, stale,
                   cut, billed>>

-----------------------------------------------------------------------------
FlowStep ==
    \/ LoopHead \/ Pick
    \/ CallWithoutClient \/ BuildFails \/ Chat \/ Backoff
    \/ \E e \in AtOnce : ChatFails(e)
    \/ StreamCancelled \/ StreamError \/ StreamLine \/ StreamClosed
    \/ SendEvent \/ Settle \/ Fail

Upstream(a) == Respond(a) \/ SendLine(a) \/ SendError(a)

HandlerStep == Read \/ Complete

Next ==
    \/ FlowStep
    \/ \E a \in Attempts : Upstream(a)
    \/ HandlerStep
    \/ Disconnect \/ BudgetPasses
    \/ \E t \in Tokens : OthersChange(t)

Spec == Init /\ [][Next]_vars

(***************************************************************************)
(* Goroutines run whenever they are not blocked; the HTTP client's timeout *)
(* ends every answer and the server's write timeout every blocked write.   *)
(* Nobody has to disconnect, and the budget need not pass.                 *)
(***************************************************************************)
Fairness ==
    /\ WF_vars(FlowStep)
    /\ \A a \in Attempts : WF_vars(Upstream(a))
    /\ WF_vars(HandlerStep)

FairSpec == Spec /\ Fairness
-----------------------------------------------------------------------------
(* Properties.                                                             *)

\* Whatever was retried before, the client is told once how its request
\* ended, after everything else, and what it is told is what was billed: a
\* finish event means one success, an error none (chat.go:218-256).
OneEnding ==
    LET finished == flow.pc = "settle" \/ billed = 1
    IN  /\ \A i \in 1 .. Len(out) : out[i] # "content" => i = Len(out)
        /\ (\E i \in 1 .. Len(out) : out[i] = "finish") => finished
        /\ (\E i \in 1 .. Len(out) : out[i] = "error") => billed = 0 /\ flow.pc = "done"
        /\ handler.pc = "failed" => billed = 0 /\ flow.pc = "done"
        /\ handler.pc = "complete" => billed = 1 \/ flow.pc = "panicked"

\* Only an answer that came to its end upstream, every line of which the flow
\* has received, is finished and billed: one that was cut short by the
\* network is an error, whatever was already forwarded.
OnlyWholeAnswersFinish ==
    flow.pc \in {"flush", "finish", "settle"} \/ billed = 1 =>
        LET u == up[flow.attempt]
        IN  u.pc = "ended" /\ u.err = "none" /\ u.sent = flow.got

\* A token this request has had cooled or expired by a 403 is not called by
\* it again, on any later attempt and through either pool, unless someone has
\* put it back meanwhile (ShouldSwapToken).
CooledNotCalled ==
    flow.pc = "stream" => flow.token \notin refused

\* A client that waits is answered, and the request then leaves nothing
\* behind: the flow has ended and so has every upstream goroutine, but those
\* whose answer the flow stopped reading half way.  Only a streaming handler
\* that leaves after a disconnect may leave the flow blocked on outCh.
RequestEnds ==
    <>(\/ handler.pc = "left"
       \/ /\ handler.pc # "reading" /\ Closed
          /\ \A a \in Attempts : up[a].pc \in {"off", "ended"} \/ a \in cut)

\* Comment: "CF challenge always resets session" (retry.go:132): the client
\* that met a challenge is not used again before its session was reset.
ChallengeResetsSession == flow.pc = "stream" => ~stale
=============================================================================
