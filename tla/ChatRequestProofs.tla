------------------------- MODULE ChatRequestProofs -------------------------
(***************************************************************************)
(* Proofs about ChatRequest for any tokens, retry limits, channel sizes,   *)
(* answers and errors.                                                     *)
(***************************************************************************)
EXTENDS ChatRequest, TLAPS

(***************************************************************************)
(* Where the loop is: attempts to come are untouched, and a token is only  *)
(* called with retries left.                                               *)
(***************************************************************************)
Calling == {"call", "stream", "emit"}
Before == {"top", "pick", "fallback", "call", "backoff"}
Untouched(a) == up[a] = [pc |-> "off", sent |-> 0, err |-> "none"]
                /\ events[a] = <<>>

LoopInv ==
    /\ \A a \in Attempts : a > flow.attempt => Untouched(a)
    /\ flow.pc \in Before /\ flow.attempt \in Attempts => Untouched(flow.attempt)
    /\ flow.pc \notin {"top", "fail", "done"} => flow.attempt \in Attempts
    /\ flow.pc \in Calling => flow.token \in Tokens /\ flow.retries < PerTokenRetries
    /\ flow.pc \in {"flush", "finish", "settle"} => flow.token \in Tokens
    /\ billed = 1 => flow.pc = "done" /\ flow.attempt \in Attempts

(***************************************************************************)
(* What the flow has received of the current answer and what is in its     *)
(* channel make up what the upstream goroutine has sent; an error is the   *)
(* last it sends.                                                          *)
(***************************************************************************)
Erred(a) == up[a].pc = "ended" /\ up[a].err # "none"

AnswerInv ==
    /\ \A a \in Attempts : up[a].pc \in {"off", "asked", "body"} => up[a].err = "none"
    /\ \A a \in Attempts : up[a].pc = "failing" => up[a].err # "none"
    /\ flow.pc \in {"stream", "emit"} =>
          LET a == flow.attempt IN
          /\ flow.got + Len(Chan) = up[a].sent + (IF Erred(a) THEN 1 ELSE 0)
          /\ Erred(a) => Chan # <<>> /\ Chan[Len(Chan)] \in Error
          /\ \A i \in 1 .. Len(Chan) : Chan[i] \in Error => i = Len(Chan) /\ Erred(a)

(***************************************************************************)
(* A flow that is done without a success has sent its error, and a handler *)
(* that is still reading will receive it.                                  *)
(***************************************************************************)
InOut(event) == \E i \in 1 .. Len(out) : out[i] = event

EndingInv ==
    /\ OneEnding
    /\ flow.pc = "done" /\ billed = 0 /\ handler.pc = "reading" => InOut("error")

\* A token that was refused is neither selectable nor the flow's.
TokenInv == refused \cap selectable = {} /\ flow.token \notin refused

ChatInv == TypeOK /\ LoopInv /\ AnswerInv /\ OnlyWholeAnswersFinish /\ EndingInv
           /\ TokenInv

\* The bound of the loop is a number, and no attempt is made without retries.
LEMMA Limits == /\ MaxAttempts \in Nat
                /\ Attempts # {} => PerTokenRetries > 0
<1>1. MaxAttempts \in Nat
  BY ChatAssumption DEF MaxAttempts
<1>2. PerTokenRetries = 0 => MaxAttempts = 0
  BY ChatAssumption DEF MaxAttempts
<1> QED BY <1>1, <1>2, ChatAssumption DEF Attempts

-----------------------------------------------------------------------------
(* Types.                                                                  *)

FlowType == flow \in Flow

\* Moving the flow on keeps its type.
LEMMA GotoType == ASSUME FlowType, NEW pc \in FlowPc, Goto(pc) PROVE FlowType'
  BY DEF FlowType, Flow, Goto

\* So does going on to the next attempt, while there is one.
LEMMA NextAttemptType ==
  ASSUME FlowType, flow.attempt \in Attempts, NextAttempt PROVE FlowType'
<1>1. flow.attempt + 1 \in 0 .. MaxAttempts
  BY Limits DEF Attempts
<1>2. "top" \in FlowPc
  BY DEF FlowPc
<1> QED BY <1>1, <1>2 DEF FlowType, Flow, NextAttempt

\* The flow's steps keep its type.
LEMMA FlowTypeStep == ChatInv /\ FlowStep => FlowType'
<1> SUFFICES ASSUME ChatInv, FlowStep PROVE FlowType'
  OBVIOUS
<1>0. FlowType /\ LoopInv
  BY DEF ChatInv, TypeOK, FlowType
<1>1. CASE LoopHead
  <2>1. \E pc \in FlowPc : Goto(pc)
    BY <1>1 DEF LoopHead, FlowPc
  <2> QED BY <1>0, <2>1, GotoType
<1>2. CASE Pick
  <2>1. ASSUME NEW t \in Tokens,
               flow' = [flow EXCEPT !.pc = "call", !.token = t, !.retries = 0]
        PROVE  FlowType'
    <3>1. 0 \in 0 .. PerTokenRetries /\ "call" \in FlowPc
      BY ChatAssumption DEF FlowPc
    <3> QED BY <1>0, <2>1, <3>1 DEF FlowType, Flow
  <2>2. flow.attempt \in Attempts
    BY <1>0, <1>2 DEF LoopInv, Pick
  <2>3. CASE NextAttempt
    BY <1>0, <2>2, <2>3, NextAttemptType
  <2>4. CASE Goto("fallback")
    BY <1>0, <2>4, GotoType DEF FlowPc
  <2> QED BY <1>2, <2>1, <2>3, <2>4 DEF Pick, PickFrom, Tokens
<1>3. CASE CallWithoutClient \/ BuildFails \/ StreamClosed \/ SendEvent \/ Settle \/ Fail
  <2>1. \E pc \in FlowPc : Goto(pc)
    BY <1>3 DEF CallWithoutClient, BuildFails, StreamClosed, SendEvent, Settle, Fail,
                Send, FlowPc
  <2> QED BY <1>0, <2>1, GotoType
<1>4. CASE Chat
  <2>1. 0 \in 0 .. Lines /\ "stream" \in FlowPc
    BY ChatAssumption DEF FlowPc
  <2> QED BY <1>0, <1>4, <2>1 DEF Chat, FlowType, Flow
<1>5. ASSUME NEW e \in AtOnce, ChatFails(e) PROVE FlowType'
  <2>1. flow.retries < PerTokenRetries
    BY <1>0, <1>5 DEF LoopInv, Calling, ChatFails
  <2>2. PICK pc \in {"fail", "backoff"} :
          flow' = [flow EXCEPT !.pc = pc, !.retries = @ + 1,
                               !.token = IF Swaps(e) THEN NoToken ELSE @]
    BY <1>5 DEF ChatFails
  <2>3. flow.retries + 1 \in 0 .. PerTokenRetries /\ pc \in FlowPc
    BY <1>0, <2>1, ChatAssumption DEF FlowType, Flow, FlowPc
  <2> QED BY <1>0, <2>2, <2>3 DEF FlowType, Flow
<1>6. CASE Backoff
  <2>1. flow.attempt \in Attempts
    BY <1>0, <1>6 DEF LoopInv, Backoff
  <2>2. CASE NextAttempt
    BY <1>0, <2>1, <2>2, NextAttemptType
  <2>3. CASE Goto("fail")
    BY <1>0, <2>3, GotoType DEF FlowPc
  <2> QED BY <1>6, <2>2, <2>3 DEF Backoff
<1>7. CASE StreamCancelled \/ StreamError
  <2>1. PICK e : StreamFails(e)
    BY <1>7 DEF StreamCancelled, StreamError
  <2>2. flow.retries < PerTokenRetries /\ flow.attempt \in Attempts
    BY <1>0, <1>7 DEF LoopInv, Calling, StreamCancelled, StreamError
  <2>3. flow.retries + 1 \in 0 .. PerTokenRetries /\ "top" \in FlowPc
    BY <1>0, <2>2, ChatAssumption DEF FlowType, Flow, FlowPc
  <2>4. flow.attempt + 1 \in 0 .. MaxAttempts
    BY <2>2, Limits DEF Attempts
  <2> QED BY <1>0, <2>1, <2>3, <2>4 DEF StreamFails, FlowType, Flow
<1>8. CASE StreamLine
  <2>1. flow.got + 1 \in 0 .. Lines
    <3>1. flow.attempt \in Attempts /\ Chan \in Seq(Item) /\ Chan # <<>>
      BY <1>0, <1>8 DEF ChatInv, TypeOK, LoopInv, StreamLine, Chan
    <3>2. up[flow.attempt].sent \in 0 .. Lines
      BY <3>1 DEF ChatInv, TypeOK, Sender
    <3>3. Erred(flow.attempt) => Len(Chan) > 1
      <4>1. Chan[1] = "line"
        BY <1>8, <3>1 DEF StreamLine
      <4>2. Erred(flow.attempt) => Chan[Len(Chan)] \in Error
        BY <1>8 DEF ChatInv, AnswerInv, StreamLine
      <4>3. "line" \notin Error
        BY DEF Error
      <4> QED BY <3>1, <4>1, <4>2, <4>3
    <3>4. flow.got + Len(Chan) = up[flow.attempt].sent
                                   + (IF Erred(flow.attempt) THEN 1 ELSE 0)
      BY <1>8 DEF ChatInv, AnswerInv, StreamLine
    <3>5. Len(Chan) \in Nat /\ Len(Chan) > 0
      BY <3>1
    <3>6. flow.got \in Nat
      BY <1>0 DEF FlowType, Flow
    <3> QED BY <3>2, <3>3, <3>4, <3>5, <3>6, ChatAssumption
  <2>2. PICK pc \in {"emit", "stream"} : flow' = [flow EXCEPT !.pc = pc, !.got = @ + 1]
    BY <1>8 DEF StreamLine
  <2> QED BY <1>0, <2>1, <2>2 DEF FlowType, Flow, FlowPc
<1> QED BY <1>1, <1>2, <1>3, <1>4, <1>5, <1>6, <1>7, <1>8 DEF FlowStep

\* What a step leaves alone.
LEMMA FlowFrame == FlowStep => UNCHANGED <<handler, cancelled, late>>
<1> SUFFICES ASSUME FlowStep PROVE UNCHANGED <<handler, cancelled, late>>
  OBVIOUS
<1> QED
  BY DEF FlowStep, LoopHead, Pick, CallWithoutClient, BuildFails, Chat, ChatFails,
         Backoff, StreamCancelled, StreamError, StreamLine, StreamClosed, SendEvent,
         Send, Settle, Fail

\* Of the flow's steps only the call itself touches the goroutines.
LEMMA UpFrame == FlowStep /\ ~Chat => UNCHANGED up
<1> SUFFICES ASSUME FlowStep, ~Chat PROVE UNCHANGED up
  OBVIOUS
<1> QED
  BY DEF FlowStep, LoopHead, Pick, CallWithoutClient, BuildFails, ChatFails,
         Backoff, StreamCancelled, StreamError, StreamLine, StreamClosed, SendEvent,
         Send, Settle, Fail

\* The flow touches the channels only by receiving from the current one.
LEMMA EventsFrame ==
  FlowStep => UNCHANGED events \/ (Chan # <<>> /\ flow.pc = "stream" /\ Receive)
<1>1. CASE StreamError \/ StreamLine
  BY <1>1 DEF StreamError, StreamLine
<1>2. LoopHead \/ Pick \/ CallWithoutClient \/ BuildFails \/ Chat \/ Backoff
        => UNCHANGED events
  BY DEF LoopHead, Pick, CallWithoutClient, BuildFails, Chat, Backoff
<1>3. (\E e \in AtOnce : ChatFails(e)) \/ StreamCancelled \/ StreamClosed \/ SendEvent
        \/ Settle \/ Fail => UNCHANGED events
  BY DEF ChatFails, StreamCancelled, StreamClosed, SendEvent, Send, Settle, Fail
<1> QED BY <1>1, <1>2, <1>3 DEF FlowStep

\* Only its sends touch outCh.
LEMMA OutFrame == FlowStep /\ ~SendEvent /\ ~Fail => UNCHANGED out
<1> SUFFICES ASSUME FlowStep, ~SendEvent, ~Fail PROVE UNCHANGED out
  OBVIOUS
<1> QED
  BY DEF FlowStep, LoopHead, Pick, CallWithoutClient, BuildFails, Chat, ChatFails,
         Backoff, StreamCancelled, StreamError, StreamLine, StreamClosed, Settle

\* A goroutine touches nothing but itself and its channel.
LEMMA UpstreamFrame ==
  ASSUME NEW a, Upstream(a)
  PROVE  UNCHANGED <<flow, out, handler, cancelled, late, selectable, history>>
  BY DEF Upstream, Respond, SendLine, SendError

\* The handler and its surroundings touch neither the flow nor the upstream.
Aside == HandlerStep \/ Disconnect \/ BudgetPasses \/ \E t \in Tokens : OthersChange(t)

\* They leave everything alone but outCh, the handler, the context and the
\* tokens.
LEMMA AsideFrame ==
  Aside => UNCHANGED <<flow, up, events, stale, cut, billed>>
<1> SUFFICES ASSUME Aside
             PROVE  UNCHANGED <<flow, up, events, stale, cut, billed>>
  OBVIOUS
<1> QED
  BY DEF Aside, HandlerStep, Read, Complete, Return, Disconnect, BudgetPasses,
         OthersChange, history

\* Every step is of one of three kinds.
LEMMA Steps == Next => FlowStep \/ (\E a \in Attempts : Upstream(a)) \/ Aside
  BY DEF Next, Aside

\* The goroutines keep their type.
LEMMA UpTypeStep == ChatInv /\ Next => up' \in [Attempts -> Sender]
<1> SUFFICES ASSUME ChatInv, Next PROVE up' \in [Attempts -> Sender]
  OBVIOUS
<1>0. up \in [Attempts -> Sender]
  BY DEF ChatInv, TypeOK
<1>1. CASE Chat
  BY <1>0, <1>1 DEF Chat, Sender
<1>2. CASE FlowStep /\ ~Chat
  BY <1>0, <1>2, UpFrame
<1>3. ASSUME NEW a \in Attempts, Respond(a) PROVE up' \in [Attempts -> Sender]
  BY <1>0, <1>3, ChatAssumption DEF Respond, Sender, Error
<1>4. ASSUME NEW a \in Attempts, SendLine(a) PROVE up' \in [Attempts -> Sender]
  <2>1. up[a].sent + 1 \in 0 .. Lines
    BY <1>0, <1>4, ChatAssumption DEF SendLine, Sender
  <2> QED BY <1>0, <1>4, <2>1 DEF SendLine, Sender
<1>5. ASSUME NEW a \in Attempts, SendError(a) PROVE up' \in [Attempts -> Sender]
  BY <1>0, <1>5 DEF SendError, Sender
<1>6. CASE Aside
  BY <1>0, <1>6, AsideFrame
<1> QED BY <1>1, <1>2, <1>3, <1>4, <1>5, <1>6, Steps DEF Upstream

\* A channel takes an item only when there is room.
LEMMA EventsTypeStep ==
  ChatInv /\ Next => /\ events' \in [Attempts -> Seq(Item)]
                     /\ \A a \in Attempts : Len(events'[a]) <= EventCap
<1> DEFINE Goal == /\ events' \in [Attempts -> Seq(Item)]
                   /\ \A a \in Attempts : Len(events'[a]) <= EventCap
<1> SUFFICES ASSUME ChatInv, Next PROVE Goal
  OBVIOUS
<1>0. events \in [Attempts -> Seq(Item)] /\ \A a \in Attempts : Len(events[a]) <= EventCap
  BY DEF ChatInv, TypeOK
<1>1. ASSUME NEW a \in Attempts, NEW item \in Item, Len(events[a]) < EventCap,
             events' = [events EXCEPT ![a] = Append(@, item)]
      PROVE  Goal
  <2>1. Append(events[a], item) \in Seq(Item)
        /\ Len(Append(events[a], item)) = Len(events[a]) + 1
    BY <1>0
  <2>2. Len(events[a]) \in Nat
    BY <1>0
  <2> QED BY <1>0, <1>1, <2>1, <2>2, ChatAssumption
<1>2. CASE FlowStep
  <2>1. CASE UNCHANGED events
    BY <1>0, <2>1
  <2>2. CASE Chan # <<>> /\ flow.pc = "stream" /\ Receive
    <3>1. flow.attempt \in Attempts
      BY <2>2 DEF ChatInv, LoopInv
    <3>2. Tail(Chan) \in Seq(Item) /\ Len(Tail(Chan)) = Len(Chan) - 1
      BY <1>0, <2>2, <3>1 DEF Chan
    <3>3. Len(Chan) \in Nat /\ Len(Chan) <= EventCap
      BY <1>0, <3>1 DEF Chan
    <3> QED BY <1>0, <2>2, <3>1, <3>2, <3>3, ChatAssumption DEF Receive, Chan
  <2> QED BY <1>2, <2>1, <2>2, EventsFrame
<1>3. ASSUME NEW a \in Attempts, Respond(a) PROVE Goal
  BY <1>0, <1>3 DEF Respond
<1>4. ASSUME NEW a \in Attempts, SendLine(a) PROVE Goal
  BY <1>1, <1>4 DEF SendLine, Item
<1>5. ASSUME NEW a \in Attempts, SendError(a) PROVE Goal
  <2>1. up[a].err \in Item
    BY <1>5 DEF ChatInv, TypeOK, AnswerInv, Sender, Item, SendError
  <2> QED BY <1>1, <1>5, <2>1 DEF SendError
<1>6. CASE Aside
  BY <1>0, <1>6, AsideFrame
<1> QED BY <1>2, <1>3, <1>4, <1>5, <1>6, Steps DEF Upstream

\* The type of outCh.
Event == {"content", "finish", "error"}
OutType == out \in Seq(Event) /\ Len(out) <= OutCap

\* An event is sent to the handler only when there is room.
LEMMA OutTypeStep == ChatInv /\ Next => OutType'
<1> SUFFICES ASSUME ChatInv, Next PROVE OutType'
  OBVIOUS
<1>0. OutType
  BY DEF ChatInv, TypeOK, OutType, Event
<1>1. ASSUME NEW e \in Event, NEW pc, Send(e, pc) PROVE OutType'
  <2>1. Append(out, e) \in Seq(Event) /\ Len(Append(out, e)) = Len(out) + 1
    BY <1>0 DEF OutType
  <2>2. Len(out) \in Nat
    BY <1>0 DEF OutType
  <2> QED BY <1>1, <2>1, <2>2, ChatAssumption DEF Send, OutType
<1>2. CASE SendEvent \/ Fail
  BY <1>1, <1>2 DEF SendEvent, Fail, Event
<1>3. CASE Read
  <2>1. Tail(out) \in Seq(Event) /\ Len(Tail(out)) = Len(out) - 1 /\ Len(out) \in Nat
    BY <1>0, <1>3 DEF Read, OutType
  <2> QED BY <1>0, <1>3, <2>1, ChatAssumption DEF Read, OutType
<1>4. CASE UNCHANGED out
  BY <1>0, <1>4 DEF OutType
<1>5. Next => SendEvent \/ Fail \/ Read \/ UNCHANGED out
  <2>1. FlowStep => SendEvent \/ Fail \/ UNCHANGED out
    BY OutFrame
  <2>2. (\E a \in Attempts : Upstream(a)) => UNCHANGED out
    BY UpstreamFrame
  <2>3. Aside => Read \/ UNCHANGED out
    BY DEF Aside, HandlerStep, Complete, Disconnect, BudgetPasses, OthersChange
  <2> QED BY <2>1, <2>2, <2>3, Steps
<1> QED BY <1>2, <1>3, <1>4, <1>5

\* The type of everything else.
RestType ==
    /\ handler \in Handler
    /\ cancelled \in BOOLEAN /\ late \in BOOLEAN
    /\ selectable \subseteq Tokens
    /\ refused \subseteq Tokens
    /\ stale \in BOOLEAN
    /\ cut \subseteq Attempts
    /\ billed \in 0 .. 1

\* What an error does to the token it is held against.
LEMMA HandleErrorFacts ==
  ASSUME NEW t, NEW e, HandleError(t, e), selectable \subseteq Tokens,
         refused \subseteq Tokens, t \in Tokens
  PROVE  /\ selectable' \subseteq Tokens /\ refused' \subseteq Tokens
         /\ refused' \subseteq refused \cup {t}
         /\ selectable' \subseteq selectable
         /\ refused \cap selectable = {} => refused' \cap selectable' = {}
         /\ t \in refused' => t \in refused \/ Swaps(e)
  BY DEF HandleError, Swaps

\* The handler, the tokens and the histories keep their types.
LEMMA RestTypeStep == ChatInv /\ Next => RestType'
<1> SUFFICES ASSUME ChatInv, Next PROVE RestType'
  OBVIOUS
<1>0. RestType
  BY DEF ChatInv, TypeOK, RestType
<1>1. CASE FlowStep
  <2>1. handler' \in Handler /\ cancelled' \in BOOLEAN
    BY <1>0, <1>1, FlowFrame DEF RestType
  <2>2. late' \in BOOLEAN
    BY <1>0, <1>1, FlowFrame DEF RestType
  <2>3. ASSUME NEW e, StreamFails(e), flow.pc = "stream"
        PROVE  /\ selectable' \subseteq Tokens /\ refused' \subseteq Tokens
               /\ stale' \in BOOLEAN
    <3>1. flow.token \in Tokens
      BY <2>3 DEF ChatInv, LoopInv, Calling
    <3>2. selectable' \subseteq Tokens /\ refused' \subseteq Tokens
      BY <1>0, <2>3, <3>1, HandleErrorFacts DEF StreamFails, RestType
    <3> QED BY <2>3, <3>2 DEF StreamFails
  <2>4. ASSUME StreamCancelled \/ StreamError PROVE RestType'
    <3>1. PICK e : StreamFails(e) /\ flow.pc = "stream"
      BY <2>4 DEF StreamCancelled, StreamError
    <3>2. flow.attempt \in Attempts
      BY <3>1 DEF ChatInv, LoopInv
    <3>3. cut' \subseteq Attempts /\ billed' = billed
      BY <1>0, <2>4, <3>2 DEF StreamCancelled, StreamError, CutOff, RestType
    <3> QED BY <1>0, <2>1, <2>2, <2>3, <3>1, <3>3 DEF RestType
  <2>5. ASSUME NEW e \in AtOnce, ChatFails(e) PROVE RestType'
    <3>1. flow.token \in Tokens
      BY <2>5 DEF ChatInv, LoopInv, Calling, ChatFails
    <3>2. selectable' \subseteq Tokens /\ refused' \subseteq Tokens
      BY <1>0, <2>5, <3>1, HandleErrorFacts DEF ChatFails, RestType
    <3>3. stale' \in BOOLEAN
      BY <2>5 DEF ChatFails
    <3> QED BY <1>0, <2>1, <2>2, <2>5, <3>2, <3>3 DEF RestType, ChatFails
  <2>6. CASE Settle
    <3>1. billed = 0
      BY <1>0, <2>6 DEF Settle, ChatInv, LoopInv, RestType
    <3>2. flow.token \in Tokens
      BY <2>6 DEF Settle, ChatInv, LoopInv
    <3>3. selectable' \subseteq Tokens /\ UNCHANGED <<refused, cut>>
      BY <1>0, <2>6, <3>2 DEF Settle, RestType
    <3>4. UNCHANGED stale /\ billed' = 1
      BY <2>6, <3>1 DEF Settle
    <3> QED BY <1>0, <2>1, <2>2, <3>3, <3>4 DEF RestType
  <2>7. CASE Pick
    <3>1. stale' \in BOOLEAN
      BY <1>0, <2>7 DEF Pick, PickFrom, RestType
    <3>2. UNCHANGED <<selectable, refused, cut, billed>>
      BY <2>7 DEF Pick
    <3> QED BY <1>0, <2>1, <2>2, <3>1, <3>2 DEF RestType
  <2>8. CASE UNCHANGED <<selectable, history>>
    BY <1>0, <2>1, <2>2, <2>8 DEF RestType, history
  <2>9. FlowStep => \/ StreamCancelled \/ StreamError \/ (\E e \in AtOnce : ChatFails(e))
                    \/ Settle \/ Pick \/ UNCHANGED <<selectable, history>>
    BY DEF FlowStep, LoopHead, CallWithoutClient, BuildFails, Chat, Backoff, StreamLine,
           StreamClosed, SendEvent, Send, Fail
  <2> QED BY <1>1, <2>4, <2>5, <2>6, <2>7, <2>8, <2>9
<1>2. ASSUME NEW a \in Attempts, Upstream(a) PROVE RestType'
  BY <1>0, <1>2, UpstreamFrame DEF RestType, history
<1>3. CASE HandlerStep
  <2>1. handler' \in Handler /\ cancelled' \in BOOLEAN
    <3>1. PICK pc \in {"left", "failed", "reading", "complete"} : Return(pc)
      BY <1>3 DEF HandlerStep, Read, Complete
    <3> QED BY <1>0, <3>1 DEF Return, RestType, Handler
  <2>2. UNCHANGED <<late, selectable, history>>
    BY <1>3 DEF HandlerStep, Read, Complete, Return
  <2> QED BY <1>0, <2>1, <2>2 DEF RestType, history
<1>4. CASE Disconnect \/ BudgetPasses
  BY <1>0, <1>4 DEF Disconnect, BudgetPasses, RestType, history
<1>5. ASSUME NEW t \in Tokens, OthersChange(t) PROVE RestType'
  <2>1. selectable' \subseteq Tokens /\ refused' \subseteq Tokens
    BY <1>0, <1>5 DEF OthersChange, RestType
  <2> QED BY <1>0, <1>5, <2>1 DEF OthersChange, RestType
<1> QED BY <1>1, <1>2, <1>3, <1>4, <1>5, Steps DEF Aside

\* Every step keeps the type invariant.
LEMMA TypeStep == ChatInv /\ Next => TypeOK'
<1> SUFFICES ASSUME ChatInv, Next PROVE TypeOK'
  OBVIOUS
<1>1. FlowType'
  <2>1. CASE UNCHANGED flow
    BY <2>1 DEF ChatInv, TypeOK, FlowType
  <2> QED BY <2>1, FlowTypeStep, UpstreamFrame, AsideFrame, Steps
<1> QED BY <1>1, UpTypeStep, EventsTypeStep, OutTypeStep, RestTypeStep
        DEF TypeOK, FlowType, OutType, RestType, Event

-----------------------------------------------------------------------------
(* The loop.                                                               *)

\* An attempt a step does not touch stays untouched.
LEMMA StaysUntouched ==
  ASSUME NEW a \in Attempts, Untouched(a), up'[a] = up[a], events'[a] = events[a]
  PROVE  Untouched(a)'
  BY DEF Untouched

\* The upstream goroutine of an attempt does not touch the others.
LEMMA UpstreamLocal ==
  ASSUME ChatInv, NEW a \in Attempts, Upstream(a)
  PROVE  /\ \A b \in Attempts : b # a => up'[b] = up[b] /\ events'[b] = events[b]
         /\ up[a].pc # "off"
<1>0. up \in [Attempts -> Sender] /\ events \in [Attempts -> Seq(Item)]
  BY DEF ChatInv, TypeOK
<1>1. CASE Respond(a)
  BY <1>0, <1>1 DEF Respond
<1>2. CASE SendLine(a)
  BY <1>0, <1>2 DEF SendLine
<1>3. CASE SendError(a)
  BY <1>0, <1>3 DEF SendError
<1> QED BY <1>1, <1>2, <1>3 DEF Upstream

\* The flow's steps touch only the current attempt, and before the call not
\* even that.
LEMMA FlowLocal ==
  ASSUME ChatInv, FlowStep
  PROVE  /\ \A b \in Attempts : b # flow.attempt => up'[b] = up[b] /\ events'[b] = events[b]
         /\ flow.pc \in Before /\ ~Chat => UNCHANGED <<up, events>>
<1>0. up \in [Attempts -> Sender] /\ events \in [Attempts -> Seq(Item)]
  BY DEF ChatInv, TypeOK
<1>1. Chat => \A b \in Attempts : b # flow.attempt => up'[b] = up[b]
  BY <1>0 DEF Chat
<1>2. Receive => \A b \in Attempts : b # flow.attempt => events'[b] = events[b]
  BY <1>0 DEF Receive
<1>3. flow.pc \in Before => flow.pc # "stream"
  BY DEF Before
<1> QED BY <1>1, <1>2, <1>3, UpFrame, EventsFrame

\* How the flow moves: on within its attempt, or to the next one.
OnWith(pc) == flow'.pc = pc /\ flow'.attempt = flow.attempt
ToNext == flow'.pc = "top" /\ flow'.attempt = flow.attempt + 1

\* Goto moves on and changes nothing else.
LEMMA GotoMoves == ASSUME FlowType, NEW pc, Goto(pc)
                   PROVE  OnWith(pc) /\ flow'.token = flow.token
                          /\ flow'.retries = flow.retries /\ flow'.got = flow.got
  BY DEF FlowType, Flow, Goto, OnWith

\* NextAttempt keeps the token.
LEMMA NextMoves == ASSUME FlowType, NextAttempt
                   PROVE  ToNext /\ flow'.token = flow.token
  BY DEF FlowType, Flow, NextAttempt, ToNext

\* A failed stream ends the attempt, and lets go of a token to be swapped.
LEMMA FailMoves == ASSUME FlowType, NEW e, StreamFails(e)
                   PROVE  /\ ToNext
                          /\ flow'.token = NoToken \/ (flow'.token = flow.token /\ ~Swaps(e))
  BY DEF FlowType, Flow, StreamFails, ToNext

\* The loop's head gives up, picks, or calls with the token it has.
LEMMA LoopHeadMoves ==
  ASSUME FlowType, LoopHead
  PROVE  /\ flow.pc = "top" /\ flow'.token = flow.token /\ flow'.retries = flow.retries
         /\ \/ OnWith("fail")
            \/ OnWith("pick") /\ flow.attempt # MaxAttempts
            \/ /\ OnWith("call") /\ flow.attempt # MaxAttempts
               /\ flow.token # NoToken /\ ~(flow.retries >= PerTokenRetries)
  BY GotoMoves DEF LoopHead

\* A pick calls with a selectable token, or goes on without one.
LEMMA PickMoves ==
  ASSUME FlowType, Pick
  PROVE  /\ flow.pc \in {"pick", "fallback"}
         /\ \/ /\ OnWith("call") /\ flow'.token \in Tokens \cap selectable
               /\ flow'.retries = 0
            \/ ToNext /\ flow'.token = flow.token
            \/ OnWith("fallback") /\ flow'.token = flow.token
<1>1. ASSUME NEW t \in Tokens,
             flow' = [flow EXCEPT !.pc = "call", !.token = t, !.retries = 0]
      PROVE  OnWith("call") /\ flow'.token = t /\ flow'.retries = 0
  BY <1>1 DEF FlowType, Flow, OnWith
<1>2. \/ \E t \in Tokens \cap selectable :
            flow' = [flow EXCEPT !.pc = "call", !.token = t, !.retries = 0]
      \/ NextAttempt
      \/ Goto("fallback")
  BY DEF Pick, PickFrom, Tokens
<1> QED BY <1>1, <1>2, NextMoves, GotoMoves DEF Pick

\* The call starts to receive.
LEMMA ChatMoves ==
  ASSUME FlowType, Chat
  PROVE  /\ OnWith("stream") /\ flow'.token = flow.token
         /\ flow'.retries = flow.retries /\ flow'.got = 0
  BY DEF FlowType, Flow, Chat, OnWith

\* A failed call gives up or waits, and lets go of a token to be swapped.
LEMMA ChatFailsMoves ==
  ASSUME FlowType, NEW e \in AtOnce, ChatFails(e)
  PROVE  /\ OnWith("fail") \/ OnWith("backoff")
         /\ flow'.token = NoToken \/ (flow'.token = flow.token /\ ~Swaps(e))
<1>1. PICK pc \in {"fail", "backoff"} :
        flow' = [flow EXCEPT !.pc = pc, !.retries = @ + 1,
                             !.token = IF Swaps(e) THEN NoToken ELSE @]
  BY DEF ChatFails
<1> QED BY <1>1 DEF FlowType, Flow, OnWith

\* A line is counted.
LEMMA LineMoves ==
  ASSUME FlowType, StreamLine
  PROVE  /\ OnWith("emit") \/ OnWith("stream")
         /\ flow'.token = flow.token /\ flow'.retries = flow.retries
         /\ flow'.got = flow.got + 1
<1>1. PICK pc \in {"emit", "stream"} : flow' = [flow EXCEPT !.pc = pc, !.got = @ + 1]
  BY DEF StreamLine
<1> QED BY <1>1 DEF FlowType, Flow, OnWith

\* What has been attempted, step by step.
AttemptInv ==
    /\ \A a \in Attempts : a > flow.attempt => Untouched(a)
    /\ flow.pc \in Before /\ flow.attempt \in Attempts => Untouched(flow.attempt)

\* The steps keep the attempts to come untouched.
LEMMA AttemptStep == ChatInv /\ Next => AttemptInv'
<1> SUFFICES ASSUME ChatInv, Next PROVE AttemptInv'
  OBVIOUS
<1>0. /\ FlowType /\ AttemptInv
      /\ flow.attempt \in Nat /\ \A a \in Attempts : a \in Nat
  BY Limits DEF ChatInv, TypeOK, FlowType, Flow, LoopInv, AttemptInv, Attempts
<1>1. CASE FlowStep
  <2>1. CASE ToNext
    <3>1. ASSUME NEW a \in Attempts, a > flow.attempt PROVE Untouched(a)'
      BY <1>0, <1>1, <3>1, FlowLocal, StaysUntouched DEF AttemptInv
    <3> QED BY <1>0, <2>1, <3>1 DEF AttemptInv, ToNext, Untouched
  <2>2. ASSUME NEW pc, OnWith(pc), pc \in Before => flow.pc \in Before /\ ~Chat
        PROVE  AttemptInv'
    <3>1. ASSUME NEW a \in Attempts, a > flow.attempt PROVE Untouched(a)'
      BY <1>0, <1>1, <3>1, FlowLocal, StaysUntouched DEF AttemptInv
    <3>2. ASSUME pc \in Before, flow.attempt \in Attempts
          PROVE  Untouched(flow.attempt)'
      <4>1. UNCHANGED <<up, events, flow.attempt>> /\ Untouched(flow.attempt)
        BY <1>0, <1>1, <2>2, <3>2, FlowLocal DEF AttemptInv, OnWith
      <4> QED BY <4>1 DEF Untouched
    <3> QED BY <2>2, <3>1, <3>2 DEF AttemptInv, OnWith
  <2>3. CASE LoopHead
    <3>1. \E pc : OnWith(pc)
      BY <1>0, <2>3, LoopHeadMoves
    <3> QED BY <2>2, <2>3, <3>1 DEF LoopHead, Before, Chat
  <2>4. CASE Pick
    <3>1. flow.pc \in {"pick", "fallback"} /\ (ToNext \/ \E pc : OnWith(pc))
      BY <1>0, <2>4, PickMoves
    <3>2. flow.pc \in Before /\ ~Chat
      BY <3>1 DEF Before, Chat
    <3> QED BY <2>1, <2>2, <3>1, <3>2
  <2>5. CASE CallWithoutClient \/ BuildFails \/ StreamClosed \/ SendEvent \/ Settle \/ Fail
    <3>1. \E pc : Goto(pc) /\ pc \notin Before
      BY <2>5 DEF CallWithoutClient, BuildFails, StreamClosed, SendEvent, Settle, Fail,
                  Send, Before
    <3> QED BY <1>0, <2>2, <3>1, GotoMoves
  <2>6. CASE Chat \/ StreamLine
    <3>1. \E pc : OnWith(pc) /\ pc \notin Before
      BY <1>0, <2>6, ChatMoves, LineMoves DEF Before
    <3> QED BY <2>2, <3>1
  <2>7. ASSUME NEW e \in AtOnce, ChatFails(e) PROVE AttemptInv'
    <3>1. flow.pc \in Before /\ ~Chat /\ \E pc : OnWith(pc)
      <4>1. flow'.pc # "stream"
        BY <1>0, <2>7, ChatFailsMoves DEF OnWith
      <4>2. Chat => flow'.pc = "stream"
        BY <1>0, ChatMoves DEF OnWith
      <4> QED BY <1>0, <2>7, <4>1, <4>2, ChatFailsMoves DEF Before, ChatFails
    <3> QED BY <2>2, <3>1
  <2>8. CASE Backoff
    <3>1. ToNext \/ (OnWith("fail") /\ "fail" \notin Before)
      BY <1>0, <2>8, NextMoves, GotoMoves DEF Backoff, Before
    <3> QED BY <2>1, <2>2, <3>1
  <2>9. CASE StreamCancelled \/ StreamError
    <3>1. \E e : StreamFails(e)
      BY <2>9 DEF StreamCancelled, StreamError
    <3> QED BY <1>0, <2>1, <3>1, FailMoves
  <2> QED BY <1>1, <2>3, <2>4, <2>5, <2>6, <2>7, <2>8, <2>9 DEF FlowStep
<1>2. ASSUME NEW b \in Attempts, Upstream(b) PROVE AttemptInv'
  <2>1. UNCHANGED flow
    BY <1>2, UpstreamFrame
  <2>2. ASSUME NEW a \in Attempts, Untouched(a) PROVE Untouched(a)'
    <3>1. a # b
      BY <1>2, <2>2, UpstreamLocal DEF Untouched
    <3> QED BY <1>2, <2>2, <3>1, UpstreamLocal, StaysUntouched
  <2> QED BY <1>0, <2>1, <2>2 DEF AttemptInv, Untouched
<1>3. CASE Aside
  BY <1>0, <1>3, AsideFrame DEF AttemptInv, Untouched
<1> QED BY <1>1, <1>2, <1>3, Steps

\* What the flow's place says of its attempt and its token.
PlaceInv ==
    /\ flow.pc \notin {"top", "fail", "done"} => flow.attempt \in Attempts
    /\ flow.pc \in Calling => flow.token \in Tokens /\ flow.retries < PerTokenRetries
    /\ flow.pc \in {"flush", "finish", "settle"} => flow.token \in Tokens
    /\ billed = 1 => flow.pc = "done" /\ flow.attempt \in Attempts

\* The steps keep what the flow's place says.
LEMMA PlaceStep == ChatInv /\ Next => PlaceInv'
<1> SUFFICES ASSUME ChatInv, Next PROVE PlaceInv'
  OBVIOUS
<1>0. FlowType /\ PlaceInv /\ billed \in 0 .. 1
  BY DEF ChatInv, TypeOK, FlowType, LoopInv, PlaceInv
<1>1. CASE FlowStep
  <2>1. flow.pc \in {"top", "pick", "fallback", "call", "backoff", "stream", "emit",
                     "flush", "finish", "settle", "fail"} /\ billed = 0
    <3>1. flow.pc # "done"
      BY <1>1 DEF FlowStep, LoopHead, Pick, CallWithoutClient, BuildFails, Chat, ChatFails,
             Backoff, StreamCancelled, StreamError, StreamLine, StreamClosed, SendEvent,
             Settle, Fail
    <3>2. flow.pc # "panicked"
      BY <1>1 DEF FlowStep, LoopHead, Pick, CallWithoutClient, BuildFails, Chat, ChatFails,
             Backoff, StreamCancelled, StreamError, StreamLine, StreamClosed, SendEvent,
             Settle, Fail
    <3> QED BY <1>0, <3>1, <3>2 DEF FlowType, Flow, FlowPc, PlaceInv
  <2>2. ~Settle => billed' = billed
    BY <1>1 DEF FlowStep, LoopHead, Pick, CallWithoutClient, BuildFails, Chat, ChatFails,
           Backoff, StreamCancelled, StreamError, StreamLine, StreamClosed, SendEvent,
           Send, Fail, history
  <2>3. CASE ToNext /\ ~Settle
    BY <2>1, <2>2, <2>3 DEF PlaceInv, ToNext, Calling
  <2>4. CASE LoopHead
    <3>1. ~Settle
      BY <2>4 DEF LoopHead, Settle
    <3>2. flow.attempt # MaxAttempts => flow.attempt \in Attempts
      BY <1>0, Limits DEF FlowType, Flow, Attempts
    <3>3. flow.token # NoToken => flow.token \in Tokens
      BY <1>0 DEF FlowType, Flow
    <3>4. ~(flow.retries >= PerTokenRetries) => flow.retries < PerTokenRetries
      BY <1>0, ChatAssumption DEF FlowType, Flow
    <3> QED BY <1>0, <2>1, <2>2, <2>4, <3>1, <3>2, <3>3, <3>4, LoopHeadMoves
               DEF PlaceInv, OnWith, Calling
  <2>5. CASE Pick
    <3>1. ~Settle
      BY <2>5 DEF Pick, Settle
    <3>2. flow.attempt \in Attempts
      BY <1>0, <2>5 DEF Pick, PlaceInv
    <3>3. 0 < PerTokenRetries
      BY <3>2, Limits
    <3> QED BY <1>0, <2>1, <2>2, <2>5, <3>1, <3>2, <3>3, PickMoves
               DEF PlaceInv, OnWith, ToNext, Calling
  <2>6. CASE CallWithoutClient \/ BuildFails
    BY <1>0, <2>1, <2>2, <2>6, GotoMoves
       DEF PlaceInv, OnWith, Calling, CallWithoutClient, BuildFails, Settle
  <2>7. CASE Chat
    BY <1>0, <2>1, <2>2, <2>7, ChatMoves DEF PlaceInv, OnWith, Calling, Chat, Settle
  <2>8. ASSUME NEW e \in AtOnce, ChatFails(e) PROVE PlaceInv'
    <3>1. ~Settle /\ flow.pc = "call"
      BY <2>8 DEF ChatFails, Settle
    <3> QED BY <1>0, <2>1, <2>2, <2>8, <3>1, ChatFailsMoves DEF PlaceInv, OnWith, Calling
  <2>9. CASE Backoff
    <3>1. ~Settle /\ (ToNext \/ OnWith("fail"))
      BY <1>0, <2>9, NextMoves, GotoMoves DEF Backoff, Settle
    <3> QED BY <2>1, <2>2, <2>3, <3>1 DEF PlaceInv, OnWith, Calling
  <2>10. CASE StreamCancelled \/ StreamError
    <3>1. ~Settle /\ \E e : StreamFails(e)
      BY <2>10 DEF StreamCancelled, StreamError, Settle
    <3> QED BY <1>0, <2>3, <3>1, FailMoves
  <2>11. CASE StreamLine
    BY <1>0, <2>1, <2>2, <2>11, LineMoves DEF PlaceInv, OnWith, Calling, StreamLine, Settle
  <2>12. CASE StreamClosed \/ SendEvent \/ Fail
    <3>1. /\ ~Settle
          /\ \/ flow.pc = "stream" /\ Goto("flush")
             \/ flow.pc = "emit" /\ Goto("stream")
             \/ flow.pc = "flush" /\ Goto("finish")
             \/ flow.pc \in {"flush", "finish"} /\ Goto("settle")
             \/ flow.pc = "fail" /\ Goto("done")
      BY <2>12 DEF StreamClosed, SendEvent, Send, Fail, Settle
    <3> QED BY <1>0, <2>1, <2>2, <3>1, GotoMoves DEF PlaceInv, OnWith, Calling
  <2>13. CASE Settle
    BY <1>0, <2>1, <2>13, GotoMoves DEF PlaceInv, OnWith, Calling, Settle
  <2> QED BY <1>1, <2>4, <2>5, <2>6, <2>7, <2>8, <2>9, <2>10, <2>11, <2>12, <2>13
          DEF FlowStep
<1>2. ASSUME NEW a \in Attempts, Upstream(a) PROVE PlaceInv'
  BY <1>0, <1>2, UpstreamFrame DEF PlaceInv, history
<1>3. CASE Aside
  BY <1>0, <1>3, AsideFrame DEF PlaceInv
<1> QED BY <1>1, <1>2, <1>3, Steps

\* Both parts of LoopInv are kept.
LEMMA LoopStep == ChatInv /\ Next => LoopInv'
  BY AttemptStep, PlaceStep DEF LoopInv, AttemptInv, PlaceInv

-----------------------------------------------------------------------------
(* Tokens.                                                                 *)

\* A failed attempt lets go of a token that it had refused.
LEMMA RefusedIsLetGo ==
  ASSUME ChatInv, NEW e, HandleError(flow.token, e), flow.token \in Tokens,
         flow'.token = NoToken \/ (flow'.token = flow.token /\ ~Swaps(e))
  PROVE  TokenInv'
<1>0. selectable \subseteq Tokens /\ refused \subseteq Tokens /\ TokenInv
  BY DEF ChatInv, TypeOK
<1>1. refused' \subseteq Tokens /\ refused' \cap selectable' = {}
  BY <1>0, HandleErrorFacts DEF TokenInv
<1>2. CASE flow'.token = NoToken
  BY <1>1, <1>2, ChatAssumption DEF TokenInv
<1>3. CASE flow'.token = flow.token /\ ~Swaps(e)
  <2>1. flow.token \notin refused'
    BY <1>0, <1>3, HandleErrorFacts DEF TokenInv
  <2> QED BY <1>1, <1>3, <2>1 DEF TokenInv
<1> QED BY <1>2, <1>3

\* Only the failed attempts, the picks and other requests concern TokenInv.
LEMMA TokenStep == ChatInv /\ Next => TokenInv'
<1> SUFFICES ASSUME ChatInv, Next PROVE TokenInv'
  OBVIOUS
<1>0. TokenInv /\ FlowType
  BY DEF ChatInv, TypeOK, FlowType
<1>1. CASE FlowStep
  <2>1. ASSUME NEW e \in AtOnce, ChatFails(e) PROVE TokenInv'
    <3>1. flow.token \in Tokens /\ HandleError(flow.token, e)
      BY <2>1 DEF ChatInv, LoopInv, Calling, ChatFails
    <3> QED BY <1>0, <2>1, <3>1, ChatFailsMoves, RefusedIsLetGo
  <2>2. CASE StreamCancelled \/ StreamError
    <3>1. PICK e : StreamFails(e) /\ flow.pc = "stream"
      BY <2>2 DEF StreamCancelled, StreamError
    <3>2. flow.token \in Tokens /\ HandleError(flow.token, e)
      BY <3>1 DEF ChatInv, LoopInv, Calling, StreamFails
    <3> QED BY <1>0, <3>1, <3>2, FailMoves, RefusedIsLetGo
  <2>3. CASE Pick
    <3>1. UNCHANGED <<selectable, refused>>
      BY <2>3 DEF Pick
    <3>2. flow'.token \in selectable \/ flow'.token = flow.token
      BY <1>0, <2>3, PickMoves
    <3> QED BY <1>0, <3>1, <3>2 DEF TokenInv
  <2>4. CASE Settle
    <3>1. flow'.token = flow.token /\ UNCHANGED refused
      BY <1>0, <2>4, GotoMoves DEF Settle
    <3>2. selectable' \subseteq selectable \cup {flow.token}
      BY <2>4 DEF Settle
    <3> QED BY <1>0, <3>1, <3>2 DEF TokenInv
  <2>5. ASSUME LoopHead \/ CallWithoutClient \/ BuildFails \/ Chat \/ Backoff
               \/ StreamLine \/ StreamClosed \/ SendEvent \/ Fail
        PROVE  TokenInv'
    <3>1. UNCHANGED <<selectable, refused>>
      BY <2>5 DEF LoopHead, CallWithoutClient, BuildFails, Chat, Backoff, StreamLine,
             StreamClosed, SendEvent, Send, Fail, history
    <3>2. \/ LoopHead \/ Chat \/ StreamLine \/ NextAttempt \/ \E pc : Goto(pc)
      BY <2>5 DEF CallWithoutClient, BuildFails, Backoff, StreamClosed, SendEvent, Send,
             Fail
    <3>3. flow'.token = flow.token
      BY <1>0, <3>2, LoopHeadMoves, ChatMoves, LineMoves, NextMoves, GotoMoves
    <3> QED BY <1>0, <3>1, <3>3 DEF TokenInv
  <2> QED BY <1>1, <2>1, <2>2, <2>3, <2>4, <2>5 DEF FlowStep
<1>2. ASSUME NEW a \in Attempts, Upstream(a) PROVE TokenInv'
  BY <1>0, <1>2, UpstreamFrame DEF TokenInv, history
<1>3. CASE HandlerStep \/ Disconnect \/ BudgetPasses
  BY <1>0, <1>3 DEF HandlerStep, Read, Complete, Return, Disconnect, BudgetPasses, TokenInv,
         history
<1>4. ASSUME NEW t \in Tokens, OthersChange(t) PROVE TokenInv'
  BY <1>0, <1>4 DEF OthersChange, TokenInv
<1> QED BY <1>1, <1>2, <1>3, <1>4, Steps DEF Aside

-----------------------------------------------------------------------------
(* The answer.                                                             *)

\* What the goroutines' places say of their errors.
ErrInv ==
    /\ \A a \in Attempts : up[a].pc \in {"off", "asked", "body"} => up[a].err = "none"
    /\ \A a \in Attempts : up[a].pc = "failing" => up[a].err # "none"

\* A goroutine has an error from the moment it fails, and none before.
LEMMA ErrStep == ChatInv /\ Next => ErrInv'
<1> SUFFICES ASSUME ChatInv, Next PROVE ErrInv'
  OBVIOUS
<1>0. ErrInv /\ up \in [Attempts -> Sender]
  BY DEF ChatInv, TypeOK, AnswerInv, ErrInv
<1>1. CASE Chat
  <2>1. Untouched(flow.attempt) /\ flow.attempt \in Attempts
    BY <1>1 DEF ChatInv, LoopInv, Chat, Before
  <2> QED BY <1>0, <1>1, <2>1 DEF Chat, ErrInv, Untouched, Sender
<1>2. CASE FlowStep /\ ~Chat
  BY <1>0, <1>2, UpFrame DEF ErrInv
<1>3. ASSUME NEW a \in Attempts, Respond(a) PROVE ErrInv'
  <2>1. "none" \notin Answers \cup {"transport"}
    BY ChatAssumption DEF Error
  <2> QED BY <1>0, <1>3, <2>1 DEF Respond, ErrInv, Sender
<1>4. ASSUME NEW a \in Attempts, SendLine(a) \/ SendError(a) PROVE ErrInv'
  BY <1>0, <1>4 DEF SendLine, SendError, ErrInv, Sender
<1>5. CASE Aside
  BY <1>0, <1>5, AsideFrame DEF ErrInv
<1> QED BY <1>1, <1>2, <1>3, <1>4, <1>5, Steps DEF Upstream

\* The accounts of the current answer, as a predicate of what they are about:
\* the lines received, the channel and the goroutine.
Accounts(got, chan, u) ==
    LET erred == u.pc = "ended" /\ u.err # "none" IN
    /\ got + Len(chan) = u.sent + (IF erred THEN 1 ELSE 0)
    /\ erred => chan # <<>> /\ chan[Len(chan)] \in Error
    /\ \A i \in 1 .. Len(chan) : chan[i] \in Error => i = Len(chan) /\ erred

\* Taking a line from the channel keeps the accounts.
LEMMA TakeLine ==
  ASSUME NEW got \in Nat, NEW chan \in Seq(Item), NEW u \in Sender,
         Accounts(got, chan, u), chan # <<>>, Head(chan) = "line"
  PROVE  Accounts(got + 1, Tail(chan), u)
<1> DEFINE erred == u.pc = "ended" /\ u.err # "none"
<1>1. /\ Len(chan) \in Nat /\ Len(chan) > 0 /\ Len(Tail(chan)) = Len(chan) - 1
      /\ Tail(chan) \in Seq(Item)
      /\ \A i \in 1 .. Len(Tail(chan)) : Tail(chan)[i] = chan[i + 1]
      /\ chan[1] = "line"
  OBVIOUS
<1>2. got + 1 + Len(Tail(chan)) = u.sent + (IF erred THEN 1 ELSE 0)
  <2>1. got + Len(chan) = u.sent + (IF erred THEN 1 ELSE 0)
    BY DEF Accounts
  <2>2. got + 1 + Len(Tail(chan)) = got + Len(chan)
    BY <1>1
  <2> QED BY <2>1, <2>2
<1>3. erred => Tail(chan) # <<>> /\ Tail(chan)[Len(Tail(chan))] \in Error
  <2> SUFFICES ASSUME erred PROVE Tail(chan) # <<>> /\ Tail(chan)[Len(Tail(chan))] \in Error
    OBVIOUS
  <2>1. chan[Len(chan)] \in Error
    BY DEF Accounts
  <2>2. Len(chan) # 1
    BY <1>1, <2>1 DEF Error
  <2>3. PICK n \in Nat : n = Len(chan) - 1 /\ n + 1 = Len(chan) /\ n > 0
    <3>1. Len(chan) - 1 \in Nat /\ Len(chan) - 1 > 0
      BY <1>1, <2>2
    <3>2. (Len(chan) - 1) + 1 = Len(chan)
      BY <1>1
    <3> QED BY <3>1, <3>2
  <2>4. Len(Tail(chan)) = n /\ n \in 1 .. n
    <3>1. n \in 1 .. n
      BY <2>3
    <3> QED BY <1>1, <2>3, <3>1, Zenon
  <2>5. Tail(chan)[n] = chan[Len(chan)]
    BY <1>1, <2>3, <2>4
  <2>6. Tail(chan) # <<>>
    <3>1. n # 0 /\ Len(<<>>) = 0
      BY <2>3
    <3> QED BY <2>4, <3>1, Zenon
  <2> QED BY <2>1, <2>4, <2>5, <2>6
<1>4. ASSUME NEW i \in 1 .. Len(Tail(chan)), Tail(chan)[i] \in Error
      PROVE  i = Len(Tail(chan)) /\ erred
  <2>1. i + 1 \in 1 .. Len(chan) /\ chan[i + 1] \in Error
    BY <1>1, <1>4
  <2>2. i + 1 = Len(chan) /\ erred
    BY <2>1 DEF Accounts
  <2>3. i \in Nat /\ Len(Tail(chan)) = Len(chan) - 1 /\ Len(chan) \in Nat
    BY <1>1
  <2>4. i = Len(Tail(chan))
    BY <2>2, <2>3
  <2> QED BY <2>2, <2>4
<1> QED BY <1>2, <1>3, <1>4 DEF Accounts

\* So does adding a line to it.
LEMMA AddLine ==
  ASSUME NEW got \in Nat, NEW chan \in Seq(Item), NEW u \in Sender, NEW v \in Sender,
         NEW item \in {"line", "malformed"},
         Accounts(got, chan, u), u.pc = "body", v.pc = "body", v.sent = u.sent + 1
  PROVE  Accounts(got, Append(chan, item), v)
<1>1. /\ Len(chan) \in Nat /\ Len(Append(chan, item)) = Len(chan) + 1
      /\ \A i \in 1 .. Len(chan) : Append(chan, item)[i] = chan[i]
      /\ Append(chan, item)[Len(chan) + 1] = item
  BY DEF Item
<1>2. got + Len(chan) = u.sent /\ u.sent \in Nat
  BY ChatAssumption DEF Accounts, Sender
<1>3. got + Len(Append(chan, item)) = v.sent
  BY <1>1, <1>2
<1>4. \A i \in 1 .. Len(Append(chan, item)) : Append(chan, item)[i] \notin Error
  <2>1. \A i \in 1 .. Len(chan) : chan[i] \notin Error
    BY DEF Accounts
  <2>2. item \notin Error
    BY DEF Error
  <2> QED BY <1>1, <2>1, <2>2
<1> QED BY <1>2, <1>3, <1>4 DEF Accounts

\* So does adding the error that ends it.
LEMMA AddError ==
  ASSUME NEW got \in Nat, NEW chan \in Seq(Item), NEW u \in Sender, NEW v \in Sender,
         Accounts(got, chan, u), u.pc = "failing", u.err # "none",
         v.pc = "ended", v.err = u.err, v.sent = u.sent
  PROVE  Accounts(got, Append(chan, u.err), v)
<1> DEFINE longer == Append(chan, u.err)
<1>0. u.err \in Error /\ u.err \in Item
  BY DEF Sender, Item
<1>1. /\ Len(chan) \in Nat /\ Len(longer) = Len(chan) + 1
      /\ \A i \in 1 .. Len(chan) : longer[i] = chan[i]
      /\ longer[Len(chan) + 1] = u.err
  BY <1>0
<1>2. got + Len(chan) = u.sent /\ u.sent \in Nat
  BY ChatAssumption DEF Accounts, Sender
<1>3. got + Len(longer) = v.sent + 1
  BY <1>1, <1>2
<1>4. longer # <<>> /\ longer[Len(longer)] \in Error
  BY <1>0, <1>1
<1>5. \A i \in 1 .. Len(longer) : longer[i] \in Error => i = Len(longer)
  <2>1. \A i \in 1 .. Len(chan) : chan[i] \notin Error
    BY DEF Accounts
  <2> QED BY <1>1, <2>1
<1> QED BY <1>3, <1>4, <1>5 DEF Accounts

\* The accounts of the current answer hold as long as it is received.
AccountsInv == flow.pc \in {"stream", "emit"} => Accounts(flow.got, Chan, up[flow.attempt])

\* AnswerInv says no more than that.
LEMMA AnswerParts == AnswerInv <=> ErrInv /\ AccountsInv
  BY DEF AnswerInv, ErrInv, AccountsInv, Accounts, Erred

\* A new answer starts with empty accounts; the flow takes from them, and the
\* goroutine adds to them, in step.
LEMMA AccountsStep == ChatInv /\ Next => AccountsInv'
<1> SUFFICES ASSUME ChatInv, Next PROVE AccountsInv'
  OBVIOUS
<1>0. /\ FlowType /\ AccountsInv /\ ErrInv
      /\ up \in [Attempts -> Sender] /\ events \in [Attempts -> Seq(Item)]
  BY AnswerParts DEF ChatInv, TypeOK, FlowType
<1>a. flow.got \in Nat
  BY <1>0, ChatAssumption DEF FlowType, Flow
<1>b. flow.pc \in {"stream", "emit"} => flow.attempt \in Attempts
  BY DEF ChatInv, LoopInv
<1>1. CASE FlowStep
  <2>1. CASE Chat
    <3>1. Untouched(flow.attempt) /\ flow.attempt \in Attempts
      BY <2>1 DEF ChatInv, LoopInv, Chat, Before
    <3>2. /\ flow'.got = 0 /\ flow'.attempt = flow.attempt
          /\ up'[flow.attempt] = [pc |-> "asked", sent |-> 0, err |-> "none"]
          /\ events'[flow.attempt] = <<>>
      <4>1. flow'.got = 0 /\ flow'.attempt = flow.attempt
        BY <1>0, <2>1, ChatMoves DEF OnWith
      <4>2. up'[flow.attempt] = [up[flow.attempt] EXCEPT !.pc = "asked"]
        BY <1>0, <2>1, <3>1 DEF Chat
      <4>3. events'[flow.attempt] = <<>>
        BY <2>1, <3>1 DEF Chat, Untouched
      <4> QED BY <3>1, <4>1, <4>2, <4>3 DEF Untouched
    <3>3. Accounts(0, <<>>, [pc |-> "asked", sent |-> 0, err |-> "none"])
      BY DEF Accounts
    <3> QED BY <3>2, <3>3 DEF AccountsInv, Chan
  <2>2. CASE StreamLine
    <3>1. flow.pc = "stream" /\ Chan # <<>> /\ Head(Chan) = "line" /\ UNCHANGED up
      BY <2>2 DEF StreamLine
    <3>2. flow'.got = flow.got + 1 /\ flow'.attempt = flow.attempt
      BY <1>0, <2>2, LineMoves DEF OnWith
    <3>3. Chan \in Seq(Item) /\ up[flow.attempt] \in Sender
      BY <1>0, <1>b, <3>1 DEF Chan
    <3>4. Chan' = Tail(Chan)
      BY <1>0, <1>b, <2>2, <3>1, <3>2 DEF StreamLine, Receive, Chan
    <3>5. Accounts(flow.got, Chan, up[flow.attempt])
      BY <1>0, <3>1 DEF AccountsInv
    <3>6. Accounts(flow.got + 1, Tail(Chan), up[flow.attempt])
      BY <1>a, <3>1, <3>3, <3>5, TakeLine
    <3> QED BY <3>1, <3>2, <3>4, <3>6 DEF AccountsInv
  <2>3. CASE SendEvent
    <3>1. UNCHANGED <<up, events>>
      BY <2>3 DEF SendEvent, Send
    <3>2. \E pc : Goto(pc) /\ (pc \in {"stream", "emit"} => flow.pc = "emit")
      BY <2>3 DEF SendEvent, Send
    <3> QED BY <1>0, <3>1, <3>2, GotoMoves DEF AccountsInv, OnWith, Chan
  <2>4. ASSUME FlowStep, ~Chat, ~StreamLine, ~SendEvent
        PROVE  flow'.pc \notin {"stream", "emit"}
    <3>1. CASE LoopHead
      BY <1>0, <3>1, LoopHeadMoves DEF OnWith
    <3>2. CASE Pick
      BY <1>0, <3>2, PickMoves DEF OnWith, ToNext
    <3>3. CASE CallWithoutClient \/ BuildFails \/ StreamClosed \/ Settle \/ Fail
      <4>1. \E pc : Goto(pc) /\ pc \notin {"stream", "emit"}
        BY <3>3 DEF CallWithoutClient, BuildFails, StreamClosed, Settle, Fail, Send
      <4> QED BY <1>0, <4>1, GotoMoves DEF OnWith
    <3>4. ASSUME NEW e \in AtOnce, ChatFails(e) PROVE flow'.pc \notin {"stream", "emit"}
      BY <1>0, <3>4, ChatFailsMoves DEF OnWith
    <3>5. CASE Backoff
      BY <1>0, <3>5, NextMoves, GotoMoves DEF Backoff, OnWith, ToNext
    <3>6. CASE StreamCancelled \/ StreamError
      <4>1. \E e : StreamFails(e)
        BY <3>6 DEF StreamCancelled, StreamError
      <4> QED BY <1>0, <4>1, FailMoves DEF ToNext
    <3> QED BY <2>4, <3>1, <3>2, <3>3, <3>4, <3>5, <3>6 DEF FlowStep
  <2> QED BY <1>1, <2>1, <2>2, <2>3, <2>4 DEF AccountsInv
<1>2. ASSUME NEW a \in Attempts, Upstream(a), flow.pc \in {"stream", "emit"}
      PROVE  AccountsInv'
  <2>1. UNCHANGED flow
    BY <1>2, UpstreamFrame
  <2>2. Accounts(flow.got, Chan, up[flow.attempt])
    BY <1>0, <1>2 DEF AccountsInv
  <2>3. CASE a # flow.attempt
    <3>1. Chan' = Chan /\ up'[flow.attempt] = up[flow.attempt]
      BY <1>2, <1>b, <2>1, <2>3, UpstreamLocal DEF Chan
    <3> QED BY <2>1, <2>2, <3>1 DEF AccountsInv
  <2>4. CASE a = flow.attempt
    <3>0. /\ Chan \in Seq(Item) /\ up[a] \in Sender
          /\ Accounts(flow.got, Chan, up[a])
      BY <1>0, <2>2, <2>4 DEF Chan
    <3>u. up'[a] \in Sender
      BY UpTypeStep
    <3>1. CASE Respond(a)
      <4>1. UNCHANGED Chan
        BY <2>1, <3>1 DEF Respond, Chan
      <4>2. /\ up[a].pc \in {"asked", "body"} /\ up[a].err = "none"
            /\ up'[a].sent = up[a].sent
            /\ up'[a].pc # "ended" \/ up'[a].err = "none"
        BY <1>0, <3>1 DEF Respond, ErrInv, Sender
      <4>3. Accounts(flow.got, Chan, up'[a])
        BY <3>0, <4>2 DEF Accounts
      <4> QED BY <2>1, <2>4, <4>1, <4>3 DEF AccountsInv
    <3>2. CASE SendLine(a)
      <4>1. PICK line \in {"line", "malformed"} : Chan' = Append(Chan, line)
        BY <1>0, <2>1, <2>4, <3>2 DEF SendLine, Chan
      <4>2. up[a].pc = "body" /\ up'[a].pc = "body" /\ up'[a].sent = up[a].sent + 1
        BY <1>0, <3>2 DEF SendLine, Sender
      <4>3. Accounts(flow.got, Append(Chan, line), up'[a])
        BY <1>a, <3>0, <3>u, <4>2, AddLine
      <4> QED BY <2>1, <2>4, <4>1, <4>3 DEF AccountsInv
    <3>3. CASE SendError(a)
      <4>1. Chan' = Append(Chan, up[a].err)
        BY <1>0, <2>1, <2>4, <3>3 DEF SendError, Chan
      <4>2. /\ up[a].pc = "failing" /\ up[a].err # "none" /\ up'[a].pc = "ended"
            /\ up'[a].err = up[a].err /\ up'[a].sent = up[a].sent
        BY <1>0, <3>3 DEF SendError, ErrInv, Sender
      <4>3. Accounts(flow.got, Append(Chan, up[a].err), up'[a])
        BY <1>a, <3>0, <3>u, <4>2, AddError
      <4> QED BY <2>1, <2>4, <4>1, <4>3 DEF AccountsInv
    <3> QED BY <1>2, <3>1, <3>2, <3>3 DEF Upstream
  <2> QED BY <2>3, <2>4
<1>3. CASE (\E a \in Attempts : Upstream(a)) /\ flow.pc \notin {"stream", "emit"}
  BY <1>3, UpstreamFrame DEF AccountsInv
<1>4. CASE Aside
  BY <1>0, <1>4, AsideFrame DEF AccountsInv, Chan
<1> QED BY <1>1, <1>2, <1>3, <1>4, Steps

\* The steps keep the accounts of the current answer.
LEMMA AnswerStep == ChatInv /\ Next => AnswerInv'
<1>1. (AnswerInv <=> ErrInv /\ AccountsInv)'
  BY AnswerParts, PTL
<1> QED BY <1>1, ErrStep, AccountsStep

\* Only the end of a stream makes the flow finish the answer, and finished is
\* only what was received to its end.
LEMMA WholeStep == ChatInv /\ Next => OnlyWholeAnswersFinish'
<1> DEFINE Finishing == flow.pc \in {"flush", "finish", "settle"} \/ billed = 1
           Whole == LET u == up[flow.attempt]
                    IN  u.pc = "ended" /\ u.err = "none" /\ u.sent = flow.got
<1> SUFFICES ASSUME ChatInv, Next, Finishing' PROVE Whole'
  BY DEF OnlyWholeAnswersFinish
<1>0. /\ FlowType /\ ErrInv /\ AccountsInv
      /\ up \in [Attempts -> Sender] /\ events \in [Attempts -> Seq(Item)]
  BY AnswerParts DEF ChatInv, TypeOK, FlowType
<1>a. Finishing => Whole /\ flow.attempt \in Attempts
  BY DEF ChatInv, OnlyWholeAnswersFinish, LoopInv
<1>b. billed = 1 => flow.pc = "done"
  BY DEF ChatInv, LoopInv
<1>1. CASE FlowStep
  <2>1. CASE StreamClosed
    <3>1. /\ flow.pc = "stream" /\ Chan = <<>> /\ up[flow.attempt].pc = "ended"
          /\ UNCHANGED up
      BY <2>1 DEF StreamClosed
    <3>2. flow.attempt \in Attempts
      BY <3>1 DEF ChatInv, LoopInv
    <3>3. Accounts(flow.got, <<>>, up[flow.attempt])
      BY <1>0, <3>1 DEF AccountsInv
    <3>4. up[flow.attempt].err = "none"
      BY <3>1, <3>3 DEF Accounts
    <3>5. flow.got = up[flow.attempt].sent
      <4>1. flow.got + 0 = up[flow.attempt].sent + 0
        BY <3>3, <3>4 DEF Accounts
      <4>2. flow.got \in Nat /\ up[flow.attempt].sent \in Nat
        BY <1>0, <3>2, ChatAssumption DEF FlowType, Flow, Sender
      <4> QED BY <4>1, <4>2
    <3>6. flow'.attempt = flow.attempt /\ flow'.got = flow.got
      BY <1>0, <2>1, GotoMoves DEF StreamClosed, OnWith
    <3> QED BY <3>1, <3>4, <3>5, <3>6
  <2>2. CASE Finishing /\ ((SendEvent /\ flow.pc # "emit") \/ Settle)
    <3>1. UNCHANGED up /\ \E pc : Goto(pc)
      BY <2>2 DEF SendEvent, Send, Settle
    <3>2. flow'.attempt = flow.attempt /\ flow'.got = flow.got
      BY <1>0, <3>1, GotoMoves DEF OnWith
    <3> QED BY <1>a, <2>2, <3>1, <3>2
  <2>3. StreamClosed \/ (Finishing /\ ((SendEvent /\ flow.pc # "emit") \/ Settle))
    <3>1. CASE SendEvent
      <4>1. CASE flow.pc = "emit"
        <5>1. Goto("stream") /\ UNCHANGED billed
          BY <3>1, <4>1 DEF SendEvent, Send, history
        <5>2. flow'.pc = "stream"
          BY <1>0, <5>1, GotoMoves DEF OnWith
        <5> QED BY <1>b, <4>1, <5>1, <5>2
      <4> QED BY <3>1, <4>1 DEF SendEvent
    <3>2. Settle => Finishing
      BY DEF Settle
    <3>3. ASSUME ~SendEvent, ~Settle, ~StreamClosed PROVE FALSE
      <4>1. billed' = billed
        BY <1>1, <3>3 DEF FlowStep, LoopHead, Pick, CallWithoutClient, BuildFails, Chat,
               ChatFails, Backoff, StreamCancelled, StreamError, StreamLine, Send, Fail,
               history
      <4>2. billed # 1
        BY <1>1, <1>b, <3>3 DEF FlowStep, LoopHead, Pick, CallWithoutClient, BuildFails,
               Chat, ChatFails, Backoff, StreamCancelled, StreamError, StreamLine, Fail
      <4>3. flow'.pc \notin {"flush", "finish", "settle"}
        <5>1. CASE LoopHead
          BY <1>0, <5>1, LoopHeadMoves DEF OnWith
        <5>2. CASE Pick
          BY <1>0, <5>2, PickMoves DEF OnWith, ToNext
        <5>3. CASE CallWithoutClient \/ BuildFails \/ Fail
          <6>1. \E pc : Goto(pc) /\ pc \notin {"flush", "finish", "settle"}
            BY <5>3 DEF CallWithoutClient, BuildFails, Fail, Send
          <6> QED BY <1>0, <6>1, GotoMoves DEF OnWith
        <5>4. CASE Chat \/ StreamLine
          BY <1>0, <5>4, ChatMoves, LineMoves DEF OnWith
        <5>5. ASSUME NEW e \in AtOnce, ChatFails(e)
              PROVE  flow'.pc \notin {"flush", "finish", "settle"}
          BY <1>0, <5>5, ChatFailsMoves DEF OnWith
        <5>6. CASE Backoff
          BY <1>0, <5>6, NextMoves, GotoMoves DEF Backoff, OnWith, ToNext
        <5>7. CASE StreamCancelled \/ StreamError
          <6>1. \E e : StreamFails(e)
            BY <5>7 DEF StreamCancelled, StreamError
          <6> QED BY <1>0, <6>1, FailMoves DEF ToNext
        <5> QED BY <1>1, <3>3, <5>1, <5>2, <5>3, <5>4, <5>5, <5>6, <5>7 DEF FlowStep
      <4> QED BY <4>1, <4>2, <4>3
    <3> QED BY <3>1, <3>2, <3>3
  <2> QED BY <2>1, <2>2, <2>3
<1>2. ASSUME NEW a \in Attempts, Upstream(a) PROVE Whole'
  <2>1. UNCHANGED <<flow, billed>>
    BY <1>2, UpstreamFrame DEF history
  <2>2. Whole /\ flow.attempt \in Attempts
    BY <1>a, <2>1
  <2>3. a # flow.attempt
    BY <1>2, <2>2 DEF Upstream, Respond, SendLine, SendError
  <2>4. up'[flow.attempt] = up[flow.attempt]
    BY <1>2, <2>2, <2>3, UpstreamLocal
  <2> QED BY <2>1, <2>2, <2>4
<1>3. CASE Aside
  BY <1>a, <1>3, AsideFrame
<1> QED BY <1>1, <1>2, <1>3, Steps

-----------------------------------------------------------------------------
(* The ending.                                                             *)

\* As long as the flow has not decided, the channel carries content only.
LEMMA OnlyContent ==
  ASSUME ChatInv, flow.pc \notin {"settle", "done", "panicked"}
  PROVE  /\ billed = 0
         /\ \A i \in 1 .. Len(out) : out[i] = "content"
         /\ handler.pc \notin {"failed", "complete"}
<1>1. billed = 0
  BY DEF ChatInv, TypeOK, LoopInv
<1>2. out \in Seq(Event)
  BY DEF ChatInv, TypeOK, Event
<1>3. \A i \in 1 .. Len(out) : out[i] \in Event
  BY <1>2
<1> QED BY <1>1, <1>3 DEF ChatInv, EndingInv, OneEnding, Event

\* Appending an event puts it last and moves nothing else.
LEMMA Appended ==
  ASSUME OutType, NEW e \in Event
  PROVE  /\ Len(Append(out, e)) = Len(out) + 1 /\ Len(out) \in Nat
         /\ \A i \in 1 .. Len(out) : Append(out, e)[i] = out[i]
         /\ Append(out, e)[Len(out) + 1] = e
  BY DEF OutType

\* The same, where the channel carried content only.
LEMMA AppendedToContent ==
  ASSUME OutType, NEW e \in Event, out' = Append(out, e),
         \A i \in 1 .. Len(out) : out[i] = "content"
  PROVE  /\ \A i \in 1 .. Len(out') : out'[i] # "content" => i = Len(out') /\ e # "content"
         /\ \A i \in 1 .. Len(out') : out'[i] \in {"content", e}
         /\ Len(out') \in 1 .. Len(out') /\ out'[Len(out')] = e
<1>1. /\ Len(out') = Len(out) + 1 /\ Len(out) \in Nat
      /\ \A i \in 1 .. Len(out) : out'[i] = out[i]
      /\ out'[Len(out) + 1] = e
  BY Appended
<1>2. Len(out') \in 1 .. Len(out') /\ out'[Len(out')] = e
  BY <1>1
<1>3. \A i \in 1 .. Len(out') : i \in 1 .. Len(out) \/ i = Len(out')
  BY <1>1
<1> QED BY <1>1, <1>2, <1>3

\* What remains when the first event is taken was there before.
LEMMA Taken ==
  ASSUME OutType, out # <<>>, out' = Tail(out)
  PROVE  /\ Len(out') = Len(out) - 1 /\ Len(out) \in Nat
         /\ \A i \in 1 .. Len(out') : i + 1 \in 1 .. Len(out) /\ out'[i] = out[i + 1]
         /\ \A i \in 1 .. Len(out) : i # 1 => i - 1 \in 1 .. Len(out')
  BY DEF OutType

\* The flow's steps: each send has its meaning for the ending.
LEMMA EndingFlowStep == ChatInv /\ FlowStep => EndingInv'
<1> SUFFICES ASSUME ChatInv, FlowStep PROVE EndingInv'
  OBVIOUS
<1>0. FlowType /\ OutType /\ UNCHANGED handler /\ billed \in 0 .. 1
  BY FlowFrame DEF ChatInv, TypeOK, FlowType, OutType, Event
<1>1. CASE SendEvent \/ Fail
  <2>1. PICK e \in Event, pc \in {"stream", "finish", "settle", "done"} :
          /\ Send(e, pc)
          /\ e = "finish" <=> pc = "settle"
          /\ e = "error" <=> pc = "done"
    BY <1>1 DEF SendEvent, Fail, Event
  <2>2. flow.pc \notin {"settle", "done", "panicked"}
    BY <1>1 DEF SendEvent, Fail
  <2>3. /\ billed = 0 /\ (\A i \in 1 .. Len(out) : out[i] = "content")
        /\ handler.pc \notin {"failed", "complete"}
    BY <2>2, OnlyContent
  <2>4. out' = Append(out, e) /\ flow'.pc = pc /\ billed' = 0
    BY <1>0, <2>1, <2>3, GotoMoves DEF Send, OnWith, history
  <2>5. /\ \A i \in 1 .. Len(out') : out'[i] # "content" => i = Len(out')
        /\ \A i \in 1 .. Len(out') : out'[i] \in {"content", e}
        /\ Len(out') \in 1 .. Len(out') /\ out'[Len(out')] = e
    BY <1>0, <2>3, <2>4, AppendedToContent
  <2>6. OneEnding'
    BY <1>0, <2>1, <2>3, <2>4, <2>5 DEF OneEnding
  <2>7. flow'.pc = "done" => InOut("error")'
    BY <2>1, <2>4, <2>5 DEF InOut
  <2> QED BY <2>6, <2>7 DEF EndingInv
<1>2. CASE Settle
  <2>1. flow.pc = "settle" /\ billed = 0
    BY <1>0, <1>2 DEF ChatInv, LoopInv, Settle
  <2>2. billed' = 1 /\ UNCHANGED out
    BY <1>2, <2>1 DEF Settle
  <2>3. handler.pc \notin {"failed", "complete"}
    BY <2>1 DEF ChatInv, EndingInv, OneEnding
  <2> QED BY <1>0, <2>1, <2>2, <2>3 DEF ChatInv, EndingInv, OneEnding
<1>3. CASE ~SendEvent /\ ~Fail /\ ~Settle
  <2>1. flow.pc \notin {"settle", "done", "panicked"}
    BY <1>3 DEF FlowStep, LoopHead, Pick, CallWithoutClient, BuildFails, Chat, ChatFails,
           Backoff, StreamCancelled, StreamError, StreamLine, StreamClosed
  <2>2. /\ billed = 0 /\ (\A i \in 1 .. Len(out) : out[i] = "content")
        /\ handler.pc \notin {"failed", "complete"}
    BY <2>1, OnlyContent
  <2>3. billed' = 0 /\ UNCHANGED out
    <3>1. UNCHANGED out
      BY <1>3, OutFrame
    <3>2. billed' = billed
      BY <1>3 DEF FlowStep, LoopHead, Pick, CallWithoutClient, BuildFails, Chat, ChatFails,
             Backoff, StreamCancelled, StreamError, StreamLine, StreamClosed, history
    <3> QED BY <2>2, <3>1, <3>2
  <2>4. flow'.pc # "done"
    <3>1. CASE LoopHead
      BY <1>0, <3>1, LoopHeadMoves DEF OnWith
    <3>2. CASE Pick
      BY <1>0, <3>2, PickMoves DEF OnWith, ToNext
    <3>3. CASE CallWithoutClient \/ BuildFails \/ StreamClosed
      <4>1. \E pc : Goto(pc) /\ pc # "done"
        BY <3>3 DEF CallWithoutClient, BuildFails, StreamClosed
      <4> QED BY <1>0, <4>1, GotoMoves DEF OnWith
    <3>4. CASE Chat \/ StreamLine
      BY <1>0, <3>4, ChatMoves, LineMoves DEF OnWith
    <3>5. ASSUME NEW e \in AtOnce, ChatFails(e) PROVE flow'.pc # "done"
      BY <1>0, <3>5, ChatFailsMoves DEF OnWith
    <3>6. CASE Backoff
      BY <1>0, <3>6, NextMoves, GotoMoves DEF Backoff, OnWith, ToNext
    <3>7. CASE StreamCancelled \/ StreamError
      <4>1. \E e : StreamFails(e)
        BY <3>7 DEF StreamCancelled, StreamError
      <4> QED BY <1>0, <4>1, FailMoves DEF ToNext
    <3> QED BY <1>3, <3>1, <3>2, <3>3, <3>4, <3>5, <3>6, <3>7 DEF FlowStep
  <2> QED BY <1>0, <2>2, <2>3, <2>4 DEF EndingInv, OneEnding
<1> QED BY <1>1, <1>2, <1>3

\* The handler fails on the error event and completes on a closed channel.
LEMMA EndingHandlerStep == ChatInv /\ HandlerStep => EndingInv'
<1> SUFFICES ASSUME ChatInv, HandlerStep PROVE EndingInv'
  OBVIOUS
<1>0. /\ OutType /\ OneEnding /\ handler \in Handler /\ billed \in 0 .. 1
      /\ flow.pc = "done" /\ billed = 0 /\ handler.pc = "reading" => InOut("error")
  BY DEF ChatInv, TypeOK, OutType, Event, EndingInv
<1>a. UNCHANGED <<flow, billed>>
  BY AsideFrame DEF Aside
<1>1. CASE Complete
  <2>1. handler.pc = "reading" /\ out = <<>> /\ Closed /\ UNCHANGED out
    BY <1>1 DEF Complete
  <2>2. handler'.pc = "complete"
    BY <1>0, <1>1 DEF Complete, Return, Handler
  <2>3. ~InOut("error")
    BY <2>1 DEF InOut
  <2>4. billed = 1 \/ flow.pc = "panicked"
    BY <1>0, <2>1, <2>3 DEF Closed
  <2> QED BY <1>0, <1>a, <2>1, <2>2, <2>4 DEF EndingInv, OneEnding
<1>2. CASE Read
  <2>1. handler.pc = "reading" /\ out # <<>> /\ out' = Tail(out)
    BY <1>2 DEF Read
  <2>2. PICK pc \in {"left", "failed", "reading"} :
          /\ Return(pc)
          /\ pc \in {"failed", "reading"} => (pc = "failed" <=> Head(out) = "error")
    BY <1>2 DEF Read
  <2>3. handler'.pc = pc
    BY <1>0, <2>2 DEF Return, Handler
  <2>4. /\ Len(out') = Len(out) - 1 /\ Len(out) \in Nat
        /\ \A i \in 1 .. Len(out') : i + 1 \in 1 .. Len(out) /\ out'[i] = out[i + 1]
        /\ \A i \in 1 .. Len(out) : i # 1 => i - 1 \in 1 .. Len(out')
    BY <1>0, <2>1, Taken
  <2>5. 1 \in 1 .. Len(out) /\ out[1] = Head(out)
    BY <1>0, <2>1 DEF OutType
  <2>6. \A i \in 1 .. Len(out') : out'[i] # "content" => i = Len(out')
    <3>1. ASSUME NEW i \in 1 .. Len(out'), out'[i] # "content" PROVE i = Len(out')
      <4>1. i + 1 = Len(out)
        BY <1>0, <2>4, <3>1 DEF OneEnding
      <4>2. i \in Nat /\ Len(out') = Len(out) - 1
        BY <2>4
      <4> QED BY <4>1, <4>2
    <3> QED BY <3>1
  <2>7. \A e : InOut(e)' => InOut(e)
    BY <2>4 DEF InOut
  <2>8. pc = "failed" => InOut("error")
    BY <2>2, <2>5 DEF InOut
  <2>9. pc = "reading" /\ InOut("error") => InOut("error")'
    <3> SUFFICES ASSUME pc = "reading", InOut("error") PROVE InOut("error")'
      OBVIOUS
    <3>1. PICK i \in 1 .. Len(out) : out[i] = "error"
      BY DEF InOut
    <3>2. i # 1
      BY <2>2, <2>5, <3>1
    <3>3. i - 1 \in 1 .. Len(out')
      BY <2>4, <3>2
    <3>4. (i - 1) + 1 = i
      BY <2>4
    <3>5. out'[i - 1] = "error"
      BY <2>4, <3>1, <3>3, <3>4
    <3> QED BY <3>3, <3>5 DEF InOut
  <2>10. InOut("finish") => flow.pc = "settle" \/ billed = 1
    BY <1>0 DEF OneEnding, InOut
  <2>11. InOut("error") => billed = 0 /\ flow.pc = "done"
    BY <1>0 DEF OneEnding, InOut
  <2>12. (InOut("finish") => flow.pc = "settle" \/ billed = 1)'
    BY <1>a, <2>7, <2>10
  <2>13. (InOut("error") => billed = 0 /\ flow.pc = "done")'
    BY <1>a, <2>7, <2>11
  <2>14. OneEnding'
    BY <1>a, <2>2, <2>3, <2>6, <2>8, <2>11, <2>12, <2>13 DEF OneEnding, InOut
  <2>15. (flow.pc = "done" /\ billed = 0 /\ handler.pc = "reading" => InOut("error"))'
    BY <1>0, <1>a, <2>1, <2>3, <2>9
  <2> QED BY <2>14, <2>15 DEF EndingInv
<1> QED BY <1>1, <1>2 DEF HandlerStep

\* The steps keep the ending; those of the upstream do not concern it.
LEMMA EndingStep == ChatInv /\ Next => EndingInv'
<1> SUFFICES ASSUME ChatInv, Next PROVE EndingInv'
  OBVIOUS
<1>1. EndingInv
  BY DEF ChatInv
<1>2. CASE (\E a \in Attempts : Upstream(a)) \/ Disconnect \/ BudgetPasses
           \/ \E t \in Tokens : OthersChange(t)
  <2>1. UNCHANGED <<flow, out, handler, billed>>
    BY <1>2, UpstreamFrame DEF Disconnect, BudgetPasses, OthersChange, history
  <2> QED BY <1>1, <2>1 DEF EndingInv, OneEnding, InOut
<1> QED BY <1>2, EndingFlowStep, EndingHandlerStep, Steps DEF Aside

-----------------------------------------------------------------------------
(* The theorems.                                                           *)

\* The invariant holds at first: nothing was attempted, sent or refused.
LEMMA ChatInvInit == Init => ChatInv
<1> SUFFICES ASSUME Init PROVE ChatInv
  OBVIOUS
<1>0. /\ flow.pc = "top" /\ flow.attempt = 0 /\ flow.token = NoToken
      /\ \A a \in Attempts : Untouched(a)
      /\ out = <<>> /\ refused = {} /\ billed = 0 /\ handler.pc = "reading"
  BY DEF Init, Untouched
<1>1. TypeOK
  <2>1. flow \in Flow
    BY Limits, ChatAssumption DEF Init, Flow, FlowPc
  <2>2. up \in [Attempts -> Sender]
    BY ChatAssumption DEF Init, Sender
  <2>3. events \in [Attempts -> Seq(Item)] /\ \A a \in Attempts : Len(events[a]) <= EventCap
    BY ChatAssumption DEF Init
  <2>4. OutType
    BY <1>0, ChatAssumption DEF OutType
  <2>5. RestType
    <3>1. handler \in Handler /\ billed \in 0 .. 1
      BY DEF Init, Handler
    <3>2. selectable \subseteq Tokens /\ refused \subseteq Tokens /\ cut \subseteq Attempts
      BY DEF Init
    <3>3. cancelled = FALSE /\ late = FALSE /\ stale = FALSE
      BY DEF Init
    <3> QED BY <3>1, <3>2, <3>3 DEF RestType
  <2> QED BY <2>1, <2>2, <2>3, <2>4, <2>5 DEF TypeOK, OutType, RestType, Event
<1>2. LoopInv
  BY <1>0 DEF LoopInv, Calling
<1>3. AnswerInv
  BY <1>0 DEF AnswerInv, Untouched
<1>4. OnlyWholeAnswersFinish
  BY <1>0 DEF OnlyWholeAnswersFinish
<1>5. EndingInv
  BY <1>0 DEF EndingInv, OneEnding
<1>6. TokenInv
  BY <1>0 DEF TokenInv
<1> QED BY <1>1, <1>2, <1>3, <1>4, <1>5, <1>6 DEF ChatInv

\* It is preserved by every step and by stuttering.
LEMMA ChatInvStep == ChatInv /\ [Next]_vars => ChatInv'
<1>1. ChatInv /\ Next => ChatInv'
  BY TypeStep, LoopStep, AnswerStep, WholeStep, EndingStep, TokenStep DEF ChatInv
<1>2. ChatInv /\ UNCHANGED vars => ChatInv'
  BY DEF ChatInv, vars, history, TypeOK, LoopInv, Untouched, AnswerInv, Erred, Chan,
         OnlyWholeAnswersFinish, EndingInv, OneEnding, InOut, TokenInv, Closed
<1> QED BY <1>1, <1>2

\* So it holds always.
LEMMA ChatInvAlways == Spec => []ChatInv
  BY ChatInvInit, ChatInvStep, PTL DEF Spec

\* Every state of every request has the types TypeOK names: the attempt index
\* and the retry count stay within their limits, no channel overflows, and a
\* request is billed at most once.
THEOREM TypeCorrect == Spec => []TypeOK
<1>1. ChatInv => TypeOK
  BY DEF ChatInv
<1> QED BY <1>1, ChatInvAlways, PTL

\* However many tokens, retries, errors and cancellations: one ending per
\* request, last in the channel, and the one that was billed or not.
THEOREM OneEndingAlways == Spec => []OneEnding
<1>1. ChatInv => OneEnding
  BY DEF ChatInv, EndingInv
<1> QED BY <1>1, ChatInvAlways, PTL

\* For answers of any length over channels of any size, an answer that was cut
\* short is neither finished nor billed.
THEOREM WholeAnswers == Spec => []OnlyWholeAnswersFinish
<1>1. ChatInv => OnlyWholeAnswersFinish
  BY DEF ChatInv
<1> QED BY <1>1, ChatInvAlways, PTL

\* For pools of any size, no request calls a token that it had cooled or
\* expired by a 403 and that nobody has put back.
THEOREM CooledNeverCalled == Spec => []CooledNotCalled
<1>1. ChatInv => CooledNotCalled
  BY DEF ChatInv, TokenInv, CooledNotCalled
<1> QED BY <1>1, ChatInvAlways, PTL
=============================================================================
