----------------------------- MODULE StreamText -----------------------------
(***************************************************************************)
(* The text of a chat answer on its way from the upstream's lines to the   *)
(* client: ChatFlow.streamEvents filters tags out of it and cuts tool      *)
(* calls out of it (internal/flow/tag_filter.go, tool_usage_card.go,       *)
(* toolcall_stream.go), then the handler's adapter (a streaming answer) or *)
(* collector (a blocking one) marks the thinking and looks for tool calls  *)
(* once more (internal/httpapi/openai).  The upstream splits the text      *)
(* where it likes, in the middle of a tag too, so every parser keeps what  *)
(* may be the beginning of a tag for the next chunk.                       *)
(*                                                                         *)
(* A text is a sequence of symbols: "<", "/", ">", the name of a tag, the  *)
(* end of a line, or anything else.  Other white space, the rewriting of   *)
(* image addresses and what a card's line has beside the card's own text   *)
(* (a label for the tools known by name, the rollout) are left out.        *)
(***************************************************************************)
EXTENDS Naturals, Sequences, SequencesExt

CONSTANTS
    DropTag,    \* name of a tag of filter_tags
    CardTag,    \* "xai:tool_usage_card"
    ToolTag,    \* "tool_call"
    Payloads,   \* the blocks parseToolCallPayload accepts
    Messages,   \* answers: sequences of symbols with their channel
    Private     \* symbols that only occur in thinking

NewLine == "newline"

\* Where a card's line begins: the text must be at the start of a line there.
Break == "break"

\* What the program itself puts into a text.
Signs == {"<", "/", ">", ToolTag, NewLine, Break, "<think>", "</think>"}

ASSUME TextAssumption ==
    /\ Signs \cup {DropTag, CardTag} \subseteq STRING
    /\ Messages \subseteq Seq([channel : {"content", "thinking"}, symbol : STRING])
    /\ \A m \in Messages : \A i \in 1 .. Len(m) :
           m[i].symbol \in Private => m[i].channel = "thinking"
    /\ \A m \in Messages : \A i \in 1 .. Len(m) : m[i].symbol # Break
    /\ Signs \cap Private = {}
    /\ CardTag \notin {"<", "/"}

VARIABLES
    message,    \* what the upstream still has to say
    phase,      \* "streaming", "flushed" (by the flow), "done"
    filter,     \* streamTokenFilter: the parsers of cards and of DropTag
    tools,      \* streamToolCallParser
    adapter,    \* chatStreamAdapter and what the client has received
    collector,  \* chatResponseCollector
    options,    \* of the request: tool calls are on, thinking is shown
    said,       \* history: the answer as a whole
    forwarded,  \* history: what the flow has made of it
    torn,       \* history: a chunk opened a card and ended inside its end tag
    parted,     \* history: a chunk had a card close after other text
    mixed       \* history: the filter held text of one channel when a chunk of
                \* the other came, or at the end

vars == <<message, phase, filter, tools, adapter, collector, options, said,
          forwarded, torn, parted, mixed>>

-----------------------------------------------------------------------------
(* Tags. *)

OpenTag(name)  == <<"<", name>>
StartTag(name) == <<"<", name, ">">>
EndTag(name)   == <<"<", "/", name, ">">>

\* strings.Index, counted from 1; 0 if there is none
Index(text, tag) ==
    LET at == {i \in 1 .. Len(text) - Len(tag) + 1 :
                   SubSeq(text, i, i + Len(tag) - 1) = tag}
    IN  IF at = {} THEN 0 ELSE CHOOSE i \in at : \A j \in at : i <= j

Before(text, i) == SubSeq(text, 1, i - 1)
From(text, i)   == SubSeq(text, i, Len(text))

\* Mutant of SuffixPrefixLength: the text as a whole is not looked at.
SuffixPrefixLengthStrict(text, tag) ==
    LET keeps == {k \in 1 .. Len(tag) - 1 :
                      k < Len(text) /\ IsSuffix(SubSeq(tag, 1, k), text)}
    IN  IF keeps = {} THEN 0 ELSE CHOOSE k \in keeps : \A l \in keeps : l <= k

\* The longest end of text that may be the beginning of tag.
SuffixPrefixLength(text, tag) ==
    LET keeps == {k \in 1 .. Len(tag) - 1 :
                      k <= Len(text) /\ IsSuffix(SubSeq(tag, 1, k), text)}
    IN  IF keeps = {} THEN 0 ELSE CHOOSE k \in keeps : \A l \in keeps : l <= k

Clean(text, tag) == Before(text, Len(text) + 1 - SuffixPrefixLength(text, tag))
Carry(text, tag) == From(text, Len(text) + 1 - SuffixPrefixLength(text, tag))

-----------------------------------------------------------------------------
(* The parsers.  A step takes a parser and a text, and says what becomes   *)
(* of the parser, what it lets through, and what is left of the text.      *)

NewParser == [inside |-> FALSE, partial |-> <<>>, buffer |-> <<>>, next |-> 0]

Result(p, text, calls, rest) ==
    [p |-> p, text |-> text, calls |-> calls, rest |-> rest]

\* dropTagParser
DropText(p, data) ==
    LET start == Index(data, OpenTag(DropTag))
        opened == From(data, start)
        close == Index(opened, <<">">>)
    IN  CASE start = 0 ->
               Result([p EXCEPT !.partial = Carry(data, OpenTag(DropTag))],
                      Clean(data, OpenTag(DropTag)), <<>>, <<>>)
          [] start # 0 /\ close = 0 ->
               Result([p EXCEPT !.partial = opened],
                      Before(data, start), <<>>, <<>>)
          [] OTHER ->
               Result([p EXCEPT !.inside = opened[close - 1] # "/"],
                      Before(data, start), <<>>, From(opened, close + 1))

DropInside(p, data) ==
    LET end == Index(data, EndTag(DropTag))
    IN  IF end = 0
        THEN Result([p EXCEPT !.partial = Carry(data, EndTag(DropTag))],
                    <<>>, <<>>, <<>>)
        ELSE Result([p EXCEPT !.inside = FALSE], <<>>, <<>>,
                    From(data, end + Len(EndTag(DropTag))))

DropStep(p, data) == IF p.inside THEN DropInside(p, data) ELSE DropText(p, data)

\* toolUsageCardParser: what htmlTagRegex, <[^>]+>, takes out of a card.
InTag(raw, k) ==
    \E i \in 1 .. k, j \in k .. Len(raw) :
        /\ raw[i] = "<" /\ raw[j] = ">" /\ i + 1 < j
        /\ \A between \in i + 1 .. j - 1 : raw[between] # ">"

\* What is left of it, with the space around it trimmed.
Stays(raw, k) ==
    LET Word(i) == ~InTag(raw, i) /\ raw[i] # NewLine
    IN  /\ ~InTag(raw, k)
        /\ \E i \in 1 .. k, j \in k .. Len(raw) : Word(i) /\ Word(j)

CardWords(raw) ==
    FlattenSeq([k \in 1 .. Len(raw) |-> IF Stays(raw, k) THEN <<raw[k]>> ELSE <<>>])

\* The line a card is turned into; an empty card has none.
CardLine(raw) ==
    IF CardWords(raw) = <<>> THEN <<>>
    ELSE <<Break>> \o CardWords(raw) \o <<NewLine>>

\* What emitCardLine puts before a line: a newline, unless the text of this
\* very chunk is empty so far or at the start of a line.
Put(text, k) ==
    CASE text[k] # Break -> <<text[k]>>
      [] text[k] = Break /\ (k = 1 \/ text[k - 1] = NewLine) -> <<>>
      [] OTHER -> <<NewLine>>

Settled(text) == FlattenSeq([k \in 1 .. Len(text) |-> Put(text, k)])

\* A card that begins goes into the buffer to its last symbol, so that an end
\* tag that has begun in the same chunk is not recognised any more.
CardText(p, data) ==
    LET start == Index(data, OpenTag(CardTag))
        card  == From(data, start)
        end   == Index(card, EndTag(CardTag)) + Len(EndTag(CardTag))
    IN  CASE start = 0 ->
               Result([p EXCEPT !.partial = Carry(data, OpenTag(CardTag))],
                      Clean(data, OpenTag(CardTag)), <<>>, <<>>)
          [] start # 0 /\ Index(card, EndTag(CardTag)) = 0 ->
               Result([p EXCEPT !.inside = TRUE, !.buffer = card],
                      Before(data, start), <<>>, <<>>)
          [] OTHER ->
               Result(p, Before(data, start) \o CardLine(Before(card, end)),
                      <<>>, From(card, end))

CardInside(p, data) ==
    LET end == Index(data, EndTag(CardTag)) + Len(EndTag(CardTag))
    IN  IF Index(data, EndTag(CardTag)) = 0
        THEN Result([p EXCEPT !.partial = Carry(data, EndTag(CardTag)),
                              !.buffer = @ \o Clean(data, EndTag(CardTag))],
                    <<>>, <<>>, <<>>)
        ELSE Result([p EXCEPT !.inside = FALSE, !.buffer = <<>>],
                    CardLine(p.buffer \o Before(data, end)), <<>>,
                    From(data, end))

CardStep(p, data) == IF p.inside THEN CardInside(p, data) ELSE CardText(p, data)

\* ParseToolCallBlock: the calls a block makes, one or none.
ToolCallsOf(raw, index) ==
    IF raw \in Payloads THEN <<[payload |-> raw, index |-> index]>> ELSE <<>>

\* streamToolCallParser, and toolCallStreamParser which does the same.
ToolText(p, data) ==
    LET start == Index(data, StartTag(ToolTag))
    IN  IF start = 0
        THEN Result([p EXCEPT !.partial = Carry(data, StartTag(ToolTag))],
                    Clean(data, StartTag(ToolTag)), <<>>, <<>>)
        ELSE Result([p EXCEPT !.inside = TRUE], Before(data, start), <<>>,
                    From(data, start + Len(StartTag(ToolTag))))

ToolInside(p, data) ==
    LET end   == Index(data, EndTag(ToolTag))
        raw   == p.buffer \o Before(data, end)
        calls == ToolCallsOf(raw, p.next)
    IN  IF end = 0
        THEN Result([p EXCEPT !.partial = Carry(data, EndTag(ToolTag)),
                              !.buffer = @ \o Clean(data, EndTag(ToolTag))],
                    <<>>, <<>>, <<>>)
        ELSE Result([p EXCEPT !.inside = FALSE, !.buffer = <<>>,
                              !.next = @ + Len(calls)],
                    IF calls = <<>> /\ raw # <<>>
                    THEN StartTag(ToolTag) \o raw \o EndTag(ToolTag) ELSE <<>>,
                    calls, From(data, end + Len(EndTag(ToolTag))))

ToolStep(p, data) == IF p.inside THEN ToolInside(p, data) ELSE ToolText(p, data)

Then(before, step) ==
    Result(step.p, before.text \o step.text, before.calls \o step.calls, step.rest)

More(Step(_, _), before) ==
    IF before.rest = <<>> THEN before
                          ELSE Then(before, Step(before.p, before.rest))

\* The loop of Consume and Push: what was kept and the chunk, step by step.
\* Every step but the last shortens the text.
Consume(Step(_, _), p, chunk) ==
    LET data == p.partial \o chunk
        run[n \in 0 .. Len(data) + 1] ==
            IF n = 0 THEN Result([p EXCEPT !.partial = <<>>], <<>>, <<>>, data)
                     ELSE More(Step, run[n - 1])
    IN  IF chunk = <<>> THEN Result(p, <<>>, <<>>, <<>>) ELSE run[Len(data) + 1]

\* Flush of the two filters: an unfinished element is dropped.
FlushText(p) ==
    Result([p EXCEPT !.inside = FALSE, !.partial = <<>>, !.buffer = <<>>],
           IF p.inside THEN <<>> ELSE p.partial, <<>>, <<>>)

\* Flush of the tool parsers: an unfinished block may still be a call.
FlushTools(p) ==
    LET raw   == p.buffer \o p.partial
        calls == ToolCallsOf(raw, p.next)
        text  == CASE ~p.inside -> p.partial
                   [] p.inside /\ (calls # <<>> \/ raw = <<>>) -> <<>>
                   [] OTHER -> StartTag(ToolTag) \o raw
    IN  Result([NewParser EXCEPT !.next = p.next + Len(calls)], text,
               IF p.inside THEN calls ELSE <<>>, <<>>)

-----------------------------------------------------------------------------
(* ChatFlow.streamEvents *)

\* streamTokenFilter.filterText
FilterText(f, text) ==
    LET Both(card, drop) ==
            [f |-> [card |-> card.p, drop |-> drop.p], text |-> drop.text]
        Dropped(card) == Both(card, Consume(DropStep, f.drop, Settled(card.text)))
    IN  Dropped(Consume(CardStep, f.card, text))

\* streamTokenFilter.Flush
FilterFlush(f) ==
    LET card == FlushText(f.card)
        Ended(drop, tail) == [f |-> [card |-> card.p, drop |-> tail.p],
                              text |-> drop.text \o tail.text]
        Dropped(drop) == Ended(drop, FlushText(drop.p))
    IN  Dropped(Consume(DropStep, f.drop, card.text))

Event(content, reasoning, calls) ==
    [content |-> content, reasoning |-> reasoning, calls |-> calls]

\* A line of the upstream becomes an event.
Apply(f, t, channel, chunk) ==
    LET Applied(filtered, pushed) ==
            [filter |-> filtered.f, tools |-> pushed.p,
             event  |-> Event(pushed.text,
                              IF channel = "thinking" THEN filtered.text ELSE <<>>,
                              pushed.calls)]
        Pushed(filtered) ==
            Applied(filtered,
                    Consume(ToolStep, t,
                            IF channel = "content" THEN filtered.text ELSE <<>>))
    IN  Pushed(FilterText(f, chunk))

\* flushStreamParsers
FlushStreamParsers(f, t) ==
    LET Flushed(pending, pushed, tail) ==
            [filter |-> pending.f, tools |-> tail.p,
             events |-> <<Event(pushed.text, <<>>, pushed.calls),
                          Event(tail.text, <<>>, tail.calls)>>]
        Tailed(pending, pushed) == Flushed(pending, pushed, FlushTools(pushed.p))
        Pushed(pending) == Tailed(pending, Consume(ToolStep, t, pending.text))
    IN  Pushed(FilterFlush(f))

\* What the client would make of the flow's events.
Append2(fw, e) == Event(fw.content \o e.content, fw.reasoning \o e.reasoning,
                        fw.calls \o e.calls)

-----------------------------------------------------------------------------
(* The handler: chatStreamAdapter and chatResponseCollector. *)

ThinkOpen  == <<"<think>">>
ThinkClose == <<"</think>">>

NewWriter == [open |-> FALSE, tools |-> NewParser, text |-> <<>>, calls |-> <<>>]

\* Mutant of AddReasoning: thinking is shown whatever the client wants.
AddReasoningAlways(w, text) ==
    IF text = <<>> THEN w
    ELSE [w EXCEPT !.open = TRUE,
                   !.text = @ \o (IF w.open THEN <<>> ELSE ThinkOpen) \o text]

\* HandleReasoning, AddReasoning
AddReasoning(w, text) ==
    IF ~options.showThink \/ text = <<>> THEN w
    ELSE [w EXCEPT !.open = TRUE,
                   !.text = @ \o (IF w.open THEN <<>> ELSE ThinkOpen) \o text]

\* HandleText, AddText
AddText(w, text) ==
    IF text = <<>> THEN w
    ELSE [w EXCEPT !.open = FALSE,
                   !.text = @ \o (IF w.open THEN ThinkClose ELSE <<>>) \o text]

\* thinkStreamWriter.Close, thinkCollector.Finalize
CloseThink(w) ==
    [w EXCEPT !.open = FALSE,
              !.text = @ \o (IF w.open THEN ThinkClose ELSE <<>>)]

\* handleContent, addContent
AddContent(w, text) ==
    LET Pushed(pushed) ==
            [AddText(w, pushed.text) EXCEPT !.tools = pushed.p,
                                            !.calls = @ \o pushed.calls]
    IN  IF options.toolCalls THEN Pushed(Consume(ToolStep, w.tools, text))
                             ELSE AddText(w, text)

\* formatToolCallsAsText
CallsAsText(calls) ==
    FlattenSeq([i \in 1 .. Len(calls) |->
        StartTag(ToolTag) \o calls[i].payload \o EndTag(ToolTag)])

\* handleToolCalls, addToolCalls
AddToolCalls(w, calls) ==
    IF options.toolCalls THEN [w EXCEPT !.calls = @ \o calls]
                         ELSE AddText(w, CallsAsText(calls))

\* HandleEvent, AddEvent
AddEvent(w, e) ==
    AddToolCalls(AddContent(AddReasoning(w, e.reasoning), e.content), e.calls)

\* FinishChunks does not flush the tool parser ...
FinishChunks(w) == CloseThink(w)

\* Mutant of Build: no flush here either.
BuildUnflushed(w) == CloseThink(w)

\* ... Build does.
Build(w) ==
    LET tail == FlushTools(w.tools)
    IN  IF options.toolCalls
        THEN CloseThink([AddText(w, tail.text) EXCEPT !.tools = tail.p,
                                                      !.calls = @ \o tail.calls])
        ELSE CloseThink(w)

-----------------------------------------------------------------------------
(* The pipeline.  A request has one of the two writers; here both read the *)
(* events, so that they can be compared.                                   *)

Init ==
    /\ message \in Messages /\ said = message
    /\ phase = "streaming"
    /\ filter = [card |-> NewParser, drop |-> NewParser]
    /\ tools = NewParser
    /\ adapter = NewWriter /\ collector = NewWriter
    /\ options \in [toolCalls : BOOLEAN, showThink : BOOLEAN]
    /\ forwarded = Event(<<>>, <<>>, <<>>)
    /\ torn = FALSE /\ parted = FALSE /\ mixed = FALSE

\* The text ended inside the end tag of the card it opened.
Torn(p) ==
    /\ p.inside /\ p.partial = <<>>
    /\ Carry(p.buffer, EndTag(CardTag)) # <<>>

\* A card's line follows a text on the same line of it.
Parted(text) ==
    \E k \in 2 .. Len(text) : text[k] = Break /\ text[k - 1] # NewLine

Symbols(part) == [i \in 1 .. Len(part) |-> part[i].symbol]

Held(f) == f.card.buffer \o f.card.partial \o f.drop.partial

\* Whose text the filter may hold: that of the last symbol said.
LastChannel ==
    IF Len(message) = Len(said) THEN "none"
    ELSE said[Len(said) - Len(message)].channel

\* A line with the next n symbols, which are of one channel.
Deliver(n) ==
    /\ phase = "streaming" /\ n <= Len(message)
    /\ LET channel == message[1].channel
           chunk   == Symbols(SubSeq(message, 1, n))
       IN  \E applied \in {Apply(filter, tools, channel, chunk)} :
             /\ \A i \in 1 .. n : message[i].channel = channel
             /\ filter' = applied.filter /\ tools' = applied.tools
             /\ adapter' = AddEvent(adapter, applied.event)
             /\ collector' = AddEvent(collector, applied.event)
             /\ forwarded' = Append2(forwarded, applied.event)
             /\ torn' = (torn \/ Torn(filter'.card))
             /\ parted' = \/ parted
                          \/ Parted(Consume(CardStep, filter.card, chunk).text)
             /\ mixed' = \/ mixed
                         \/ channel # LastChannel /\ Held(filter) # <<>>
    /\ message' = SubSeq(message, n + 1, Len(message))
    /\ UNCHANGED <<phase, options, said>>

\* The upstream closes its channel: the flow flushes its parsers.
Flush ==
    /\ phase = "streaming" /\ message = <<>>
    /\ \E flushed \in {FlushStreamParsers(filter, tools)} :
           /\ filter' = flushed.filter /\ tools' = flushed.tools
           /\ adapter' = AddEvent(AddEvent(adapter, flushed.events[1]),
                                  flushed.events[2])
           /\ collector' = AddEvent(AddEvent(collector, flushed.events[1]),
                                    flushed.events[2])
           /\ forwarded' = Append2(Append2(forwarded, flushed.events[1]),
                                   flushed.events[2])
    /\ mixed' = \/ mixed
                \/ LastChannel = "thinking" /\ Held(filter) # <<>>
    /\ phase' = "flushed"
    /\ UNCHANGED <<message, options, said, torn, parted>>

\* The handler finds its channel closed.
Finish ==
    /\ phase = "flushed"
    /\ adapter' = FinishChunks(adapter)
    /\ collector' = Build(collector)
    /\ phase' = "done"
    /\ UNCHANGED <<message, filter, tools, options, said, forwarded, torn, parted,
                   mixed>>

Next == Flush \/ Finish \/ \E n \in 1 .. Len(message) : Deliver(n)

Spec == Init /\ [][Next]_vars

-----------------------------------------------------------------------------
(* Properties. *)

\* What the flow has made of an answer that comes symbol by symbol, after each.
Start == [filter |-> [card |-> NewParser, drop |-> NewParser],
          tools |-> NewParser, fw |-> Event(<<>>, <<>>, <<>>)]

After(s, applied) == [filter |-> applied.filter, tools |-> applied.tools,
                      fw |-> Append2(s.fw, applied.event)]

Symbol(s, item) ==
    After(s, Apply(s.filter, s.tools, item.channel, <<item.symbol>>))

BySymbols(answer) ==
    LET state[i \in 0 .. Len(answer)] ==
            IF i = 0 THEN Start ELSE Symbol(state[i - 1], answer[i])
    IN  state

Flushed(s) ==
    LET events == FlushStreamParsers(s.filter, s.tools).events
    IN  Append2(Append2(s.fw, events[1]), events[2])

Whole(answer) == Flushed(BySymbols(answer)[Len(answer)])

\* However the upstream cuts the answer into lines, the flow forwards the same
\* text, the same thinking and the same calls, except in two cases: a line that
\* opens a card and ends inside its end tag swallows the rest of the answer, and
\* a card that closes after other text in one line begins a new line, which it
\* does not where the upstream cuts between them (emitCardLine).
ChunksDoNotMatter ==
    phase # "streaming" => torn \/ parted \/ forwarded = Whole(said)

\* The two kinds of answer carry the same text and calls, except for what a
\* streaming answer leaves behind in its parser.
WritersAgree ==
    phase = "done" =>
        LET left == FlushTools(adapter.tools)
        IN  /\ collector.text = adapter.text \o
                  (IF options.toolCalls THEN left.text ELSE <<>>)
            /\ collector.calls = adapter.calls \o
                  (IF options.toolCalls THEN left.calls ELSE <<>>)

\* Thinking is set off from the answer, and it is not seen by a client that
\* does not want it, unless the filter held a card or what may be a tag where
\* the upstream went from the one to the other.
ThinkingStaysApart ==
    /\ \A i \in 1 .. Len(forwarded.content) :
           forwarded.content[i] \in Private => mixed
    /\ ~options.showThink => \A w \in {adapter, collector} :
           \A i \in 1 .. Len(w.text) : w.text[i] \in Private => mixed
    /\ phase = "done" => ~adapter.open /\ ~collector.open
=============================================================================
