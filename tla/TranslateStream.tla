---------------------------- MODULE TranslateStream ----------------------------
(* The stream translators (proxy/translate/*.ts): an upstream streams its answer in  *)
(* one format, and each event becomes the frames of another, which the agent reads    *)
(* as they come. All six pairs that transformsFor wires are here.                     *)
(*                                                                                    *)
(* An answer is made of pieces: of text, of thinking, of the arguments of a call.     *)
(* What an event makes a translator send is applied to the reader frame by frame;     *)
(* the reader is the protocol of the target: what comes in an order the protocol does  *)
(* not have, or for a block that is not open, breaks it.                              *)
EXTENDS Integers

CONSTANTS
    MaxBlocks     \* bound: content blocks of one answer

ASSUME StreamAssumption == MaxBlocks \in Nat

Blocks == 0 .. MaxBlocks - 1
NoIndex == -1
Kinds == {"text", "think", "tool"}
Pairs == {<<"openai", "anthropic">>, <<"openai", "responses">>, <<"anthropic", "openai">>,
          <<"anthropic", "responses">>, <<"gemini", "anthropic">>, <<"gemini", "openai">>}

VARIABLES
    pair,         \* the format of the upstream and that of the agent
    numbered,     \* whether an OpenAI upstream numbers its calls
    vendor,       \* what the upstream has sent
    stream,       \* the translator, and the reader at the other end
    odd           \* history: what the upstream did that its format does not foresee

streamVars == <<pair, numbered, vendor, stream, odd>>

Source == pair[1]
Target == pair[2]

(* Translator: begun (started, createdSent), ended (finished), kind and at: the block  *)
(* it holds open, next: the next index, blockOf: the block of a call or source block.  *)
(* Reader: client and blocks. owed: the calls and blocks of which a piece was received  *)
(* that has not been sent on.                                                         *)
NoBlock == [is |-> "none", kind |-> "none", of |-> NoIndex]
StreamStart ==
    [begun |-> FALSE, ended |-> FALSE, kind |-> "none", at |-> NoIndex, next |-> 0,
     blockOf |-> [b \in Blocks |-> NoIndex],
     client |-> "before", blocks |-> [b \in Blocks |-> NoBlock], owed |-> {}]

Streams ==
    [begun : BOOLEAN, ended : BOOLEAN, kind : Kinds \cup {"none"}, at : Blocks \cup {NoIndex}, next : 0 .. MaxBlocks,
     blockOf : [Blocks -> Blocks \cup {NoIndex}],
     client : {"before", "in", "finishing", "over", "broken"},
     blocks : [Blocks -> [is : {"none", "open", "closed"}, kind : Kinds \cup {"none"}, of : Blocks \cup {NoIndex}]],
     owed : SUBSET (Blocks \cup {NoIndex})]

Upstreams ==
    [phase : {"on", "finished", "over", "ended"}, complete : BOOLEAN, started : BOOLEAN, current : Blocks \cup {NoIndex},
     block : [Blocks -> [is : {"none", "open", "closed"}, kind : Kinds \cup {"none"}]]]

StreamTypeOK ==
    /\ pair \in Pairs
    /\ numbered \in BOOLEAN
    /\ vendor \in Upstreams
    /\ stream \in Streams
    /\ odd \subseteq {"back", "late", "unnumbered", "bare"}

StreamInit ==
    /\ pair \in Pairs
    /\ numbered \in BOOLEAN
    /\ vendor = [phase |-> "on", complete |-> FALSE, started |-> FALSE, current |-> NoIndex,
                   block |-> [b \in Blocks |-> [is |-> "none", kind |-> "none"]]]
    /\ stream = [StreamStart EXCEPT !.client = IF Target = "openai" THEN "in" ELSE "before"]
    /\ odd = {}

-----------------------------------------------------------------------------
(* The frames, at the reader. An OpenAI reader needs no envelope and no block for     *)
(* text or thinking, and is not told that a call is over.                             *)

Reads(x, ok, y) == IF x.client # "broken" /\ ok THEN y ELSE [x EXCEPT !.client = "broken"]

SendBegin(x) == Reads(x, x.client = "before", [x EXCEPT !.client = "in"])
SendOpen(x, b, k, c) ==
    Reads(x, x.client = "in" /\ x.blocks[b] = NoBlock, [x EXCEPT !.blocks[b] = [is |-> "open", kind |-> k, of |-> c]])
SendPiece(x, b, k, c) ==
    Reads(x, x.client = "in" /\ b # NoIndex /\ x.blocks[b] = [is |-> "open", kind |-> k, of |-> c],
          [x EXCEPT !.owed = @ \ {c}])
SendLoose(x, c) == Reads(x, x.client = "in", [x EXCEPT !.owed = @ \ {c}])
SendClose(x, b) ==
    Reads(x, x.client = "in" /\ x.blocks[b].is = "open", [x EXCEPT !.blocks[b].is = "closed"])
(* A block that is sent whole when it closes.                                          *)
SendWhole(x, b, c) ==
    Reads(x, x.client = "in" /\ x.blocks[b].is = "open", [x EXCEPT !.blocks[b].is = "closed", !.owed = @ \ {c}])
SendFinish(x) ==
    Reads(x, /\ x.client \in {"in", "finishing"}
             /\ Target # "openai" => \A b \in Blocks : x.blocks[b].is # "open",
          [x EXCEPT !.client = "finishing"])
SendEnd(x) == Reads(x, x.client = "finishing", [x EXCEPT !.client = "over"])

-----------------------------------------------------------------------------
(* From OpenAI chunks (createOpenaiToAnthropicStream), and what the others share.      *)

Start(x) == IF x.begun THEN x ELSE [SendBegin(x) EXCEPT !.begun = TRUE]

CloseOpenBlock(x) == IF x.kind = "none" THEN x ELSE [SendClose(x, x.at) EXCEPT !.kind = "none", !.at = NoIndex]

(* Mutant: the block that is open stays so.                                           *)
OpenOnTop(x, k, c) == [SendOpen(x, x.next, k, c) EXCEPT !.kind = k, !.at = x.next, !.next = @ + 1]
OpenBlock(x, k, c) == [SendOpen(CloseOpenBlock(x), x.next, k, c) EXCEPT !.kind = k, !.at = x.next, !.next = @ + 1]

Continues(x, k) == IF x.kind = k THEN x ELSE OpenBlock(x, k, NoIndex)
Run(x, k) == SendPiece(Continues(x, k), Continues(x, k).at, k, NoIndex)

(* A call is known by its index; one that has none is taken to be the first.           *)
Index(c) == IF numbered THEN c ELSE 0

Begins(x, c) == IF x.blockOf[Index(c)] # NoIndex THEN x
                ELSE [OpenBlock(x, "tool", c) EXCEPT !.blockOf[Index(c)] = x.next]
Call(x, c, piece) ==
    IF piece THEN SendPiece(Begins(x, c), Begins(x, c).blockOf[Index(c)], "tool", c) ELSE Begins(x, c)

(* Mutant: [DONE] finishes what a finish_reason has finished already.                  *)
FinishTwice(x) == [SendEnd(SendFinish(CloseOpenBlock(x))) EXCEPT !.ended = TRUE]
FinishStream(x) == IF x.ended THEN x ELSE [SendEnd(SendFinish(CloseOpenBlock(x))) EXCEPT !.ended = TRUE]

NoPart == [kind |-> "none", call |-> NoIndex, piece |-> FALSE]
Runs == {[kind |-> k, call |-> NoIndex, piece |-> TRUE] : k \in {"text", "think"}}
OpenAiParts == {NoPart} \cup Runs \cup [kind : {"tool"}, call : Blocks, piece : BOOLEAN]

Part(x, p) ==
    CASE p.kind = "none" -> x
      [] p.kind = "tool" -> Call(x, p.call, p.piece)
      [] OTHER -> Run(x, p.kind)

OpenAiToAnthropic(x, p, finish) == IF finish THEN FinishStream(Part(Start(x), p)) ELSE Part(Start(x), p)
OpenAiDone(x) == FinishStream(Start(x))

(* createOpenaiToResponsesStream: output items instead of blocks, opened, filled and   *)
(* closed on the same conditions.                                                     *)
OpenAiToResponses(x, p, finish) == OpenAiToAnthropic(x, p, finish)

-----------------------------------------------------------------------------
(* From Gemini chunks. The stream has no end of its own: flush sends one.              *)

WholeCall(x) == CloseOpenBlock(SendPiece(OpenBlock(x, "tool", NoIndex), x.next, "tool", NoIndex))

GeminiPart(x, p) ==
    CASE p.kind = "none" -> x
      [] p.kind = "tool" -> WholeCall(x)
      [] OTHER -> Run(x, p.kind)

GeminiToAnthropic(x, p, finish) ==
    IF x.ended THEN x
    ELSE IF finish THEN FinishStream(GeminiPart(Start(x), p)) ELSE GeminiPart(Start(x), p)

LooseCall(x) == [SendPiece(SendOpen(x, x.next, "tool", NoIndex), x.next, "tool", NoIndex) EXCEPT !.next = @ + 1]

LoosePart(x, p) ==
    CASE p.kind = "none" -> x
      [] p.kind = "tool" -> LooseCall(x)
      [] OTHER -> SendLoose(x, NoIndex)

GeminiToOpenAi(x, p, finish) ==
    IF x.ended THEN x
    ELSE IF finish THEN FinishStream(LoosePart(x, p)) ELSE LoosePart(x, p)

(* Mutant: a stream that stops is left as it is.                                       *)
FlushNothing(x) == x
Flush(x) == FinishStream(IF Target = "openai" THEN x ELSE Start(x))

-----------------------------------------------------------------------------
(* From Anthropic events.                                                             *)

OpenAnthropicBlock(x, i, k) ==
    LET y == IF Target = "responses" THEN Start(x) ELSE x IN
    IF Target = "openai" /\ k # "tool" THEN x
    ELSE [SendOpen(y, x.next, k, i) EXCEPT !.blockOf[i] = x.next, !.next = @ + 1]

(* createAnthropicToOpenaiStream                                                       *)
AnthropicPieceToOpenAi(x, i, k) ==
    IF k = "tool" THEN SendPiece(x, IF x.blockOf[i] = NoIndex THEN 0 ELSE x.blockOf[i], k, i) ELSE SendLoose(x, i)

(* createAnthropicToResponsesStream: thinking is kept until its block stops.          *)
AnthropicPieceToResponses(x, i, k) ==
    IF x.blockOf[i] = NoIndex \/ k = "think" THEN x ELSE SendPiece(x, x.blockOf[i], k, i)

(* Mutant: what was kept is not sent.                                                  *)
StopDropping(x, i, k) == IF x.blockOf[i] = NoIndex THEN x ELSE SendClose(x, x.blockOf[i])
StopToResponses(x, i, k) ==
    IF x.blockOf[i] = NoIndex THEN x
    ELSE IF k = "think" THEN SendWhole(x, x.blockOf[i], i) ELSE SendClose(x, x.blockOf[i])

CompleteResponse(x) == IF x.ended THEN x ELSE [SendEnd(SendFinish(x)) EXCEPT !.ended = TRUE]

-----------------------------------------------------------------------------
(* What the upstream sends.                                                           *)

Speaking == vendor.phase \in {"on", "finished"}
Begun == {b \in Blocks : vendor.block[b].is # "none"}
IsNext(b) == b \notin Begun /\ \A c \in Blocks : c < b => c \in Begun
Received(x, c) == [x EXCEPT !.owed = @ \cup {c}]

StreamOddities(p) ==
    (IF vendor.phase = "finished" /\ p # NoPart THEN {"late"} ELSE {})
    \cup (IF p.kind = "tool" /\ p.call \in Begun /\ vendor.current # p.call THEN {"back"} ELSE {})
    \cup (IF p.kind = "tool" /\ ~numbered /\ p.call # 0 THEN {"unnumbered"} ELSE {})

(* A chunk with one part; one with more is as good as that many chunks. An upstream     *)
(* may return to an earlier call, and go on after its finish_reason.                    *)
OpenAiChunk(p, finish) ==
    LET x == IF p.piece THEN Received(stream, p.call) ELSE stream IN
    /\ Source = "openai" /\ Speaking
    /\ p.kind # "none" => stream.next < MaxBlocks
    /\ p.kind = "tool" => p.call \in Begun \/ IsNext(p.call)
    /\ stream' = IF Target = "anthropic" THEN OpenAiToAnthropic(x, p, finish) ELSE OpenAiToResponses(x, p, finish)
    /\ vendor' = [vendor EXCEPT !.phase = IF finish THEN "finished" ELSE @,
                                    !.current = IF p.kind = "none" THEN @ ELSE p.call,
                                    !.block = [b \in Blocks |-> IF b = p.call THEN [is |-> "open", kind |-> "tool"] ELSE @[b]]]
    /\ odd' = odd \cup StreamOddities(p)
    /\ UNCHANGED <<pair, numbered>>

OpenAiSaysDone ==
    /\ Source = "openai" /\ Speaking
    /\ stream' = OpenAiDone(stream)
    /\ vendor' = [vendor EXCEPT !.phase = "over"]
    /\ UNCHANGED <<pair, numbered, odd>>

GeminiParts == {NoPart, [kind |-> "text", call |-> NoIndex, piece |-> TRUE], [kind |-> "tool", call |-> NoIndex, piece |-> TRUE]}

GeminiChunk(p, finish) ==
    LET x == IF p.piece THEN Received(stream, NoIndex) ELSE stream IN
    /\ Source = "gemini" /\ Speaking
    /\ p.kind # "none" => stream.next < MaxBlocks
    /\ stream' = IF Target = "anthropic" THEN GeminiToAnthropic(x, p, finish) ELSE GeminiToOpenAi(x, p, finish)
    /\ vendor' = [vendor EXCEPT !.phase = IF finish THEN "finished" ELSE @]
    /\ odd' = odd \cup StreamOddities(p)
    /\ UNCHANGED <<pair, numbered>>

(* Blocks are begun in order; a server may leave out message_start, and have more than  *)
(* one block open.                                                                    *)
MessageStart ==
    /\ Source = "anthropic" /\ vendor.phase = "on" /\ Begun = {}
    /\ stream' = IF Target = "responses" THEN Start(stream) ELSE stream
    /\ vendor' = [vendor EXCEPT !.started = TRUE]
    /\ UNCHANGED <<pair, numbered, odd>>

BlockStart(i, k) ==
    /\ Source = "anthropic" /\ vendor.phase = "on"
    /\ IsNext(i)
    /\ stream' = OpenAnthropicBlock(stream, i, k)
    /\ vendor' = [vendor EXCEPT !.block[i] = [is |-> "open", kind |-> k]]
    /\ UNCHANGED <<pair, numbered, odd>>

BlockDelta(i) ==
    LET x == Received(stream, i) IN
    /\ Source = "anthropic" /\ vendor.phase = "on"
    /\ vendor.block[i].is = "open"
    /\ stream' = IF Target = "openai" THEN AnthropicPieceToOpenAi(x, i, vendor.block[i].kind)
            ELSE AnthropicPieceToResponses(x, i, vendor.block[i].kind)
    /\ UNCHANGED <<pair, numbered, vendor, odd>>

BlockStop(i) ==
    /\ Source = "anthropic" /\ vendor.phase = "on"
    /\ vendor.block[i].is = "open"
    /\ stream' = IF Target = "openai" THEN stream ELSE StopToResponses(stream, i, vendor.block[i].kind)
    /\ vendor' = [vendor EXCEPT !.block[i].is = "closed"]
    /\ UNCHANGED <<pair, numbered, odd>>

(* message_delta, once or more often, when every block is closed. An answer that had   *)
(* neither message_start nor a block is bare.                                         *)
MessageDelta ==
    /\ Source = "anthropic" /\ Speaking
    /\ \A i \in Blocks : vendor.block[i].is # "open"
    /\ stream' = IF Target = "openai" THEN SendFinish(stream) ELSE stream
    /\ vendor' = [vendor EXCEPT !.phase = "finished"]
    /\ odd' = odd \cup (IF vendor.started \/ Begun # {} THEN {} ELSE {"bare"})
    /\ UNCHANGED <<pair, numbered>>

MessageStop ==
    /\ Source = "anthropic" /\ vendor.phase = "finished"
    /\ stream' = IF Target = "openai" THEN SendEnd(stream) ELSE CompleteResponse(stream)
    /\ vendor' = [vendor EXCEPT !.phase = "over"]
    /\ UNCHANGED <<pair, numbered, odd>>

(* pipeStream: the upstream ends, or breaks; then the answer to the agent ends as it    *)
(* stands.                                                                            *)
Complete == CASE Source = "gemini" -> TRUE
              [] Source = "openai" -> vendor.phase \in {"finished", "over"}
              [] OTHER -> vendor.phase = "over"

UpstreamEnds ==
    /\ vendor.phase # "ended"
    /\ stream' = IF Source = "gemini" THEN Flush(stream) ELSE stream
    /\ vendor' = [vendor EXCEPT !.phase = "ended", !.complete = Complete]
    /\ UNCHANGED <<pair, numbered, odd>>

UpstreamBreaks ==
    /\ vendor.phase # "ended"
    /\ vendor' = [vendor EXCEPT !.phase = "ended"]
    /\ UNCHANGED <<pair, numbered, stream, odd>>

-----------------------------------------------------------------------------

StreamNext ==
    \/ \E finish \in BOOLEAN : \/ \E p \in OpenAiParts : OpenAiChunk(p, finish)
                               \/ \E p \in GeminiParts : GeminiChunk(p, finish)
    \/ OpenAiSaysDone
    \/ MessageStart
    \/ \E i \in Blocks, k \in Kinds : BlockStart(i, k)
    \/ \E i \in Blocks : BlockDelta(i) \/ BlockStop(i)
    \/ MessageDelta
    \/ MessageStop
    \/ UpstreamEnds
    \/ UpstreamBreaks

StreamSpec == StreamInit /\ [][StreamNext]_streamVars

-----------------------------------------------------------------------------
(* The agent can follow: every frame it gets is one its protocol has at that point,     *)
(* for a block that is open and belongs to that call. A Gemini upstream may send its    *)
(* chunks as it likes; an Anthropic one keeps the order of its format, and sends a       *)
(* Responses agent a message_start or a block before it closes the message; an OpenAI    *)
(* one takes its calls one after the other, numbers them and stops after its             *)
(* finish_reason.                                                                     *)
ReaderFollows ==
    stream.client = "broken" =>
        \/ Source = "openai" /\ odd # {}
        \/ pair = <<"anthropic", "responses">> /\ "bare" \in odd

(* Every piece has been sent on when its event is dealt with; only thinking for a        *)
(* Responses agent waits, for its block to stop.                                       *)
Waiting == {i \in Blocks : pair = <<"anthropic", "responses">> /\ vendor.block[i] = [is |-> "open", kind |-> "think"]}
NothingLost == odd = {} => stream.owed \subseteq Waiting

(* The agent is told that the answer is complete when the upstream said so, and not      *)
(* before.                                                                            *)
EndsTogether ==
    stream.client # "broken" =>
        /\ vendor.phase = "ended" /\ vendor.complete => stream.client = "over"
        /\ stream.client = "over" => vendor.phase # "on"

(* Translation keeps a stream a stream: in order, whole, and ended when it ended.        *)
StreamsSound == ReaderFollows /\ NothingLost /\ EndsTogether
=============================================================================
