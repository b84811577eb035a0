---------------------------- MODULE FinalizeTool ----------------------------
(***************************************************************************)
(* The MCP server a spawned agent finishes through (internal/finalize):    *)
(* the JSON-RPC loop on stdin, the already-committed check against the     *)
(* database, the hand-written validator that reports the first field that  *)
(* failed, and the position it gives for broken JSON.  The agent is the    *)
(* environment: it mends what a rejection names and calls again, while the *)
(* supervisor commits on its own when it sees an ok go by.                 *)
(***************************************************************************)
EXTENDS Integers, Sequences, FiniteSets

CONSTANTS
    ExcerptHalf,   \* bytes of excerpt on either side of the offset (20)
    MaxText,       \* length of the broken texts enumerated
    MaxToolFault   \* bound on other requests, read errors and extra calls

ASSUME ToolAssumption ==
    ExcerptHalf \in Nat \ {0} /\ MaxText \in Nat /\ MaxToolFault \in Nat

VARIABLES
    toolMode,     \* which tool this server exposes
    toolUp,       \* is the loop still scanning?
    draft,        \* the arguments the agent would send now
    draftFaults,  \* how many things were wrong with its first draft
    toolCall,     \* the call inside the handler
    attempts,     \* Handler.attempts
    finalized,    \* has the supervisor's atomic write committed?
    toolAnswer,   \* the last response written to stdout
    told,         \* rejections that named something to mend
    accepted,     \* has an ok been written?
    lateOk,       \* oks written after the commit
    toolFaults

toolVars == <<toolMode, toolUp, draft, draftFaults, toolCall, attempts,
              finalized, toolAnswer, told, accepted, lateOk, toolFaults>>

OutcomeMin == 10
OutcomeMax == 500
RationaleMin == 50
RationaleMax == 4000
ArtifactArrayMax == 50
ArtifactItemMax == 500
KGTripleArrayMin == 1
KGTripleArrayMax == 100
TripleFieldMin == 3
TripleFieldMax == 500

(***************************************************************************)
(* Arguments.  A string is its length in bytes, which is what the code     *)
(* counts, an array the lengths of its items; json says how far the text   *)
(* is from the Go types.  A loose one fits them but has a property the     *)
(* published schema does not allow, or lacks an array it requires: the     *)
(* decoder ignores the one and reads the other as empty.                   *)
(***************************************************************************)
TripleFields == <<"subject", "predicate", "object">>
GoodTriple == [subject |-> 3, predicate |-> 3, object |-> 500, valid_from |-> "now"]
Times(n, x) == [i \in 1..n |-> x]

SoundDraft(mode) ==
    [json |-> "ok", ticket_id |-> IF mode = "oneshot" THEN "absent" ELSE "uuid",
     outcome |-> 10, rationale |-> 50, artifacts |-> <<>>, blockers |-> <<>>,
     discoveries |-> <<>>, kg_triples |-> <<GoodTriple>>]

Items == {Times(50, 500), Times(51, 0), <<0, 501>>}
DraftValues ==
    [json |-> {"loose", "mistyped", "broken"},
     ticket_id |-> {"absent", "garbage", "uuid"},
     outcome |-> {9, 500, 501}, rationale |-> {49, 4000, 4001},
     artifacts |-> Items, blockers |-> Items, discoveries |-> Items,
     kg_triples |->
        {<<>>, Times(100, GoodTriple), Times(101, GoodTriple)} \union
        {<<GoodTriple, [GoodTriple EXCEPT ![f] = n]>> : f \in {"subject", "predicate", "object"}, n \in {2, 501}}
        \union {<<[GoodTriple EXCEPT !.valid_from = v]>> : v \in {"timestamp", "garbage"}}]
\* Every draft that differs from a sound one in at most two places.
FirstDrafts(mode) ==
    UNION {{[SoundDraft(mode) EXCEPT ![f] = v, ![g] = w] : v \in DraftValues[f], w \in DraftValues[g]} :
           f \in DOMAIN DraftValues, g \in DOMAIN DraftValues}

(***************************************************************************)
(* The validator.  NoError is nil; every other value is the part of a      *)
(* ValidationError the agent mends by: the path, the constraint and the    *)
(* bound that Expected quotes.                                             *)
(***************************************************************************)
NoError == [path |-> <<>>, constraint |-> "", expected |-> 0]
ValidationError(path, constraint, expected) ==
    [path |-> path, constraint |-> constraint, expected |-> expected]

\* The first of the checks, in the order the code runs them, that fails.
FirstOf(checks) ==
    LET failed == {i \in DOMAIN checks : checks[i] # NoError} IN
    IF failed = {} THEN NoError
    ELSE checks[CHOOSE i \in failed : \A j \in failed : i <= j]

Ranged(n, min, max, path) ==
    CASE n < min -> ValidationError(path, "min_length", min)
      [] n > max -> ValidationError(path, "max_length", max)
      [] OTHER -> NoError

validateTicketID(id) ==
    CASE id = "absent" -> ValidationError(<<"ticket_id">>, "required", 0)
      [] id = "garbage" -> ValidationError(<<"ticket_id">>, "format", 0)
      [] OTHER -> NoError
\* finalize_oneshot decodes ticket_id only to refuse it.
refuseTicketID(id) ==
    IF id = "absent" THEN NoError ELSE ValidationError(<<"ticket_id">>, "unknown_field", 0)

\* Mutant: the message quotes the other end of the range.
validateOutcomeSwapped(n) ==
    CASE n < OutcomeMin -> ValidationError(<<"outcome">>, "min_length", OutcomeMax + 1)
      [] n > OutcomeMax -> ValidationError(<<"outcome">>, "max_length", OutcomeMin - 1)
      [] OTHER -> NoError
validateOutcome(n) == Ranged(n, OutcomeMin, OutcomeMax, <<"outcome">>)

validateStringArray(arr, field) ==
    IF Len(arr) > ArtifactArrayMax
    THEN ValidationError(<<field>>, "max_items", ArtifactArrayMax)
    ELSE FirstOf([i \in DOMAIN arr |->
            IF arr[i] > ArtifactItemMax
            THEN ValidationError(<<field, i>>, "max_length", ArtifactItemMax) ELSE NoError])
validateDiaryEntry(d) ==
    FirstOf(<<Ranged(d.rationale, RationaleMin, RationaleMax, <<"rationale">>),
              validateStringArray(d.artifacts, "artifacts"),
              validateStringArray(d.blockers, "blockers"),
              validateStringArray(d.discoveries, "discoveries")>>)

validateKGTripleCount(n) ==
    CASE n < KGTripleArrayMin -> ValidationError(<<"kg_triples">>, "min_items", KGTripleArrayMin)
      [] n > KGTripleArrayMax -> ValidationError(<<"kg_triples">>, "max_items", KGTripleArrayMax)
      [] OTHER -> NoError
validateTripleField(t, i, f) == Ranged(t[f], TripleFieldMin, TripleFieldMax, <<"kg_triples", i, f>>)
parseValidFrom(s, i) ==
    IF s \in {"now", "timestamp"} THEN NoError
    ELSE ValidationError(<<"kg_triples", i, "valid_from">>, "format", 0)
validateKGTriples(ts) ==
    FirstOf([i \in DOMAIN ts |->
        FirstOf([k \in 1..3 |-> validateTripleField(ts[i], i, TripleFields[k])]
                \o <<parseValidFrom(ts[i].valid_from, i)>>)])

\* What json.Unmarshal takes.
Decodes(d) == d.json \in {"ok", "loose"}

\* Validate and ValidateOneshot, of arguments that decoded.
Validate(d) ==
    FirstOf(<<IF toolMode = "oneshot" THEN refuseTicketID(d.ticket_id) ELSE validateTicketID(d.ticket_id),
              validateOutcome(d.outcome), validateDiaryEntry(d),
              validateKGTripleCount(Len(d.kg_triples)), validateKGTriples(d.kg_triples)>>)

(***************************************************************************)
(* decodePosition.  offset counts the bytes read when the decoder gave up, *)
(* so it is one past the byte it choked on; the walk ends there.           *)
(***************************************************************************)
Least(a, b) == IF a < b THEN a ELSE b
Most(a, b) == IF a > b THEN a ELSE b
\* Mutant: the window is not clamped at the end of the payload.
decodePositionUnclamped(text, offset) ==
    LET newlines == {i \in 1..Least(offset, Len(text)) : text[i] = "newline"}
    IN  [line |-> Cardinality(newlines) + 1, column |-> offset + 1,
         from |-> Most(offset - ExcerptHalf, 0), to |-> offset + ExcerptHalf]
decodePosition(text, offset) ==
    LET walked[n \in 0..Len(text)] ==
            IF n = 0 THEN [line |-> 1, column |-> 1]
            ELSE IF text[n] = "newline" THEN [line |-> walked[n - 1].line + 1, column |-> 1]
            ELSE [walked[n - 1] EXCEPT !.column = @ + 1]
        here == walked[Least(offset, Len(text))]
    IN  IF text = <<>> \/ offset <= 0 THEN [line |-> 1, column |-> 1, from |-> 0, to |-> 0]
        ELSE IF offset > Len(text)
        THEN [line |-> here.line, column |-> here.column,
              from |-> Most(Len(text) - 2 * ExcerptHalf, 0), to |-> Len(text)]
        ELSE [line |-> here.line, column |-> here.column,
              from |-> Most(offset - ExcerptHalf, 0), to |-> Least(offset + ExcerptHalf, Len(text))]

Texts == UNION {[1..n -> {"newline", "byte"}] : n \in 0..MaxText}
NoText == [text |-> <<>>, offset |-> 0, at |-> [line |-> 1, column |-> 1, from |-> 0, to |-> 0]]

-----------------------------------------------------------------------------
(***************************************************************************)
(* The loop and the handler.                                               *)
(***************************************************************************)
Answer(kind, error, where) == [kind |-> kind, error |-> error, where |-> where]
Rejections == {"validation", "decode"}

\* What is wrong with d, counted without the validator's order: the paths
\* that break one of its rules, undecodable text counting as one more.  The
\* rules are the validator's; Published is the schema the agent is shown.
Arrays == {"artifacts", "blockers", "discoveries"}
Marks == {"subject", "predicate", "object", "valid_from"}
BadField(d, f) ==
    \/ f = "json" /\ ~Decodes(d)
    \/ f = "ticket_id" /\ d.ticket_id # (IF toolMode = "ticket" THEN "uuid" ELSE "absent")
    \/ f = "outcome" /\ d.outcome \notin 10..500
    \/ f = "rationale" /\ d.rationale \notin 50..4000
    \/ f \in Arrays /\ Len(d[f]) > 50
    \/ f = "kg_triples" /\ Len(d.kg_triples) \notin 1..100
BadMark(t, m) == IF m = "valid_from" THEN t[m] = "garbage" ELSE t[m] \notin 3..500
WrongFields(d) == {<<f>> : f \in {g \in DOMAIN d : BadField(d, g)}}
WrongItems(d) == UNION {{<<f, i>> : i \in {j \in DOMAIN d[f] : d[f][j] > 500}} : f \in Arrays}
WrongMarks(d) ==
    UNION {{<<"kg_triples", i, m>> : m \in {n \in Marks : BadMark(d.kg_triples[i], n)}} :
           i \in DOMAIN d.kg_triples}
Wrong(d) == WrongFields(d) \union WrongItems(d) \union WrongMarks(d)

ToolTypeOK ==
    /\ toolMode \in {"ticket", "oneshot"} /\ toolUp \in BOOLEAN
    /\ draft.json \in {"ok", "loose", "mistyped", "broken"} /\ Len(draft.kg_triples) \in 0..101
    /\ toolCall \in {"none", "read", "open"}
    /\ toolAnswer.kind \in Rejections \union {"none", "ok", "state", "dberror", "rpc"}
    /\ attempts \in Nat /\ told \in Nat /\ lateOk \in Nat
    /\ finalized \in BOOLEAN /\ accepted \in BOOLEAN /\ toolFaults \in 0..MaxToolFault

ToolInit ==
    /\ toolMode \in {"ticket", "oneshot"} /\ toolUp = TRUE
    /\ draft \in FirstDrafts(toolMode) /\ draftFaults = Cardinality(Wrong(draft))
    /\ toolCall = "none" /\ attempts = 0 /\ finalized = FALSE
    /\ toolAnswer = Answer("none", NoError, NoText)
    /\ told = 0 /\ accepted = FALSE /\ lateOk = 0 /\ toolFaults = 0

\* The agent has read the last answer and has something left to do.
AgentCalls == toolUp /\ toolCall = "none" /\ toolAnswer.kind # "state"

\* handleToolsCall with this server's tool: Handle counts the attempt before
\* it looks whether the work is committed.
ToolsCall ==
    /\ AgentCalls
    /\ accepted => toolFaults < MaxToolFault   \* a repeated call
    /\ toolFaults' = IF accepted THEN toolFaults + 1 ELSE toolFaults
    /\ toolCall' = "read" /\ attempts' = attempts + 1
    /\ UNCHANGED <<toolMode, toolUp, draft, draftFaults, finalized, toolAnswer, told, accepted, lateOk>>

\* Everything else a line on stdin can be: unparseable, initialize,
\* tools/list, another tool, an unknown method.  Answered without the handler.
OtherRequest ==
    /\ AgentCalls /\ toolFaults < MaxToolFault /\ toolAnswer.kind # "rpc"
    /\ toolAnswer' = Answer("rpc", NoError, NoText)
    /\ toolFaults' = toolFaults + 1
    /\ UNCHANGED <<toolMode, toolUp, draft, draftFaults, toolCall, attempts, finalized, told, accepted, lateOk>>

\* The stream closes, or a line is longer than the scanner's buffer.
LoopEnds ==
    /\ toolUp /\ toolCall = "none" /\ toolFaults < MaxToolFault
    /\ toolUp' = FALSE /\ toolFaults' = toolFaults + 1
    /\ UNCHANGED <<toolMode, draft, draftFaults, toolCall, attempts, finalized, toolAnswer, told, accepted, lateOk>>

\* Mutant: the state of the run is not looked at.
CheckNothing ==
    /\ toolCall = "read" /\ toolCall' = "open"
    /\ UNCHANGED <<toolMode, toolUp, draft, draftFaults, attempts, finalized, toolAnswer, told, accepted, lateOk, toolFaults>>
\* checkAlreadyCommitted / checkRunAlreadyCommitted.
CheckCommitted ==
    /\ toolCall = "read"
    /\ \/ finalized /\ toolCall' = "none" /\ toolAnswer' = Answer("state", NoError, NoText)
       \/ ~finalized /\ toolCall' = "open" /\ UNCHANGED toolAnswer
    /\ UNCHANGED <<toolMode, toolUp, draft, draftFaults, attempts, finalized, told, accepted, lateOk, toolFaults>>

CheckFails ==
    /\ toolCall = "read" /\ toolFaults < MaxToolFault
    /\ toolCall' = "none" /\ toolAnswer' = Answer("dberror", NoError, NoText)
    /\ toolFaults' = toolFaults + 1
    /\ UNCHANGED <<toolMode, toolUp, draft, draftFaults, attempts, finalized, told, accepted, lateOk>>

\* The agent's next draft: what the rejection named, set to what it asked for.
Mended(d, e) ==
    IF e.path = <<>> THEN d
    ELSE IF e.path = <<"ticket_id">>
    THEN [d EXCEPT !.ticket_id = IF e.constraint = "unknown_field" THEN "absent" ELSE "uuid"]
    ELSE IF e.constraint = "min_items" THEN [d EXCEPT !.kg_triples = Append(@, GoodTriple)]
    ELSE IF e.constraint = "max_items" THEN [d EXCEPT ![e.path[1]] = SubSeq(@, 1, e.expected)]
    ELSE IF e.constraint = "format" THEN [d EXCEPT !.kg_triples[e.path[2]].valid_from = "now"]
    ELSE IF Len(e.path) = 1 THEN [d EXCEPT ![e.path[1]] = e.expected]
    ELSE IF Len(e.path) = 2 THEN [d EXCEPT ![e.path[1]][e.path[2]] = e.expected]
    ELSE [d EXCEPT ![e.path[1]][e.path[2]][e.path[3]] = e.expected]

\* json.Unmarshal fails: newDecodeOrTypeError.
DecodeFails ==
    /\ toolCall = "open" /\ ~Decodes(draft)
    /\ \/ /\ draft.json = "broken"
          /\ \E text \in Texts, offset \in 0..MaxText + 1 :
                toolAnswer' = Answer("decode", NoError, [text |-> text, offset |-> offset, at |-> decodePosition(text, offset)])
       \/ /\ draft.json = "mistyped"
          /\ toolAnswer' = Answer("validation", NoError, NoText)
    /\ toolCall' = "none" /\ told' = told + 1
    /\ draft' = [draft EXCEPT !.json = "ok"]
    /\ UNCHANGED <<toolMode, toolUp, draftFaults, attempts, finalized, accepted, lateOk, toolFaults>>

ValidateFails ==
    /\ toolCall = "open" /\ Decodes(draft) /\ Validate(draft) # NoError
    /\ toolCall' = "none" /\ told' = told + 1
    /\ toolAnswer' = Answer("validation", Validate(draft), NoText)
    /\ draft' = Mended(draft, Validate(draft))
    /\ UNCHANGED <<toolMode, toolUp, draftFaults, attempts, finalized, accepted, lateOk, toolFaults>>

Accept ==
    /\ toolCall = "open" /\ Decodes(draft) /\ Validate(draft) = NoError
    /\ toolCall' = "none" /\ toolAnswer' = Answer("ok", NoError, NoText)
    /\ accepted' = TRUE /\ lateOk' = IF finalized THEN lateOk + 1 ELSE lateOk
    /\ UNCHANGED <<toolMode, toolUp, draft, draftFaults, attempts, finalized, told, toolFaults>>

\* The observer of FinalizePipeline has seen an ok and its write committed.
SupervisorCommits ==
    /\ accepted /\ ~finalized /\ finalized' = TRUE
    /\ UNCHANGED <<toolMode, toolUp, draft, draftFaults, toolCall, attempts, toolAnswer, told, accepted, lateOk, toolFaults>>

ToolStep == CheckCommitted \/ DecodeFails \/ ValidateFails \/ Accept
ToolNext == ToolsCall \/ OtherRequest \/ LoopEnds \/ ToolStep \/ CheckFails \/ SupervisorCommits

(***************************************************************************)
(* Properties                                                              *)
(***************************************************************************)
\* The validator's messages agree with its own checks: every rejection names
\* a field that breaks a rule and asks for a value the validator then takes,
\* so an agent that mends only what it is told is rejected exactly once per
\* fault of its first draft, never sent round in circles, and an ok is given
\* only to a draft that breaks no rule (tool.go, Validate and
\* ValidateOneshot, against Wrong, their rules as a set without the order and
\* the early returns).
MendingConverges ==
    /\ told + Cardinality(Wrong(draft)) = draftFaults
    /\ toolAnswer.kind = "ok" => Wrong(draft) = {}

\* For text the decoder refused, the line is the number of newlines read plus
\* one, the column counts from the last of them, and the excerpt is a window
\* of at most 2 * ExcerptHalf bytes of the payload that reaches the offset
\* (position.go, decodePosition, against a definition without the walk).
PositionIsRight ==
    LET w == toolAnswer.where
        seen == 1..Least(w.offset, Len(w.text))
        breaks == {i \in seen : w.text[i] = "newline"}
    IN  w.text # <<>> /\ w.offset > 0 =>
        /\ w.at.line = Cardinality(breaks) + 1
        /\ w.at.column = Cardinality({i \in seen : \A b \in breaks : b < i}) + 1
        /\ 0 <= w.at.from /\ w.at.to <= Len(w.text)
        /\ w.at.from < w.at.to /\ w.at.to - w.at.from <= 2 * ExcerptHalf
        /\ Least(w.offset, Len(w.text)) \in w.at.from..w.at.to

\* The already-committed check races the supervisor's write, but the loop is
\* sequential: at most the one call that was past the check is still told ok
\* after the commit (handler.go, Handle).
LateOkBound == lateOk <= 1

\* Mutant: the number of triples is not in the published schema.
PublishedAnyCount(d) ==
    /\ d.json = "ok"
    /\ (d.ticket_id = "absent") = (toolMode = "oneshot")
    /\ d.outcome \in OutcomeMin..OutcomeMax
    /\ d.rationale \in RationaleMin..RationaleMax
    /\ \A f \in Arrays :
          Len(d[f]) <= ArtifactArrayMax /\ \A i \in DOMAIN d[f] : d[f][i] <= ArtifactItemMax
    /\ \A i \in DOMAIN d.kg_triples : \A f \in {"subject", "predicate", "object"} :
          d.kg_triples[i][f] >= TripleFieldMin

\* What tools/list shows of the arguments (ToolDescriptor and
\* OneshotToolDescriptor): a triple's fields have a minimum only, ticket_id
\* and valid_from are any string, every property is required and no other
\* allowed.
Published(d) ==
    /\ d.json = "ok"
    /\ (d.ticket_id = "absent") = (toolMode = "oneshot")
    /\ d.outcome \in OutcomeMin..OutcomeMax
    /\ d.rationale \in RationaleMin..RationaleMax
    /\ \A f \in Arrays :
          Len(d[f]) <= ArtifactArrayMax /\ \A i \in DOMAIN d[f] : d[f][i] <= ArtifactItemMax
    /\ Len(d.kg_triples) \in KGTripleArrayMin..KGTripleArrayMax
    /\ \A i \in DOMAIN d.kg_triples : \A f \in {"subject", "predicate", "object"} :
          d.kg_triples[i][f] >= TripleFieldMin

\* The schema the agent is shown and the rules it is held to are written
\* separately; where they differ: an accepted draft that the schema forbids
\* lacks an array or has a property too many, and what is wrong with a draft
\* the schema allows is the format of its ticket id, or in a triple a format
\* or the maximum that tool.go's kgTriplesSchema leaves out.
SchemaGap ==
    /\ toolAnswer.kind = "ok" => Published(draft) \/ draft.json = "loose"
    /\ Published(draft) => Wrong(draft) \subseteq {<<"ticket_id">>} \union WrongMarks(draft)

\* The tool's answers are right: its rejections lead an agent to a draft it
\* accepts, a position is where the decoder stopped, one past the byte it
\* refused, a late ok is at most one, and the schema it shows differs from its
\* rules in the known places only.
AnswersAreRight == MendingConverges /\ PositionIsRight /\ LateOkBound /\ SchemaGap
=============================================================================
