--------------------------- MODULE AnthropicTurns ---------------------------
(***************************************************************************)
(* A conversation over Anthropic's Messages API with an engine that speaks *)
(* OpenAI's chat (api/anthropic.go).  The client holds the whole history   *)
(* and sends it each time: AnthropicToChat turns it into chat messages,    *)
(* the engine answers, anthropicMessageFrom turns the answer into content  *)
(* blocks, and the client sends them back with its next turn, the results  *)
(* of the tools it was asked to run among them.                            *)
(*                                                                         *)
(* A text is a sequence of the pieces it was joined from; an identifier    *)
(* the engine left out is a fresh number.  Streaming is StreamPath's, the  *)
(* refusals' shape RequestErrors'.                                         *)
(***************************************************************************)
EXTENDS Integers, Sequences, SequencesExt, FiniteSets

CONSTANTS
  Systems,      \* system prompts: "" or a kind, see systemText
  Answers,      \* [text, calls: sequence of [id, args]]
  UserTurns,    \* what a client may say: sequences of blocks
  MaxTurns

VARIABLES
  system,
  turns,     \* the client's history: [role, content]
  sent,      \* the chat messages of the last request; <<>> when it was refused
  stage,     \* "client", "engine" or "refused"
  fresh,
  given      \* history: what the engine answered, in order

vars == <<system, turns, sent, stage, fresh, given>>

Refused == <<[role |-> "refused"]>>
IsRefused(ms) == ms = Refused

Init ==
  /\ system \in Systems /\ turns = <<>> /\ sent = <<>> /\ stage = "client" /\ fresh = 0 /\ given = <<>>

-----------------------------------------------------------------------------
(* The request.                                                            *)

\* A string, or text blocks joined; another block is refused.
systemText(s) ==
  CASE s = ""       -> <<>>
    [] s = "string" -> <<[role |-> "system", content |-> <<"s">>, calls |-> <<>>, id |-> 0]>>
    [] s = "blocks" -> <<[role |-> "system", content |-> <<"s", "s">>, calls |-> <<>>, id |-> 0]>>
    [] s = "image"  -> Refused

\* Only base64 images, with their type and their data.
imageDataURL(b) == b.source = "base64"

\* Nothing, a string, or text blocks joined; another block is refused.
toolResultText(b) == [ok |-> "image" \notin ToSet(b.body), text |-> b.body]

Allowed(role, b) ==
  CASE b.type = "text"        -> TRUE
    [] b.type = "image"       -> role = "user" /\ imageDataURL(b)
    [] b.type = "tool_use"    -> role = "assistant"
    [] b.type = "tool_result" -> role = "user" /\ toolResultText(b).ok
    [] OTHER                  -> FALSE

Of(blocks, type) == SelectSeq(blocks, LAMBDA b : b.type = type)
Mapped(s, Op(_)) == [k \in DOMAIN s |-> Op(s[k])]
joinText(blocks) == FlattenSeq(Mapped(Of(blocks, "text"), LAMBDA b : b.text))

\* The arguments of a call come back as the object they were sent as.
CallOf(b) == [id |-> b.id, args |-> IF b.input = "" THEN "{}" ELSE b.input]

Results(blocks) ==
  Mapped(Of(blocks, "tool_result"),
         LAMBDA b : [role |-> "tool", content |-> toolResultText(b).text, calls |-> <<>>, id |-> b.id])

Parts(blocks) == SelectSeq(blocks, LAMBDA b : b.type \in {"text", "image"})
UserMessage(blocks) ==
  IF Parts(blocks) = <<>> THEN <<>>
  ELSE <<[role |-> "user", calls |-> <<>>, id |-> 0,
          content |-> IF Of(blocks, "image") # <<>> THEN Mapped(Parts(blocks), LAMBDA b : b.type) ELSE joinText(blocks)]>>

\* Mutant: a user's turn is taken block by block, its text first.
TextFirst(m) ==
  IF \E k \in DOMAIN m.content : ~Allowed(m.role, m.content[k]) THEN Refused
  ELSE IF m.role = "assistant"
       THEN <<[role |-> "assistant", content |-> joinText(m.content), id |-> 0,
               calls |-> Mapped(Of(m.content, "tool_use"), CallOf)]>>
       ELSE UserMessage(m.content) \o Results(m.content)

\* One turn: an assistant's is one message with its calls; a user's is a tool
\* message per result, and then what it says.
chatTurns(m) ==
  IF \E k \in DOMAIN m.content : ~Allowed(m.role, m.content[k]) THEN Refused
  ELSE IF m.role = "assistant"
       THEN <<[role |-> "assistant", content |-> joinText(m.content), id |-> 0,
               calls |-> Mapped(Of(m.content, "tool_use"), CallOf)]>>
       ELSE Results(m.content) \o UserMessage(m.content)

AnthropicToChat(ts) ==
  LET all == <<systemText(system)>> \o Mapped(ts, chatTurns)
  IN  IF \E k \in DOMAIN all : IsRefused(all[k]) THEN <<>> ELSE FlattenSeq(all)

-----------------------------------------------------------------------------
(* The answer.                                                             *)

\* Nothing is an empty object, an object itself; what is neither is wrapped.
toolInput(args) == IF args = "" THEN "{}" ELSE IF args = "{x}" THEN "{x}" ELSE "{arguments}"

\* Text, if any, and a block per call; a call without an identifier gets one.
anthropicMessageFrom(a) ==
  (IF a.text = <<>> THEN <<>> ELSE <<[type |-> "text", text |-> a.text]>>)
  \o [k \in DOMAIN a.calls |->
        [type |-> "tool_use", input |-> toolInput(a.calls[k].args),
         id |-> IF a.calls[k].id = 0 THEN 100 + fresh + k ELSE a.calls[k].id]]

-----------------------------------------------------------------------------
(* The client and the engine.                                              *)

\* The results a turn gives are those of calls of the last answer: result n is
\* that of its n-th call.
Asked == IF turns = <<>> THEN <<>> ELSE Of(Last(turns).content, "tool_use")
Said(u) ==
  [k \in DOMAIN u |-> IF u[k].type = "tool_result" THEN [u[k] EXCEPT !.id = Asked[u[k].id].id] ELSE u[k]]

Messages(u) ==
  /\ stage = "client" /\ Len(turns) < MaxTurns
  /\ \A k \in DOMAIN u : u[k].type = "tool_result" => u[k].id \in DOMAIN Asked
  /\ \A j, k \in DOMAIN u : u[j].type = "tool_result" /\ u[k].type = "tool_result" /\ u[j].id = u[k].id => j = k
  /\ turns' = Append(turns, [role |-> "user", content |-> Said(u)])
  /\ sent' = AnthropicToChat(turns')
  /\ stage' = IF sent' = <<>> THEN "refused" ELSE "engine"
  /\ UNCHANGED <<system, fresh, given>>

EngineAnswers(a) ==
  /\ stage = "engine"
  /\ turns' = Append(turns, [role |-> "assistant", content |-> anthropicMessageFrom(a)])
  /\ given' = Append(given, a) /\ fresh' = fresh + Len(a.calls) /\ stage' = "client"
  /\ UNCHANGED <<system, sent>>

\* A request that was refused leaves the conversation where it was.
TakesBack ==
  /\ stage = "refused"
  /\ turns' = Front(turns) /\ stage' = "client"
  /\ UNCHANGED <<system, sent, fresh, given>>

Next ==
  \/ \E u \in UserTurns : Messages(u)
  \/ \E a \in Answers : EngineAnswers(a)
  \/ TakesBack

Spec == Init /\ [][Next]_vars

-----------------------------------------------------------------------------
(* Properties                                                              *)

Roles(ms, role) == SelectSeq(ms, LAMBDA m : m.role = role)
Faithful(m, a) ==
  /\ m.content = a.text /\ Len(m.calls) = Len(a.calls)
  /\ \A k \in DOMAIN a.calls :
       /\ a.calls[k].id # 0 => m.calls[k].id = a.calls[k].id
       /\ a.calls[k].args = "{x}" => m.calls[k].args = "{x}"

\* The engine is shown the conversation it had: its own answers, in order, with
\* the texts, calls, identifiers and arguments it gave; calls told apart by
\* their identifiers; and every result right behind the answer that asked for
\* it, before anything else the user says (chatTurns, anthropicMessageFrom).
ConversationKept ==
  stage = "engine" =>
    /\ Len(Roles(sent, "assistant")) = Len(given)
    /\ \A k \in DOMAIN given : Faithful(Roles(sent, "assistant")[k], given[k])
    /\ \A k \in DOMAIN sent : sent[k].role = "tool" =>
         \E j \in 1 .. k - 1 :
           /\ \E c \in ToSet(sent[j].calls) : c.id = sent[k].id
           /\ \A i \in j + 1 .. k : sent[i].role = "tool"
    /\ \A k \in DOMAIN sent : \A i, j \in DOMAIN sent[k].calls :
         sent[k].calls[i].id = sent[k].calls[j].id => i = j
=============================================================================
