------------------------------ MODULE HostedTools ------------------------------
(***************************************************************************)
(* The hosted MCP server (platform/src/mcp.ts) and the assistant of the    *)
(* Enterprise tier (platform/ee/src/assistant.ts).  A client calls tools   *)
(* that read the workspace or append an event to it, and calls again when  *)
(* the answer is lost.  The assistant lets a model choose tools, one a     *)
(* turn, and runs them over MCP with the credential of its caller.         *)
(***************************************************************************)
EXTENDS Integers, Sequences, FiniteSets

CONSTANTS
  ToolCallers,   \* credentials: API keys and device tokens
  HomeOf,        \* the workspace of a credential
  CanWrite,      \* the credentials with scope "write" or capability "ingest"
  ToolCalls,     \* calls of MCP clients
  Chats,         \* questions to the assistant
  WriteFlag,     \* the "write" flag of each tool in tools/list
  ScoreBodies,   \* what a client may record
  MaxToolCalls,  \* MAX_TOOL_CALLS
  LastMoment,    \* bound of the clock
  MaxRepeats     \* bound: times that a client repeats a call

Tools == DOMAIN WriteFlag
ASSUME ToolsAssumption ==
  /\ CanWrite \subseteq ToolCallers /\ MaxToolCalls \in Nat
  /\ \A t \in Tools : WriteFlag[t] \in BOOLEAN

VARIABLES
  moment,      \* the clock, in milliseconds
  revoked,     \* credentials that were revoked
  toolEvents,  \* the events that tools appended: [space, body, at, by]
  toolCall,    \* the calls of clients
  chat,        \* the conversations
  attempts     \* history: [space, body] of every call that was authorised

toolVars == <<moment, revoked, toolEvents, toolCall, chat, attempts>>

NoCall == [step |-> "none", repeats |-> 0]
NoChat == [step |-> "none"]
ToolsInit ==
  /\ moment = 0 /\ revoked = {} /\ toolEvents = {} /\ attempts = <<>>
  /\ toolCall = [c \in ToolCalls |-> NoCall] /\ chat = [a \in Chats |-> NoChat]

Authenticated(u) == u \notin revoked
ScoresOf(u) == {e \in toolEvents : e.space = HomeOf[u]}
(* The id of an event is computed from the workspace, the payload and the  *)
(* millisecond.                                                            *)
mcpEventID(e) == <<e.space, e.body, e.at>>
insertMcpEvent(e) ==
  toolEvents' = IF mcpEventID(e) \in {mcpEventID(f) : f \in toolEvents} THEN toolEvents ELSE toolEvents \cup {e}

-------------------------------------------------------------------------------
(* record_score and accept_handoff: authorise and look the workstream up;  *)
(* take the time; insert.  The answer may be lost, and the client repeats. *)
CallWriteTool(c, u, body) ==
  /\ toolCall[c].step = "none" /\ Authenticated(u)
  /\ toolCall' = [toolCall EXCEPT ![c] =
       IF u \in CanWrite
       THEN [step |-> "stamp", by |-> u, body |-> body, repeats |-> 0]
       ELSE [step |-> "refused", repeats |-> 0]]
  /\ attempts' = IF u \in CanWrite THEN Append(attempts, [space |-> HomeOf[u], body |-> body]) ELSE attempts
  /\ UNCHANGED <<moment, revoked, toolEvents, chat>>

StampCall(c) ==
  /\ toolCall[c].step = "stamp"
  /\ toolCall' = [toolCall EXCEPT ![c] =
       [step |-> "insert", by |-> @.by, body |-> @.body, repeats |-> @.repeats, at |-> moment]]
  /\ UNCHANGED <<moment, revoked, toolEvents, chat, attempts>>

InsertToolEvent(c) ==
  /\ toolCall[c].step = "insert"
  /\ LET call == toolCall[c]
     IN insertMcpEvent([space |-> HomeOf[call.by], body |-> call.body, at |-> call.at, by |-> call.by])
  /\ \E step \in {"answered", "lost"} : toolCall' = [toolCall EXCEPT ![c].step = step]
  /\ UNCHANGED <<moment, revoked, chat, attempts>>

RepeatCall(c) ==
  /\ toolCall[c].step = "lost" /\ toolCall[c].repeats < MaxRepeats
  /\ LET call == toolCall[c]
     IN IF Authenticated(call.by)
        THEN /\ toolCall' = [toolCall EXCEPT ![c] =
                  [step |-> "stamp", by |-> call.by, body |-> call.body, repeats |-> call.repeats + 1]]
             /\ attempts' = Append(attempts, [space |-> HomeOf[call.by], body |-> call.body])
        ELSE toolCall' = [toolCall EXCEPT ![c] = [step |-> "refused", repeats |-> call.repeats]] /\ UNCHANGED attempts
  /\ UNCHANGED <<moment, revoked, toolEvents, chat>>

-------------------------------------------------------------------------------
(* The assistant offers the tools whose flag is an explicit "false".       *)
Listed(t) == t \in Tools  \* mutant: the whole catalogue is offered
ReadOnly(t) == t \in Tools /\ ~WriteFlag[t]

AskAssistant(a, u) ==
  /\ chat[a] = NoChat /\ Authenticated(u) /\ \E t \in Tools : ReadOnly(t)
  /\ chat' = [chat EXCEPT ![a] = [step |-> "model", by |-> u, used |-> <<>>, evidence |-> {}]]
  /\ UNCHANGED <<moment, revoked, toolEvents, toolCall, attempts>>

(* Whatever fails ends the conversation without an answer.                 *)
Conclude(a, step) == chat' = [chat EXCEPT ![a].step = step]
ModelAnswers(a) ==
  /\ chat[a].step = "model"
  /\ Conclude(a, "answer")
  /\ UNCHANGED <<moment, revoked, toolEvents, toolCall, attempts>>
ModelFails(a) ==  \* unavailable, or a reply that is not of the protocol
  /\ chat[a].step = "model"
  /\ Conclude(a, "error")
  /\ UNCHANGED <<moment, revoked, toolEvents, toolCall, attempts>>
ModelCallsTool(a, t) ==
  /\ chat[a].step = "model"
  /\ chat' = [chat EXCEPT ![a] =
       IF Len(@.used) < MaxToolCalls /\ ReadOnly(t)
       THEN [step |-> "tool", by |-> @.by, used |-> @.used, evidence |-> @.evidence, tool |-> t]
       ELSE [@ EXCEPT !.step = "error"]]
  /\ UNCHANGED <<moment, revoked, toolEvents, toolCall, attempts>>

harvestEvidence(u) == {mcpEventID(e) : e \in ScoresOf(u)}

(* tools/call authenticates once more and runs the tool itself.  The ids   *)
(* in the result are evidence; a tool that fails ends the conversation.    *)
RunTool(a) ==
  LET talk == chat[a]
      event == [space |-> HomeOf[talk.by], body |-> CHOOSE b \in ScoreBodies : TRUE, at |-> moment, by |-> a]
  IN /\ talk.step = "tool"
     /\ IF ~Authenticated(talk.by) \/ (WriteFlag[talk.tool] /\ talk.by \notin CanWrite)
        THEN Conclude(a, "error") /\ UNCHANGED toolEvents
        ELSE /\ IF WriteFlag[talk.tool] THEN insertMcpEvent(event) ELSE UNCHANGED toolEvents
             /\ chat' = [chat EXCEPT ![a] =
                  [step |-> "model", by |-> talk.by, used |-> Append(talk.used, talk.tool),
                   evidence |-> talk.evidence \cup harvestEvidence(talk.by)]]
     /\ UNCHANGED <<moment, revoked, toolCall, attempts>>

ToolFails(a) ==  \* nothing is found, or the store fails
  /\ chat[a].step = "tool" /\ Conclude(a, "error")
  /\ UNCHANGED <<moment, revoked, toolEvents, toolCall, attempts>>

-------------------------------------------------------------------------------
MomentPasses ==
  /\ moment < LastMoment /\ moment' = moment + 1
  /\ UNCHANGED <<revoked, toolEvents, toolCall, chat, attempts>>
RevokeCredential(u) ==
  /\ Authenticated(u) /\ revoked' = revoked \cup {u}
  /\ UNCHANGED <<moment, toolEvents, toolCall, chat, attempts>>

ToolsNext ==
  \/ \E c \in ToolCalls :
       \/ \E u \in ToolCallers, body \in ScoreBodies : CallWriteTool(c, u, body)
       \/ StampCall(c) \/ InsertToolEvent(c) \/ RepeatCall(c)
  \/ \E a \in Chats :
       \/ \E u \in ToolCallers : AskAssistant(a, u)
       \/ ModelAnswers(a) \/ ModelFails(a) \/ RunTool(a) \/ ToolFails(a)
       \/ \E t \in Tools \cup {"unknown"} : ModelCallsTool(a, t)
  \/ MomentPasses
  \/ \E u \in ToolCallers : RevokeCredential(u)

-------------------------------------------------------------------------------
(* "The assistant never gets its own credential [...] it is read-only by   *)
(* construction", and a repeated call in one millisecond "collapses to one *)
(* row": an event of the log is by a client that could write, never by a   *)
(* conversation; what was answered is in the log, and a payload is there   *)
(* no more often than it was sent; and an answer of the assistant rests on *)
(* no more tools than the budget, on events of the caller's workspace and  *)
(* of no other, and never on a failure.                                    *)
ToolsAreFaithful ==
  /\ \A e \in toolEvents : e.by \in CanWrite /\ e.space = HomeOf[e.by]
  /\ \A c \in ToolCalls : toolCall[c].step = "answered" =>
       \E e \in toolEvents : mcpEventID(e) = <<HomeOf[toolCall[c].by], toolCall[c].body, toolCall[c].at>>
  /\ \A space \in {HomeOf[u] : u \in ToolCallers}, body \in ScoreBodies :
       Cardinality({e \in toolEvents : e.space = space /\ e.body = body})
         <= Cardinality({i \in DOMAIN attempts : attempts[i] = [space |-> space, body |-> body]})
  /\ \A a \in Chats : chat[a].step = "answer" =>
       /\ Len(chat[a].used) <= MaxToolCalls
       /\ chat[a].evidence \subseteq harvestEvidence(chat[a].by)
       /\ chat[a].evidence # {} => \E i \in DOMAIN chat[a].used : ReadOnly(chat[a].used[i])
===============================================================================
