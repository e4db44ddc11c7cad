------------------------------- MODULE Bridge ------------------------------
(***************************************************************************)
(* The bridge between the agent and the model: bridge/bridge.py, its       *)
(* transports "direct" and "proxy", the switch between them and its file.  *)
(*                                                                         *)
(* One request of the agent is followed, from the handler's dispatch to    *)
(* the answer.  The upstreams are external: they refuse, answer in JSON,   *)
(* accept a task, or send events one by one, in the Anthropic format or    *)
(* the proxy's, and may break off or report an error anywhere.             *)
(***************************************************************************)
EXTENDS BridgeStream

CONSTANTS
  Credentials,  \* the sets of transports an operator may configure
  Overrides,    \* the values BRIDGE_MODE may have, "none" for unset
  Retries,      \* BRIDGE_STREAM_OPEN_RETRIES
  MaxBlocks,    \* bound on the content blocks of an upstream's message
  MaxNoise,     \* bound on the pings and comments in a stream
  MaxSwitches,  \* bound on the switches of the mode
  MaxCrashes    \* bound on the restarts of the bridge

ASSUME BridgeAssumption ==
  /\ Credentials \subseteq (SUBSET {"proxy", "direct"}) \ {{}}
  /\ Overrides \subseteq {"proxy", "direct", "none"}
  /\ {Retries, MaxBlocks, MaxNoise, MaxSwitches, MaxCrashes} \subseteq Nat

VARIABLES
  has,      \* the transports that are configured
  env,      \* BRIDGE_MODE
  mode,     \* _current_mode
  file,     \* BRIDGE_MODE_FILE
  chosen,   \* history: the mode set_mode() has saved last
  req,      \* the request
  up,       \* the upstream's stream, external: what it has yet to send
  events,   \* what the upstream has sent
  switches,
  crashes

vars == <<has, env, mode, file, chosen, req, up, events, switches, crashes>>

Modes == {"proxy", "direct"}

PCs == {"idle", "post", "open", "read", "answered"}

\* A JSON body is a message, a message wrapped in "result", "data", ..., or
\* something else, such as an error: then there is no content in it.
Bodies == {"message", "wrapped", "other"}

Bare(body) == IF body = "message" THEN TextMessage(<<"text">>) ELSE NoMessage

\* _unwrap_response
Unwrap(body) == IF body = "wrapped" THEN Bare("message") ELSE Bare(body)

TypeOK ==
  /\ has \in Credentials
  /\ env \in Overrides
  /\ mode \in Modes
  /\ file \in Modes \cup {"none"}
  /\ chosen \in Modes \cup {"none"}
  /\ req \in [pc : PCs, streaming : BOOLEAN, via : Modes, tries : 0..Retries,
              reply : Bodies \cup {"none", "refused", "events"},
              answer : [kind : Answers, message : {req.answer.message}, events : {req.answer.events}]]
  /\ up \in [format : {"anthropic", "proxy"}, phase : {"start", "body", "block", "stop", "over"},
             kind : {"none", "text", "tool_use", "thinking"}, blocks : 0..MaxBlocks,
             pieces : 0..2, noise : 0..MaxNoise]
  /\ switches \in 0..MaxSwitches
  /\ crashes \in 0..MaxCrashes

NoRequest == [pc |-> "idle", streaming |-> FALSE, via |-> "direct", tries |-> 0,
              reply |-> "none", answer |-> ErrorAnswer]

NoStream == [format |-> "anthropic", phase |-> "start", kind |-> "none", blocks |-> 0,
             pieces |-> 0, noise |-> 0]

\* A mutant of LoadMode: a saved mode is taken whether or not it is configured.
LoadModeUnchecked(cfg, override, saved) ==
  CASE override \in cfg -> override
    [] override \notin cfg /\ saved \in Modes -> saved
    [] OTHER -> IF "proxy" \in cfg THEN "proxy" ELSE "direct"

\* A mutant of LoadMode: the file is not read.
LoadModeUnsaved(cfg, override, saved) ==
  IF override \in cfg THEN override
  ELSE IF "proxy" \in cfg THEN "proxy" ELSE "direct"

\* BRIDGE_MODE, then the file, then proxy before direct, each if configured.
LoadMode(cfg, override, saved) ==
  CASE override \in cfg -> override
    [] override \notin cfg /\ saved \in cfg -> saved
    [] OTHER -> IF "proxy" \in cfg THEN "proxy" ELSE "direct"

Init ==
  /\ has \in Credentials
  /\ env \in Overrides
  /\ file = "none"
  /\ mode = LoadMode(has, env, "none")
  /\ chosen = "none"
  /\ req = NoRequest
  /\ up = NoStream
  /\ events = <<>>
  /\ switches = 0
  /\ crashes = 0

modeVars == <<has, env, mode, file, chosen, switches, crashes>>
streamVars == <<up, events>>
----------------------------------------------------------------------------
(***************************************************************************)
(* The mode.                                                               *)
(***************************************************************************)

\* POST /mode, also by way of the page's /api/proxy-mode; another mode than a
\* configured one is refused.  A file that cannot be written is only logged.
SetMode(m) ==
  /\ m \in has
  /\ switches < MaxSwitches
  /\ switches' = switches + 1
  /\ mode' = m
  /\ \/ file' = m /\ chosen' = m
     \/ file' = file /\ chosen' = "none"
  /\ UNCHANGED <<has, env, crashes, req, up, events>>

\* The bridge dies, possibly between the truncation of the mode's file and the
\* write, and is started again with the environment the operator gives it.
Restart ==
  /\ crashes < MaxCrashes
  /\ crashes' = crashes + 1
  /\ \/ UNCHANGED <<file, chosen>>
     \/ file' = "none" /\ chosen' = "none"
  /\ has' \in Credentials
  /\ env' \in Overrides
  /\ mode' = LoadMode(has', env', file')
  /\ req' = NoRequest
  /\ up' = NoStream
  /\ events' = <<>>
  /\ UNCHANGED switches
----------------------------------------------------------------------------
(***************************************************************************)
(* The request.                                                            *)
(***************************************************************************)

\* messages_handler: the mode is read once, for the whole request.
Dispatch(streaming) ==
  /\ req.pc = "idle"
  /\ req' = [NoRequest EXCEPT !.pc = "post", !.streaming = streaming, !.via = mode]
  /\ UNCHANGED <<modeVars, streamVars>>

Reply(reply, answer) ==
  /\ req' = [req EXCEPT !.pc = "answered", !.reply = reply, !.answer = answer]
  /\ UNCHANGED <<modeVars, streamVars>>

\* A status other than 200 (or 202), a 202 without a task, no connection.
Refused ==
  /\ req.pc = "post"
  /\ Reply("refused", ErrorAnswer)

\* Only a proxy's body is unwrapped; a body without a message is passed on.
PostAnsweredJson(body) ==
  /\ req.pc = "post"
  /\ Reply(body, BuildResponse(IF req.via = "proxy" THEN Unwrap(body) ELSE Bare(body),
                               req.streaming))

PostAccepted ==
  /\ req.pc = "post"
  /\ req.via = "proxy"
  /\ req' = [req EXCEPT !.pc = "open"]
  /\ UNCHANGED <<modeVars, streamVars>>

StreamStarts(format) ==
  /\ req' = [req EXCEPT !.pc = "read", !.reply = "events", !.tries = 0]
  /\ up' = [NoStream EXCEPT !.format = format]
  /\ UNCHANGED <<modeVars, events>>

PostAnsweredEvents(format) ==
  /\ req.pc = "post"
  /\ req.via = "direct" => format = "anthropic"
  /\ StreamStarts(format)

\* Mutants of OpenAgain: the attempts are counted one too far, or start over.
OpenAgainPastLimit ==
  /\ req.pc = "open"
  /\ req.tries <= Retries
  /\ req' = [req EXCEPT !.tries = @ + 1]
  /\ UNCHANGED <<modeVars, streamVars>>

OpenAgainForEver ==
  /\ req.pc = "open"
  /\ req' = [req EXCEPT !.tries = (@ + 1) % (Retries + 1)]
  /\ UNCHANGED <<modeVars, streamVars>>

\* _open_upstream_stream: 404 and 425 mean that the task has no stream yet.
OpenAgain ==
  /\ req.pc = "open"
  /\ req.tries < Retries
  /\ req' = [req EXCEPT !.tries = @ + 1]
  /\ UNCHANGED <<modeVars, streamVars>>

OpenRefused ==
  /\ req.pc = "open"
  /\ Reply("refused", ErrorAnswer)

OpenedEvents(format) ==
  /\ req.pc = "open"
  /\ StreamStarts(format)

\* Here, a body without a message is an error.
OpenedJson(body) ==
  /\ req.pc = "open"
  /\ Reply(body, OrError(Unwrap(body), BuildResponse(Unwrap(body), req.streaming)))

\* The answer to a stream that has ended, or broken off.
Answered(streaming) ==
  IF req.via = "direct" THEN AnswerAnthropic(events, streaming)
                        ELSE PipeOrCollect(events, streaming)

EndOfStream ==
  /\ req.pc = "read"
  /\ Reply("events", Answered(req.streaming))

\* BRIDGE_TIMEOUT, or a connection that fails while the body is read.
ReadFails ==
  /\ req.pc = "read"
  /\ Reply("refused", ErrorAnswer)

\* The answer is sent; the client may have hung up.
Deliver ==
  /\ req.pc = "answered"
  /\ req' = NoRequest
  /\ up' = NoStream
  /\ events' = <<>>
  /\ UNCHANGED modeVars
----------------------------------------------------------------------------
(***************************************************************************)
(* The upstream's stream.                                                  *)
(***************************************************************************)
Send(ev, next) ==
  /\ req.pc = "read"
  /\ events' = Append(events, ev)
  /\ up' = next
  /\ UNCHANGED <<modeVars, req>>

\* A ping, a comment or a block that is not JSON.
SendNoise ==
  /\ up.phase # "over"
  /\ up.noise < MaxNoise
  /\ \E type \in {"ping", "nothing"} :
       /\ type = "ping" => up.format = "anthropic"
       /\ Send(Plain(type), [up EXCEPT !.noise = @ + 1])

SendError ==
  /\ up.phase # "over"
  /\ Send(Plain("error"), [up EXCEPT !.phase = "over"])

SendMessageStart ==
  /\ up.format = "anthropic" /\ up.phase = "start"
  /\ Send(Plain("message_start"), [up EXCEPT !.phase = "body"])

\* Some block types come whole in their start.
SendBlockStart(kind) ==
  /\ up.format = "anthropic" /\ up.phase = "body" /\ up.blocks < MaxBlocks
  /\ Send([Plain("content_block_start") EXCEPT !.index = up.blocks, !.kind = kind],
          [up EXCEPT !.phase = "block", !.kind = kind, !.pieces = 0])

SendBlockDelta ==
  /\ up.format = "anthropic" /\ up.phase = "block" /\ up.pieces < 2
  /\ Send([Plain("content_block_delta") EXCEPT
             !.index = up.blocks,
             !.data = IF up.kind = "tool_use" THEN <<Json[up.pieces + 1]>> ELSE <<"text">>],
          [up EXCEPT !.pieces = @ + 1])

\* A tool's input is {} or a whole JSON object.
SendBlockStop ==
  /\ up.format = "anthropic" /\ up.phase = "block"
  /\ up.kind = "tool_use" => up.pieces # 1
  /\ Send([Plain("content_block_stop") EXCEPT !.index = up.blocks],
          [up EXCEPT !.phase = "body", !.kind = "none", !.blocks = @ + 1, !.pieces = 0])

SendMessageDelta ==
  /\ up.format = "anthropic" /\ up.phase = "body"
  /\ Send([Plain("message_delta") EXCEPT !.stop = "end_turn"], [up EXCEPT !.phase = "stop"])

SendMessageStop ==
  /\ up.format = "anthropic" /\ up.phase = "stop"
  /\ Send(Plain("message_stop"), [up EXCEPT !.phase = "over"])

SendProxyDelta ==
  /\ up.format = "proxy" /\ up.phase = "start" /\ up.pieces < 2
  /\ Send([Plain("stream") EXCEPT !.data = <<"text">>], [up EXCEPT !.pieces = @ + 1])

SendProxyDone(kind) ==
  /\ up.format = "proxy" /\ up.phase = "start"
  /\ Send([Plain("done") EXCEPT !.kind = kind, !.data = <<"text", "text">>],
          [up EXCEPT !.phase = "over"])
----------------------------------------------------------------------------
PostStep ==
  \/ Refused
  \/ \E body \in Bodies : PostAnsweredJson(body)
  \/ PostAccepted
  \/ \E format \in {"anthropic", "proxy"} : PostAnsweredEvents(format)

OpenStep ==
  \/ OpenAgain
  \/ OpenRefused
  \/ \E body \in Bodies : OpenedJson(body)
  \/ \E format \in {"anthropic", "proxy"} : OpenedEvents(format)

ReadStep == EndOfStream \/ ReadFails

UpstreamStep ==
  \/ SendNoise
  \/ SendError
  \/ SendMessageStart
  \/ \E kind \in {"text", "tool_use", "thinking"} : SendBlockStart(kind)
  \/ SendBlockDelta
  \/ SendBlockStop
  \/ SendMessageDelta
  \/ SendMessageStop
  \/ SendProxyDelta
  \/ \E kind \in {"text", "message"} : SendProxyDone(kind)

Next ==
  \/ \E m \in Modes : SetMode(m)
  \/ Restart
  \/ \E streaming \in BOOLEAN : Dispatch(streaming)
  \/ PostStep
  \/ OpenStep
  \/ ReadStep
  \/ Deliver
  \/ UpstreamStep

\* Each request to an upstream ends: BRIDGE_TIMEOUT bounds the POST, each GET
\* of the stream, and the reading of a body.
Spec ==
  /\ Init /\ [][Next]_vars
  /\ WF_vars(PostStep) /\ WF_vars(OpenStep) /\ WF_vars(ReadStep) /\ WF_vars(Deliver)
----------------------------------------------------------------------------
(***************************************************************************)
(* Properties.                                                             *)
(***************************************************************************)

\* The mode in force and the transport of a request in flight have their
\* credentials, across restarts with another environment and whatever the
\* mode's file still says.
TransportIsConfigured == mode \in has /\ (req.pc # "idle" => req.via \in has)

\* The mode an operator has chosen and the bridge has saved stays in force over
\* restarts, unless BRIDGE_MODE overrides it or its credentials are gone.
ChosenModeStays == env \notin has /\ chosen \in has => mode = chosen

\* A client that does not stream gets the message the upstream's complete
\* stream means: _collect_anthropic_events loses, merges or reorders nothing.
CollectedIsMeant ==
  req.pc = "answered" /\ req.reply = "events" /\ up.format = "anthropic" /\ Complete(events)
    => CollectAnthropic(events) = Meaning(events)

\* Whether a client asked to stream makes no difference to the message it ends
\* up with, piped, assembled or synthesized, when the upstream's stream is whole
\* (a proxy may also have failed or said nothing at all).
SameEitherWay ==
  req.pc = "answered" /\ req.reply = "events"
  /\ (up.format = "anthropic" => Complete(events))
    => ClientReads(Answered(TRUE)) = ClientReads(Answered(FALSE))

\* A message of any shape that is synthesized into a stream is the message its
\* client reads.
SynthesizedIsRead ==
  Complete(events) =>
    ClientReads(BuildResponse(Meaning(events), TRUE)) = Meaning(events)

\* An error that the proxy reports in its stream is an error for the client.
ProxyErrorIsReported ==
  req.pc = "answered" /\ req.reply = "events" /\ up.format = "proxy"
  /\ (\E ev \in ToSet(events) : ev.type = "error")
    => req.answer.kind = "error"

\* Every request is answered, though the upstream stalls, breaks off or has no
\* stream for its task.
RequestsEnd == req.pc # "idle" ~> req.pc = "idle"
=============================================================================
