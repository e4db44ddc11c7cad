---------------------------- MODULE BridgeProofs ---------------------------
(***************************************************************************)
(* Proofs about Bridge, for every environment, any number of switches and  *)
(* restarts, and streams of any length: a request is served by a           *)
(* configured transport, a chosen mode stays, and what is assembled of an  *)
(* upstream's events, or written as events, is what they mean.             *)
(*                                                                         *)
(* FlattenSeq and FoldLeft are recursive functions; their induction is on  *)
(* a set of numbers (SetInduction).                                        *)
(***************************************************************************)
EXTENDS Bridge, WellFoundedInduction, FiniteSetTheorems, TLAPS

ReqOK(r) ==
  r \in [pc : PCs, streaming : BOOLEAN, via : Modes, tries : 0..Retries,
         reply : Bodies \cup {"none", "refused", "events"},
         answer : [kind : Answers, message : {r.answer.message}, events : {r.answer.events}]]

\* The requests with the answer a.
Requests(a) ==
  [pc : PCs, streaming : BOOLEAN, via : Modes, tries : 0..Retries,
   reply : Bodies \cup {"none", "refused", "events"}, answer : {a}]

Streams == [format : {"anthropic", "proxy"}, phase : {"start", "body", "block", "stop", "over"},
            kind : {"none", "text", "tool_use", "thinking"}, blocks : 0..MaxBlocks,
            pieces : 0..2, noise : 0..MaxNoise]

TypeInv ==
  /\ TypeOK
  /\ up.phase = "block" => up.blocks < MaxBlocks

\* What set_mode() saved last, if it could and nothing has torn the file
\* since, is what the file says.
BridgeInv ==
  /\ TypeInv
  /\ chosen # "none" => file = chosen
  /\ TransportIsConfigured
  /\ ChosenModeStays

\* _load_mode() finds a configured mode, and the saved one unless BRIDGE_MODE
\* overrides it.
LEMMA LoadedMode ==
  ASSUME NEW cfg \in Credentials, NEW override \in Overrides, NEW saved \in Modes \cup {"none"}
  PROVE  /\ LoadMode(cfg, override, saved) \in cfg
         /\ LoadMode(cfg, override, saved) \in Modes
         /\ override \notin cfg /\ saved \in cfg => LoadMode(cfg, override, saved) = saved
  <1>1. cfg \subseteq Modes /\ cfg # {}  BY BridgeAssumption DEF Modes
  <1> QED  BY <1>1 DEF LoadMode, Modes

\* An answer of any of the three kinds.
IsAnswer(a) == a \in [kind : Answers, message : {a.message}, events : {a.events}]

LEMMA AnswersTyped ==
  /\ IsAnswer(ErrorAnswer)
  /\ \A message : IsAnswer(MessageAnswer(message))
  /\ \A events_ : IsAnswer(StreamAnswer(events_))
  BY DEF IsAnswer, ErrorAnswer, MessageAnswer, StreamAnswer, Answers

LEMMA ComputedAnswers ==
  /\ \A message, streaming : IsAnswer(BuildResponse(message, streaming))
  /\ \A message, a : IsAnswer(a) => IsAnswer(OrError(message, a))
  /\ \A sent, streaming : IsAnswer(AnswerAnthropic(sent, streaming))
  /\ \A sent, streaming : IsAnswer(PipeOrCollect(sent, streaming))
  <1>1. \A message, streaming : IsAnswer(BuildResponse(message, streaming))
    BY AnswersTyped DEF BuildResponse
  <1>2. \A message, a : IsAnswer(a) => IsAnswer(OrError(message, a))
    BY AnswersTyped DEF OrError
  <1>3. \A sent, streaming : IsAnswer(AnswerAnthropic(sent, streaming))
    BY <1>2, AnswersTyped DEF AnswerAnthropic
  <1>4. ASSUME NEW sent, NEW streaming PROVE IsAnswer(PipeOrCollect(sent, streaming))
    <2> DEFINE format == DetectFormat(sent)
               message == CollectProxy(sent)
    <2>1. format \in {"anthropic", "proxy", "unknown"}
      <3>1. \A ev : Format(ev) \in {"anthropic", "proxy", "unknown"}  BY DEF Format
      <3> QED  BY <3>1 DEF DetectFormat
    <2>2. /\ IsAnswer(AnswerAnthropic(sent, streaming))
          /\ IsAnswer(OrError(message, BuildResponse(message, streaming)))
          /\ IsAnswer(ErrorAnswer)
      BY <1>1, <1>2, <1>3, AnswersTyped
    <2>3. PipeOrCollect(sent, streaming) =
            CASE format = "anthropic" -> AnswerAnthropic(sent, streaming)
              [] format = "proxy"     -> OrError(message, BuildResponse(message, streaming))
              [] format = "unknown"   -> ErrorAnswer
      BY DEF PipeOrCollect
    <2> HIDE DEF format, message
    <2> QED  BY <2>1, <2>2, <2>3
  <1> QED  BY <1>1, <1>2, <1>3, <1>4
----------------------------------------------------------------------------
LEMMA RequestTyped ==
  ASSUME NEW r, NEW a, IsAnswer(a), r \in Requests(a)
  PROVE  ReqOK(r)
  BY DEF Requests, ReqOK, IsAnswer

LEMMA NothingTyped == ReqOK(NoRequest) /\ NoStream \in Streams
  BY AnswersTyped, BridgeAssumption
     DEF ReqOK, NoRequest, NoStream, Streams, PCs, Modes, IsAnswer

LEMMA TypesSplit ==
  TypeOK <=> /\ has \in Credentials /\ env \in Overrides
             /\ mode \in Modes /\ file \in Modes \cup {"none"}
             /\ chosen \in Modes \cup {"none"}
             /\ ReqOK(req) /\ up \in Streams
             /\ switches \in 0..MaxSwitches /\ crashes \in 0..MaxCrashes
  BY DEF TypeOK, ReqOK, Streams

\* The request and its upstream move, the mode does not.
LEMMA MoveTyped ==
  ASSUME TypeInv, UNCHANGED modeVars, ReqOK(req'), up' \in Streams,
         up'.phase = "block" => up'.blocks < MaxBlocks
  PROVE  TypeInv'
  <1>1. (ReqOK(req))' <=> ReqOK(req')  BY DEF ReqOK
  <1>2. TypeOK'  BY <1>1, TypesSplit DEF TypeInv, modeVars, TypeOK, ReqOK, Streams
  <1> QED  BY <1>2 DEF TypeInv

LEMMA ReplyTyped ==
  ASSUME TypeInv, NEW reply \in Bodies \cup {"refused", "events"}, NEW a, IsAnswer(a),
         Reply(reply, a)
  PROVE  TypeInv' /\ UNCHANGED modeVars /\ req'.via = req.via
  <1> DEFINE r == [req EXCEPT !.pc = "answered", !.reply = reply, !.answer = a]
  <1>1. ReqOK(req) /\ up \in Streams  BY TypesSplit DEF TypeInv
  <1>2. r \in Requests(a) /\ r.via = req.via  BY <1>1 DEF ReqOK, Requests, PCs
  <1>3. ReqOK(r)  BY <1>2, RequestTyped
  <1>4. req' = r /\ UNCHANGED modeVars /\ up' = up  BY DEF Reply, streamVars
  <1> HIDE DEF r
  <1> QED  BY <1>1, <1>2, <1>3, <1>4, MoveTyped DEF TypeInv

\* A step to a further attempt, to the stream's opening or to its reading.
LEMMA GoesOn ==
  ASSUME TypeInv, NEW r, UNCHANGED modeVars, req' = r, ReqOK(r), r.via = req.via,
         up' \in Streams, up'.phase = "block" => up'.blocks < MaxBlocks
  PROVE  TypeInv' /\ UNCHANGED modeVars /\ req'.via = req.via
  BY MoveTyped

LEMMA StreamStartsTyped ==
  ASSUME TypeInv, NEW format \in {"anthropic", "proxy"}, StreamStarts(format)
  PROVE  TypeInv' /\ UNCHANGED modeVars /\ req'.via = req.via
  <1> DEFINE r == [req EXCEPT !.pc = "read", !.reply = "events", !.tries = 0]
             u == [NoStream EXCEPT !.format = format]
  <1>1. ReqOK(req) /\ IsAnswer(req.answer)  BY TypesSplit DEF TypeInv, ReqOK, IsAnswer
  <1>2. req' = r /\ up' = u /\ UNCHANGED modeVars  BY DEF StreamStarts
  <1> DEFINE v == [req EXCEPT !.pc = "read"]
             w == [v EXCEPT !.reply = "events"]
             x == [w EXCEPT !.tries = 0]
  <1>3. req \in Requests(req.answer)  BY <1>1 DEF ReqOK, Requests
  <1>4. r = x  OBVIOUS
  <1> HIDE DEF r
  <1>5. v \in Requests(req.answer) /\ v.via = req.via  BY <1>3 DEF Requests, PCs
  <1> HIDE DEF v
  <1>6. w \in Requests(req.answer) /\ w.via = req.via  BY <1>5 DEF Requests
  <1> HIDE DEF w
  <1>7. r \in Requests(req.answer) /\ r.via = req.via
    BY <1>6, <1>4, BridgeAssumption DEF Requests
  <1>8. ReqOK(r) /\ r.via = req.via  BY <1>1, <1>7, RequestTyped
  <1>9. u \in Streams /\ u.phase = "start"  BY NothingTyped DEF Streams, NoStream
  <1> HIDE DEF u
  <1> QED  BY <1>8, <1>9, <1>2, GoesOn

LEMMA PostTyped ==
  ASSUME TypeInv, PostStep
  PROVE  TypeInv' /\ UNCHANGED modeVars /\ req'.via = req.via
  <1>1. CASE Refused  BY <1>1, AnswersTyped, ReplyTyped DEF Refused
  <1>2. ASSUME NEW body \in Bodies, PostAnsweredJson(body)
        PROVE  TypeInv' /\ UNCHANGED modeVars /\ req'.via = req.via
    <2> DEFINE a == BuildResponse(IF req.via = "proxy" THEN Unwrap(body) ELSE Bare(body),
                                  req.streaming)
    <2>1. IsAnswer(a)  BY ComputedAnswers
    <2>2. Reply(body, a)  BY <1>2 DEF PostAnsweredJson
    <2> HIDE DEF a
    <2> QED  BY <2>1, <2>2, ReplyTyped
  <1>3. CASE PostAccepted
    <2> DEFINE r == [req EXCEPT !.pc = "open"]
    <2>1. ReqOK(req) /\ up \in Streams  BY TypesSplit DEF TypeInv
    <2>2. r = [pc |-> "open", streaming |-> req.streaming, via |-> req.via,
               tries |-> req.tries, reply |-> req.reply, answer |-> req.answer]
      BY <2>1 DEF ReqOK
    <2>3. ReqOK(r) /\ r.via = req.via  BY <2>1, <2>2 DEF ReqOK, PCs
    <2>4. req' = r /\ up' = up /\ UNCHANGED modeVars  BY <1>3 DEF PostAccepted, streamVars
    <2> HIDE DEF r
    <2> QED  BY <2>1, <2>3, <2>4, GoesOn DEF TypeInv
  <1>4. ASSUME NEW format \in {"anthropic", "proxy"}, PostAnsweredEvents(format)
        PROVE  TypeInv' /\ UNCHANGED modeVars /\ req'.via = req.via
    BY <1>4, StreamStartsTyped DEF PostAnsweredEvents
  <1> QED  BY <1>1, <1>2, <1>3, <1>4 DEF PostStep

LEMMA OpenTyped ==
  ASSUME TypeInv, OpenStep
  PROVE  TypeInv' /\ UNCHANGED modeVars /\ req'.via = req.via
  <1>1. CASE OpenAgain
    <2> DEFINE tries == req.tries + 1
               r == [req EXCEPT !.tries = tries]
    <2>1. ReqOK(req) /\ up \in Streams  BY TypesSplit DEF TypeInv
    <2>2. tries \in 0..Retries  BY <1>1, <2>1, BridgeAssumption DEF OpenAgain, ReqOK
    <2>3. req' = r /\ up' = up /\ UNCHANGED modeVars  BY <1>1 DEF OpenAgain, streamVars
    <2> HIDE DEF tries
    <2>4. r = [pc |-> req.pc, streaming |-> req.streaming, via |-> req.via,
               tries |-> tries, reply |-> req.reply, answer |-> req.answer]
      BY <2>1 DEF ReqOK
    <2>5. ReqOK(r) /\ r.via = req.via  BY <2>1, <2>2, <2>4 DEF ReqOK
    <2> HIDE DEF r
    <2> QED  BY <2>1, <2>3, <2>5, GoesOn DEF TypeInv
  <1>2. CASE OpenRefused  BY <1>2, AnswersTyped, ReplyTyped DEF OpenRefused
  <1>3. ASSUME NEW body \in Bodies, OpenedJson(body)
        PROVE  TypeInv' /\ UNCHANGED modeVars /\ req'.via = req.via
    <2> DEFINE a == OrError(Unwrap(body), BuildResponse(Unwrap(body), req.streaming))
    <2>1. IsAnswer(a)  BY ComputedAnswers
    <2>2. Reply(body, a)  BY <1>3 DEF OpenedJson
    <2> HIDE DEF a
    <2> QED  BY <2>1, <2>2, ReplyTyped
  <1>4. ASSUME NEW format \in {"anthropic", "proxy"}, OpenedEvents(format)
        PROVE  TypeInv' /\ UNCHANGED modeVars /\ req'.via = req.via
    BY <1>4, StreamStartsTyped DEF OpenedEvents
  <1> QED  BY <1>1, <1>2, <1>3, <1>4 DEF OpenStep

LEMMA ReadTyped ==
  ASSUME TypeInv, ReadStep
  PROVE  TypeInv' /\ UNCHANGED modeVars /\ req'.via = req.via
  <1>1. CASE EndOfStream
    <2> DEFINE a == Answered(req.streaming)
    <2>1. IsAnswer(a)  BY ComputedAnswers DEF Answered
    <2>2. Reply("events", a)  BY <1>1 DEF EndOfStream
    <2> HIDE DEF a
    <2> QED  BY <2>1, <2>2, ReplyTyped
  <1>2. CASE ReadFails  BY <1>2, AnswersTyped, ReplyTyped DEF ReadFails
  <1> QED  BY <1>1, <1>2 DEF ReadStep

\* The upstream sends an event.
LEMMA SendTyped ==
  ASSUME TypeInv, NEW ev, NEW u \in Streams, u.phase = "block" => u.blocks < MaxBlocks,
         Send(ev, u)
  PROVE  TypeInv' /\ UNCHANGED modeVars /\ req' = req
  <1>1. ReqOK(req)  BY TypesSplit DEF TypeInv
  <1>2. req' = req /\ up' = u /\ UNCHANGED modeVars  BY DEF Send
  <1>3. ReqOK(req')  BY <1>1, <1>2
  <1> QED  BY <1>2, <1>3, MoveTyped

LEMMA UpstreamTyped ==
  ASSUME TypeInv, UpstreamStep
  PROVE  TypeInv' /\ UNCHANGED modeVars /\ req' = req
  <1>1. up \in Streams  BY TypesSplit DEF TypeInv
  <1>2. CASE SendNoise
    <2> DEFINE noise == up.noise + 1
               u == [up EXCEPT !.noise = noise]
    <2>1. noise \in 0..MaxNoise  BY <1>1, <1>2, BridgeAssumption DEF SendNoise, Streams
    <2>2. PICK type \in {"ping", "nothing"} : Send(Plain(type), u)  BY <1>2 DEF SendNoise
    <2> HIDE DEF noise
    <2>3. u \in Streams /\ u.phase = up.phase /\ u.blocks = up.blocks
      BY <1>1, <2>1 DEF Streams
    <2> HIDE DEF u
    <2> QED  BY <2>2, <2>3, SendTyped DEF TypeInv
  <1>3. CASE SendError
    <2> DEFINE u == [up EXCEPT !.phase = "over"]
    <2>1. u \in Streams /\ u.phase = "over"  BY <1>1 DEF Streams
    <2>2. Send(Plain("error"), u)  BY <1>3 DEF SendError
    <2> HIDE DEF u
    <2> QED  BY <2>1, <2>2, SendTyped
  <1>4. CASE SendMessageStart
    <2> DEFINE u == [up EXCEPT !.phase = "body"]
    <2>1. u \in Streams /\ u.phase = "body"  BY <1>1 DEF Streams
    <2>2. Send(Plain("message_start"), u)  BY <1>4 DEF SendMessageStart
    <2> HIDE DEF u
    <2> QED  BY <2>1, <2>2, SendTyped
  <1>5. ASSUME NEW kind \in {"text", "tool_use", "thinking"}, SendBlockStart(kind)
        PROVE  TypeInv' /\ UNCHANGED modeVars /\ req' = req
    <2> DEFINE u == [up EXCEPT !.phase = "block", !.kind = kind, !.pieces = 0]
    <2>1. \E ev : Send(ev, u)  BY <1>5 DEF SendBlockStart
    <2> DEFINE v == [up EXCEPT !.phase = "block"]
               w == [v EXCEPT !.kind = kind]
               x == [w EXCEPT !.pieces = 0]
    <2>2. u = x  OBVIOUS
    <2> HIDE DEF u
    <2>3. v \in Streams /\ v.blocks = up.blocks  BY <1>1 DEF Streams
    <2> HIDE DEF v
    <2>4. w \in Streams /\ w.blocks = up.blocks  BY <2>3 DEF Streams
    <2> HIDE DEF w
    <2>5. u \in Streams /\ u.blocks = up.blocks  BY <2>4, <2>2 DEF Streams
    <2>6. up.blocks < MaxBlocks  BY <1>5 DEF SendBlockStart
    <2> QED  BY <2>5, <2>1, <2>6, SendTyped
  <1>6. CASE SendBlockDelta
    <2> DEFINE pieces == up.pieces + 1
               u == [up EXCEPT !.pieces = pieces]
    <2>1. pieces \in 0..2  BY <1>1, <1>6 DEF SendBlockDelta, Streams
    <2>2. \E ev : Send(ev, u)  BY <1>6 DEF SendBlockDelta
    <2> HIDE DEF pieces
    <2>3. u \in Streams /\ u.phase = up.phase /\ u.blocks = up.blocks
      BY <1>1, <2>1 DEF Streams
    <2> HIDE DEF u
    <2> QED  BY <2>2, <2>3, SendTyped DEF TypeInv
  <1>7. CASE SendBlockStop
    <2> DEFINE blocks == up.blocks + 1
               u == [up EXCEPT !.phase = "body", !.kind = "none", !.blocks = blocks, !.pieces = 0]
    <2>1. blocks \in 0..MaxBlocks
      BY <1>1, <1>7, BridgeAssumption DEF SendBlockStop, Streams, TypeInv
    <2>2. \E ev : Send(ev, u)  BY <1>7 DEF SendBlockStop
    <2> HIDE DEF blocks
    <2> DEFINE v == [up EXCEPT !.phase = "body"]
               w == [v EXCEPT !.kind = "none"]
               x == [w EXCEPT !.blocks = blocks]
               y == [x EXCEPT !.pieces = 0]
    <2>3. u = y  OBVIOUS
    <2> HIDE DEF u
    <2>4. v \in Streams /\ v.phase = "body"  BY <1>1 DEF Streams
    <2> HIDE DEF v
    <2>5. w \in Streams /\ w.phase = "body"  BY <2>4 DEF Streams
    <2> HIDE DEF w
    <2>6. x \in Streams /\ x.phase = "body"  BY <2>1, <2>5 DEF Streams
    <2> HIDE DEF x
    <2>7. u \in Streams /\ u.phase = "body"  BY <2>6, <2>3 DEF Streams
    <2> QED  BY <2>2, <2>7, SendTyped
  <1>8. CASE SendMessageDelta
    <2> DEFINE u == [up EXCEPT !.phase = "stop"]
    <2>1. u \in Streams /\ u.phase = "stop"  BY <1>1 DEF Streams
    <2>2. \E ev : Send(ev, u)  BY <1>8 DEF SendMessageDelta
    <2> HIDE DEF u
    <2> QED  BY <2>1, <2>2, SendTyped
  <1>9. CASE SendMessageStop
    <2> DEFINE u == [up EXCEPT !.phase = "over"]
    <2>1. u \in Streams /\ u.phase = "over"  BY <1>1 DEF Streams
    <2>2. Send(Plain("message_stop"), u)  BY <1>9 DEF SendMessageStop
    <2> HIDE DEF u
    <2> QED  BY <2>1, <2>2, SendTyped
  <1>10. CASE SendProxyDelta
    <2> DEFINE pieces == up.pieces + 1
               u == [up EXCEPT !.pieces = pieces]
    <2>1. pieces \in 0..2  BY <1>1, <1>10 DEF SendProxyDelta, Streams
    <2>2. \E ev : Send(ev, u)  BY <1>10 DEF SendProxyDelta
    <2> HIDE DEF pieces
    <2>3. u \in Streams /\ u.phase = up.phase /\ u.blocks = up.blocks
      BY <1>1, <2>1 DEF Streams
    <2> HIDE DEF u
    <2> QED  BY <2>2, <2>3, SendTyped DEF TypeInv
  <1>11. ASSUME NEW kind \in {"text", "message"}, SendProxyDone(kind)
        PROVE  TypeInv' /\ UNCHANGED modeVars /\ req' = req
    <2> DEFINE u == [up EXCEPT !.phase = "over"]
    <2>1. u \in Streams /\ u.phase = "over"  BY <1>1 DEF Streams
    <2>2. \E ev : Send(ev, u)  BY <1>11 DEF SendProxyDone
    <2> HIDE DEF u
    <2> QED  BY <2>1, <2>2, SendTyped
  <1> QED
    BY <1>2, <1>3, <1>4, <1>5, <1>6, <1>7, <1>8, <1>9, <1>10, <1>11 DEF UpstreamStep
----------------------------------------------------------------------------
LEMMA InitBridgeInv == Init => BridgeInv
  <1> SUFFICES ASSUME Init PROVE BridgeInv  OBVIOUS
  <1>1. /\ has \in Credentials /\ env \in Overrides /\ mode = LoadMode(has, env, "none")
        /\ file = "none" /\ chosen = "none" /\ req = NoRequest /\ up = NoStream
        /\ switches = 0 /\ crashes = 0
    BY DEF Init
  <1>2. mode \in has /\ mode \in Modes  BY <1>1, LoadedMode
  <1>3. TypeOK  BY <1>1, <1>2, NothingTyped, TypesSplit, BridgeAssumption
  <1>4. up.phase = "start"  BY <1>1 DEF NoStream
  <1>5. "none" \notin has  BY <1>1, BridgeAssumption
  <1>6. req.pc = "idle"  BY <1>1 DEF NoRequest
  <1> QED
    BY <1>1, <1>2, <1>3, <1>4, <1>5, <1>6
       DEF BridgeInv, TypeInv, TransportIsConfigured, ChosenModeStays

\* The mode stays, and the request's transport, or it is the mode in force.
LEMMA RequestKeeps ==
  ASSUME BridgeInv, TypeInv', UNCHANGED modeVars,
         \/ req'.pc = "idle"
         \/ req'.via = mode
         \/ req.pc # "idle" /\ req'.via = req.via
         \/ req' = req
  PROVE  BridgeInv'
  BY DEF BridgeInv, modeVars, TransportIsConfigured, ChosenModeStays

LEMMA NextBridgeInv == BridgeInv /\ [Next]_vars => BridgeInv'
  <1> SUFFICES ASSUME BridgeInv, [Next]_vars PROVE BridgeInv'  OBVIOUS
  <1>1. TypeInv  BY DEF BridgeInv
  <1>2. ASSUME NEW m \in Modes, SetMode(m) PROVE BridgeInv'
    <2>1. /\ m \in has /\ mode' = m /\ UNCHANGED <<has, env, crashes, req, up>>
          /\ \/ file' = m /\ chosen' = m
             \/ file' = file /\ chosen' = "none"
      BY <1>2 DEF SetMode
    <2>2. switches' \in 0..MaxSwitches
      BY <1>1, <1>2, TypesSplit, BridgeAssumption DEF SetMode, TypeInv
    <2>3. TypeOK'
      BY <1>1, <2>1, <2>2, TypesSplit DEF TypeInv, TypeOK, ReqOK, Streams
    <2>4. "none" \notin has  BY <1>1, TypesSplit, BridgeAssumption DEF TypeInv
    <2> QED
      BY <2>1, <2>3, <2>4 DEF BridgeInv, TypeInv, TransportIsConfigured, ChosenModeStays
  <1>3. CASE Restart
    <2>1. /\ has' \in Credentials /\ env' \in Overrides /\ mode' = LoadMode(has', env', file')
          /\ \/ file' = file /\ chosen' = chosen
             \/ file' = "none" /\ chosen' = "none"
          /\ req' = NoRequest /\ up' = NoStream /\ switches' = switches
      BY <1>3 DEF Restart
    <2>2. /\ file' \in Modes \cup {"none"} /\ chosen' \in Modes \cup {"none"}
          /\ (chosen' # "none" => file' = chosen')
      BY <1>1, <2>1, TypesSplit DEF BridgeInv, TypeInv
    <2>3. /\ mode' \in has' /\ mode' \in Modes
          /\ env' \notin has' /\ file' \in has' => mode' = file'
      BY <2>1, <2>2, LoadedMode
    <2>4. "none" \notin has'  BY <2>1, BridgeAssumption
    <2>5. crashes' \in 0..MaxCrashes
      BY <1>1, <1>3, TypesSplit, BridgeAssumption DEF Restart, TypeInv
    <2>6. switches' \in 0..MaxSwitches  BY <1>1, <2>1, TypesSplit DEF TypeInv
    <2>7. ReqOK(req') /\ up' \in Streams  BY <2>1, NothingTyped
    <2>8. TypeOK'
      BY <2>1, <2>2, <2>3, <2>5, <2>6, <2>7 DEF TypeOK, ReqOK, Streams
    <2>9. req'.pc = "idle" /\ up'.phase = "start"  BY <2>1 DEF NoRequest, NoStream
    <2> QED
      BY <2>2, <2>3, <2>4, <2>8, <2>9
         DEF BridgeInv, TypeInv, TransportIsConfigured, ChosenModeStays
  <1>4. ASSUME NEW streaming \in BOOLEAN, Dispatch(streaming) PROVE BridgeInv'
    <2> DEFINE r == [NoRequest EXCEPT !.pc = "post", !.streaming = streaming, !.via = mode]
    <2>1. req' = r /\ up' = up /\ UNCHANGED modeVars  BY <1>4 DEF Dispatch, streamVars
    <2>2. mode \in Modes /\ up \in Streams  BY <1>1, TypesSplit DEF TypeInv
    <2> DEFINE v == [NoRequest EXCEPT !.pc = "post"]
               w == [v EXCEPT !.streaming = streaming]
               x == [w EXCEPT !.via = mode]
    <2>3. NoRequest \in Requests(ErrorAnswer)
      BY BridgeAssumption DEF NoRequest, Requests, PCs, Modes
    <2>4. v \in Requests(ErrorAnswer) /\ r = x  BY <2>3 DEF Requests, PCs
    <2> HIDE DEF v
    <2>5. w \in Requests(ErrorAnswer)  BY <2>4 DEF Requests
    <2> HIDE DEF w
    <2>6. r \in Requests(ErrorAnswer) /\ r.via = mode  BY <2>2, <2>4, <2>5 DEF Requests
    <2>7. ReqOK(r) /\ r.via = mode  BY <2>6, AnswersTyped, RequestTyped
    <2> HIDE DEF r
    <2>8. TypeInv'  BY <1>1, <2>1, <2>2, <2>7, MoveTyped DEF TypeInv
    <2> QED  BY <2>1, <2>7, <2>8, RequestKeeps
  <1>5. CASE PostStep
    <2>1. req.pc # "idle"
      BY <1>5 DEF PostStep, Refused, PostAnsweredJson, PostAccepted, PostAnsweredEvents
    <2> QED  BY <1>1, <1>5, <2>1, PostTyped, RequestKeeps
  <1>6. CASE OpenStep
    <2>1. req.pc # "idle"
      BY <1>6 DEF OpenStep, OpenAgain, OpenRefused, OpenedJson, OpenedEvents
    <2> QED  BY <1>1, <1>6, <2>1, OpenTyped, RequestKeeps
  <1>7. CASE ReadStep
    <2>1. req.pc # "idle"  BY <1>7 DEF ReadStep, EndOfStream, ReadFails
    <2> QED  BY <1>1, <1>7, <2>1, ReadTyped, RequestKeeps
  <1>8. CASE Deliver
    <2>1. req' = NoRequest /\ up' = NoStream /\ UNCHANGED modeVars  BY <1>8 DEF Deliver
    <2>2. req'.pc = "idle" /\ up'.phase = "start"  BY <2>1 DEF NoRequest, NoStream
    <2>3. ReqOK(req') /\ up' \in Streams  BY <2>1, NothingTyped
    <2>4. TypeInv'  BY <1>1, <2>1, <2>2, <2>3, MoveTyped
    <2> QED  BY <2>1, <2>2, <2>4, RequestKeeps
  <1>9. CASE UpstreamStep  BY <1>1, <1>9, UpstreamTyped, RequestKeeps
  <1>10. CASE UNCHANGED vars
    BY <1>10 DEF vars, BridgeInv, TypeInv, TypeOK, TransportIsConfigured, ChosenModeStays
  <1> QED
    BY <1>2, <1>3, <1>4, <1>5, <1>6, <1>7, <1>8, <1>9, <1>10 DEF Next

\* The inductive invariant: the mode's file says what was chosen last.
THEOREM ModesAreSound == Spec => []BridgeInv
  BY InitBridgeInv, NextBridgeInv, PTL DEF Spec

\* Every reachable state of the bridge is well typed.
THEOREM BridgeTypes == Spec => []TypeOK
  <1>1. BridgeInv => TypeOK  BY DEF BridgeInv, TypeInv
  <1> QED  BY <1>1, ModesAreSound, PTL

\* A request is never sent by a transport without credentials
\* (bridge/bridge.py, _load_mode, set_mode and messages_handler).
THEOREM TransportsAreConfigured == Spec => []TransportIsConfigured
  <1>1. BridgeInv => TransportIsConfigured  BY DEF BridgeInv
  <1> QED  BY <1>1, ModesAreSound, PTL

\* A mode that was chosen and saved outlives every restart that can still
\* serve it (bridge/bridge.py, _load_mode and set_mode).
THEOREM ChosenModesStay == Spec => []ChosenModeStays
  <1>1. BridgeInv => ChosenModeStays  BY DEF BridgeInv
  <1> QED  BY <1>1, ModesAreSound, PTL
----------------------------------------------------------------------------
(***************************************************************************)
(* Induction, and the concatenation of many sequences (FlattenSeq).        *)
(***************************************************************************)

\* Induction on a set, for facts about numbers.
LEMMA SetInduction ==
  ASSUME NEW S, 0 \in S, \A n \in Nat : n \in S => n + 1 \in S
  PROVE  Nat \subseteq S
  <1> DEFINE T == Nat \ S
  <1> SUFFICES ASSUME T # {} PROVE FALSE  OBVIOUS
  <1>1. PICK x \in T : \A y \in T : ~ (<<y, x>> \in OpToRel(<, Nat))
    <2>1. IsWellFoundedOn(OpToRel(<, Nat), Nat)  BY NatLessThanWellFounded
    <2>2. T \subseteq Nat  OBVIOUS
    <2> HIDE DEF T
    <2> QED  BY <2>1, <2>2, WFMin
  <1>2. x \in Nat /\ x # 0  OBVIOUS
  <1>3. x - 1 \in Nat /\ x - 1 \in T  BY <1>2
  <1>4. <<x - 1, x>> \in OpToRel(<, Nat)  BY <1>2, <1>3 DEF OpToRel
  <1> QED  BY <1>1, <1>3, <1>4

\* f concatenates the first n sequences of F step by step.
Flattens(f, F, n) == f = [i \in 1..n |-> IF i = 1 THEN F[i] ELSE f[i - 1] \o F[i]]

LEMMA FlattensSteps ==
  ASSUME NEW f, NEW F, NEW n \in Nat, Flattens(f, F, n)
  PROVE  \A i \in 1..n : f[i] = IF i = 1 THEN F[i] ELSE f[i - 1] \o F[i]
  BY DEF Flattens

LEMMA FlattensExist ==
  ASSUME NEW F, NEW n \in Nat PROVE \E f : Flattens(f, F, n)
  <1> DEFINE S == {k \in Nat : \E f : Flattens(f, F, k)}
  <1>1. 0 \in S
    <2>1. Flattens([i \in 1..0 |-> 0], F, 0)  BY DEF Flattens
    <2> QED  BY <2>1
  <1>2. ASSUME NEW k \in Nat, k \in S PROVE k + 1 \in S
    <2>1. PICK f : Flattens(f, F, k)  BY <1>2
    <2> DEFINE g == [i \in 1..(k + 1) |-> IF i = 1 THEN F[i] ELSE f[i - 1] \o F[i]]
    <2>2. \A i \in 1..k : g[i] = f[i]
      <3>1. \A i \in 1..k : f[i] = IF i = 1 THEN F[i] ELSE f[i - 1] \o F[i]
        BY <2>1 DEF Flattens
      <3>2. \A i \in 1..k : i \in 1..(k + 1)  OBVIOUS
      <3> QED  BY <3>1, <3>2
    <2>3. Flattens(g, F, k + 1)
      <3>1. \A i \in 1..(k + 1) : i # 1 => i - 1 \in 1..k  OBVIOUS
      <3>2. ASSUME NEW i \in 1..(k + 1)
            PROVE  (IF i = 1 THEN F[i] ELSE f[i - 1] \o F[i])
                     = (IF i = 1 THEN F[i] ELSE g[i - 1] \o F[i])
        BY <2>2, <3>1
      <3>3. g = [i \in 1..(k + 1) |-> IF i = 1 THEN F[i] ELSE g[i - 1] \o F[i]]
        BY <3>2, Zenon
      <3> HIDE DEF g
      <3> QED  BY <3>3 DEF Flattens
    <2> QED  BY <2>3
  <1> HIDE DEF S
  <1>3. Nat \subseteq S  BY <1>1, <1>2, SetInduction
  <1> QED  BY <1>3 DEF S

\* What is concatenated does not depend on what follows.
LEMMA FlattensUnique ==
  ASSUME NEW F, NEW G, NEW n \in Nat, NEW m \in Nat, n <= m, NEW f, NEW g,
         Flattens(f, F, n), Flattens(g, G, m), \A i \in 1..n : F[i] = G[i]
  PROVE  \A i \in 1..n : f[i] = g[i]
  <1>a. \A i \in 1..n : f[i] = IF i = 1 THEN F[i] ELSE f[i - 1] \o F[i]  BY FlattensSteps
  <1>b. \A i \in 1..m : g[i] = IF i = 1 THEN G[i] ELSE g[i - 1] \o G[i]  BY FlattensSteps
  <1> DEFINE S == {k \in Nat : k \in 1..n => f[k] = g[k]}
  <1>1. 0 \in S  OBVIOUS
  <1>2. ASSUME NEW k \in Nat, k \in S PROVE k + 1 \in S
    <2> SUFFICES ASSUME k + 1 \in 1..n PROVE f[k + 1] = g[k + 1]  OBVIOUS
    <2>1. CASE k = 0
      <3>1. 1 \in 1..n /\ 1 \in 1..m /\ k + 1 = 1  BY <2>1
      <3>2. f[1] = F[1] /\ g[1] = G[1]  BY <3>1, <1>a, <1>b
      <3> QED  BY <3>1, <3>2
    <2>2. CASE k # 0
      <3>1. k \in 1..n /\ k + 1 \in 1..n /\ k + 1 \in 1..m /\ k + 1 # 1 /\ (k + 1) - 1 = k
        BY <2>2
      <3>2. f[k + 1] = f[(k + 1) - 1] \o F[k + 1]  BY <3>1, <1>a
      <3>3. g[k + 1] = g[(k + 1) - 1] \o G[k + 1]  BY <3>1, <1>b
      <3>4. f[k] = g[k] /\ F[k + 1] = G[k + 1]  BY <1>2, <3>1
      <3> QED  BY <3>1, <3>2, <3>3, <3>4
    <2> QED  BY <2>1, <2>2
  <1> HIDE DEF S
  <1>3. Nat \subseteq S  BY <1>1, <1>2, SetInduction
  <1> QED  BY <1>3 DEF S

LEMMA FlattenIsLast ==
  ASSUME NEW n \in Nat \ {0}, NEW F, F = [i \in 1..n |-> F[i]], NEW f, Flattens(f, F, n)
  PROVE  FlattenSeq(F) = f[n]
  <1>1. Len(F) = n  OBVIOUS
  <1> DEFINE g == CHOOSE h : h = [i \in 1..n |-> IF i = 1 THEN F[i] ELSE h[i - 1] \o F[i]]
  <1>2. FlattenSeq(F) = g[n]  BY <1>1 DEF FlattenSeq
  <1>4. Flattens(g, F, n)  BY DEF Flattens
  <1> HIDE DEF g
  <1>5. \A i \in 1..n : g[i] = f[i]  BY <1>4, FlattensUnique
  <1> QED  BY <1>2, <1>5

\* G is the first n elements of F.
Cuts(G, F, n) == G = [i \in 1..n |-> F[i]]

LEMMA FlattenMore ==
  ASSUME NEW T, NEW n, n \in Nat, NEW m, m = n + 1, NEW F, NEW G,
         Cuts(F, F, m), F[m] \in Seq(T), Cuts(G, F, n)
  PROVE  FlattenSeq(F) = FlattenSeq(G) \o F[m]
  <1>0. m \in Nat \ {0}  OBVIOUS
  <1>1. PICK f : Flattens(f, F, m)  BY <1>0, FlattensExist
  <1>2. FlattenSeq(F) = f[m]
    <2>1. F = [i \in 1..m |-> F[i]]  BY DEF Cuts
    <2> QED  BY <1>0, <1>1, <2>1, FlattenIsLast
  <1>a. \A i \in 1..m : f[i] = IF i = 1 THEN F[i] ELSE f[i - 1] \o F[i]
    BY <1>1 DEF Flattens
  <1>3. CASE n = 0
    <2>1. FlattenSeq(G) = <<>>  BY <1>3 DEF FlattenSeq, Cuts
    <2>3. m = 1 /\ 1 \in 1..m  BY <1>3
    <2>4. f[m] = F[m]  BY <1>a, <2>3
    <2>5. <<>> \o F[m] = F[m]  OBVIOUS
    <2> QED  BY <1>2, <2>1, <2>4, <2>5
  <1>4. CASE n # 0
    <2>1. PICK g : Flattens(g, G, n)  BY FlattensExist
    <2>2. FlattenSeq(G) = g[n]
      <3>1. G = [i \in 1..n |-> G[i]]  BY DEF Cuts
      <3> QED  BY <1>4, <2>1, <3>1, FlattenIsLast
    <2>3. \A i \in 1..n : G[i] = F[i]  BY DEF Cuts
    <2>4. n <= m /\ n \in 1..n /\ m \in 1..m /\ m # 1 /\ m - 1 = n  BY <1>4
    <2>5. \A i \in 1..n : g[i] = f[i]
      BY <1>0, <1>1, <2>1, <2>3, <2>4, FlattensUnique
    <2>6. f[m] = f[m - 1] \o F[m]  BY <1>a, <2>4
    <2> QED  BY <1>2, <2>2, <2>4, <2>5, <2>6
  <1> QED  BY <1>3, <1>4

\* A sequence of sequences, one longer.
LEMMA FlattenOneMore ==
  ASSUME NEW T, NEW n \in Nat, NEW F \in [1..(n + 1) -> Seq(T)]
  PROVE  FlattenSeq(F) = FlattenSeq([i \in 1..n |-> F[i]]) \o F[n + 1]
  <1>1. PICK m : m = n + 1  OBVIOUS
  <1>2. PICK G : G = [i \in 1..n |-> F[i]]  OBVIOUS
  <1>3. Cuts(G, F, n) /\ Cuts(F, F, m) /\ F[m] \in Seq(T)  BY <1>1, <1>2 DEF Cuts
  <1>4. FlattenSeq(F) = FlattenSeq(G) \o F[m]  BY ZenonT(60), <1>1, <1>3, FlattenMore
  <1> QED  BY <1>1, <1>2, <1>4

LEMMA FlattenNone == ASSUME NEW F, F = <<>> PROVE FlattenSeq(F) = <<>>
  BY DEF FlattenSeq

LEMMA ConcatTyped ==
  ASSUME NEW T, NEW s \in Seq(T), NEW t \in Seq(T) PROVE s \o t \in Seq(T)
  OBVIOUS

LEMMA FlattenTyped ==
  ASSUME NEW T, NEW n \in Nat, NEW F \in [1..n -> Seq(T)]
  PROVE  FlattenSeq(F) \in Seq(T)
  <1> DEFINE S == {k \in Nat : \A G \in [1..k -> Seq(T)] : FlattenSeq(G) \in Seq(T)}
  <1>1. 0 \in S
    <2>1. \A G \in [1..0 -> Seq(T)] : G = <<>>  OBVIOUS
    <2> QED  BY <2>1, FlattenNone
  <1>2. ASSUME NEW k \in Nat, k \in S PROVE k + 1 \in S
    <2> SUFFICES ASSUME NEW G \in [1..(k + 1) -> Seq(T)] PROVE FlattenSeq(G) \in Seq(T)
      OBVIOUS
    <2>1. [i \in 1..k |-> G[i]] \in [1..k -> Seq(T)]  OBVIOUS
    <2>2. FlattenSeq([i \in 1..k |-> G[i]]) \in Seq(T)  BY <1>2, <2>1
    <2>3. FlattenSeq(G) = FlattenSeq([i \in 1..k |-> G[i]]) \o G[k + 1]  BY FlattenOneMore
    <2>4. G[k + 1] \in Seq(T)  OBVIOUS
    <2> QED  BY <2>2, <2>3, <2>4, ConcatTyped
  <1> HIDE DEF S
  <1>3. Nat \subseteq S  BY <1>1, <1>2, SetInduction
  <1> QED  BY <1>3 DEF S
----------------------------------------------------------------------------
(***************************************************************************)
(* The assembly of a stream, event by event (FoldLeft).                    *)
(***************************************************************************)

\* h folds Assemble over the places of s in S, from the left.
Folds(h, s, S) ==
  h = [t \in SUBSET S |->
        IF t = {} THEN NoAssembly ELSE Assemble(h[t \ {Max(t)}], s[Max(t)])]

LEMMA AssemblyIsFold ==
  ASSUME NEW s PROVE Assembly(s) = (CHOOSE h : Folds(h, s, DOMAIN s))[DOMAIN s]
  BY DEF Assembly, FoldLeft, MapThenFoldSet, Folds

LEMMA MaxIsTop ==
  ASSUME NEW k \in Nat, NEW t \in SUBSET (1..k), k \in t PROVE Max(t) = k
  <1>1. \A y \in t : k >= y  OBVIOUS
  <1>2. \A x \in t : (\A y \in t : x >= y) => x = k  OBVIOUS
  <1> QED  BY <1>1, <1>2 DEF Max

LEMMA BelowTop ==
  ASSUME NEW k \in Nat, NEW t \in SUBSET (1..(k + 1)) PROVE t \ {Max(t)} \in SUBSET (1..k)
  <1>1. CASE k + 1 \in t
    <2>1. Max(t) = k + 1  BY <1>1, MaxIsTop
    <2> QED  BY <2>1
  <1>2. CASE k + 1 \notin t
    <2>1. \A i \in t : i \in 1..(k + 1) /\ i # k + 1  BY <1>2
    <2>2. \A i \in t : i \in 1..k  BY <2>1
    <2> QED  BY <2>2
  <1> QED  BY <1>1, <1>2

LEMMA FoldsExist ==
  ASSUME NEW s, NEW n \in Nat PROVE \E h : Folds(h, s, 1..n)
  <1> DEFINE S == {k \in Nat : \E h : Folds(h, s, 1..k)}
  <1>1. 0 \in S
    <2> DEFINE h == [t \in SUBSET (1..0) |-> NoAssembly]
    <2>1. \A t \in SUBSET (1..0) : t = {}  OBVIOUS
    <2>2. Folds(h, s, 1..0)  BY <2>1 DEF Folds
    <2> QED  BY <2>2
  <1>2. ASSUME NEW k \in Nat, k \in S PROVE k + 1 \in S
    <2>1. PICK h : Folds(h, s, 1..k)  BY <1>2
    <2> DEFINE Step(t, u) == IF t = {} THEN NoAssembly ELSE Assemble(u, s[Max(t)])
               H == [t \in SUBSET (1..(k + 1)) |-> Step(t, h[t \ {Max(t)}])]
    <2>2. \A u \in SUBSET (1..k) : h[u] = Step(u, h[u \ {Max(u)}])  BY <2>1 DEF Folds
    <2>3. \A u \in SUBSET (1..k) : u \in SUBSET (1..(k + 1))  OBVIOUS
    <2>4. \A u \in SUBSET (1..k) : H[u] = h[u]  BY <2>2, <2>3
    <2>5. \A t \in SUBSET (1..(k + 1)) : t \ {Max(t)} \in SUBSET (1..k)  BY BelowTop
    <2>6. \A t \in SUBSET (1..(k + 1)) : H[t \ {Max(t)}] = h[t \ {Max(t)}]
      <3> HIDE DEF H
      <3> QED  BY <2>4, <2>5
    <2>7. \A t \in SUBSET (1..(k + 1)) : H[t] = Step(t, h[t \ {Max(t)}])  OBVIOUS
    <2>8. \A t \in SUBSET (1..(k + 1)) : H[t] = Step(t, H[t \ {Max(t)}])  
      <3> HIDE DEF H, Step
      <3> QED  BY <2>6, <2>7
    <2>9. H = [t \in SUBSET (1..(k + 1)) |-> H[t]]  OBVIOUS
    <2>10. Folds(H, s, 1..(k + 1))
      <3> HIDE DEF H
      <3> QED  BY <2>8, <2>9, Zenon DEF Folds
    <2> HIDE DEF H
    <2> QED  BY <2>10
  <1> HIDE DEF S
  <1>3. Nat \subseteq S  BY <1>1, <1>2, SetInduction
  <1> QED  BY <1>3 DEF S

LEMMA FoldsStep ==
  ASSUME NEW s, NEW n \in Nat, NEW h, Folds(h, s, 1..n), NEW k \in Nat, k + 1 <= n
  PROVE  h[1..(k + 1)] = Assemble(h[1..k], s[k + 1])
  <1> DEFINE t == 1..(k + 1)
  <1>1. t \in SUBSET (1..n) /\ t # {} /\ k + 1 \in t  OBVIOUS
  <1>2. Max(t) = k + 1  BY MaxIsTop
  <1>3. t \ {k + 1} = 1..k  OBVIOUS
  <1> HIDE DEF t
  <1>4. h[t] = Assemble(h[t \ {Max(t)}], s[Max(t)])  BY <1>1 DEF Folds
  <1> QED  BY <1>2, <1>3, <1>4 DEF t

LEMMA FoldsBase ==
  ASSUME NEW s, NEW S, NEW h, Folds(h, s, S) PROVE h[{}] = NoAssembly
  BY DEF Folds

\* What is folded does not depend on what follows.
LEMMA FoldsUnique ==
  ASSUME NEW s, NEW r, NEW n \in Nat, NEW m \in Nat, n <= m, NEW h, NEW g,
         Folds(h, s, 1..n), Folds(g, r, 1..m), \A i \in 1..n : s[i] = r[i]
  PROVE  h[1..n] = g[1..n]
  <1> DEFINE S == {k \in Nat : k <= n => h[1..k] = g[1..k]}
  <1>1. 0 \in S
    <2>1. h[{}] = NoAssembly /\ g[{}] = NoAssembly  BY FoldsBase
    <2>2. 1..0 = {}  OBVIOUS
    <2> QED  BY <2>1, <2>2
  <1>2. ASSUME NEW k \in Nat, k \in S PROVE k + 1 \in S
    <2> SUFFICES ASSUME k + 1 <= n PROVE h[1..(k + 1)] = g[1..(k + 1)]  OBVIOUS
    <2>1. k <= n /\ k + 1 <= m /\ k + 1 \in 1..n  OBVIOUS
    <2>2. h[1..(k + 1)] = Assemble(h[1..k], s[k + 1])  BY FoldsStep
    <2>3. g[1..(k + 1)] = Assemble(g[1..k], r[k + 1])  BY <2>1, FoldsStep
    <2>4. h[1..k] = g[1..k] /\ s[k + 1] = r[k + 1]  BY <1>2, <2>1
    <2> QED  BY <2>2, <2>3, <2>4
  <1> HIDE DEF S
  <1>3. Nat \subseteq S  BY <1>1, <1>2, SetInduction
  <1> QED  BY <1>3 DEF S

LEMMA AssemblyStarts == Assembly(<<>>) = NoAssembly
  <1>1. DOMAIN <<>> = 1..0 /\ 1..0 = {}  OBVIOUS
  <1>2. \E h : Folds(h, <<>>, 1..0)  BY FoldsExist
  <1>3. Folds(CHOOSE h : Folds(h, <<>>, 1..0), <<>>, 1..0)  BY <1>2
  <1>4. PICK g : g = CHOOSE h : Folds(h, <<>>, 1..0)  OBVIOUS
  <1>5. g[{}] = NoAssembly  BY <1>3, <1>4, FoldsBase
  <1>6. Assembly(<<>>) = (CHOOSE h : Folds(h, <<>>, DOMAIN <<>>))[DOMAIN <<>>]  BY AssemblyIsFold
  <1> QED  BY <1>1, <1>4, <1>5, <1>6

LEMMA AssemblyIsLast ==
  ASSUME NEW s, NEW n \in Nat, DOMAIN s = 1..n
  PROVE  \E h : Folds(h, s, 1..n) /\ Assembly(s) = h[1..n]
  <1>1. \E h : Folds(h, s, 1..n)  BY FoldsExist
  <1>2. Folds(CHOOSE h : Folds(h, s, 1..n), s, 1..n)  BY <1>1
  <1>3. Assembly(s) = (CHOOSE h : Folds(h, s, 1..n))[1..n]  BY AssemblyIsFold
  <1> QED  BY <1>2, <1>3

\* One more event is one more turn of the loop.
LEMMA AssemblyGrows ==
  ASSUME NEW T, NEW s \in Seq(T), NEW e \in T
  PROVE  Assembly(Append(s, e)) = Assemble(Assembly(s), e)
  <1>1. PICK n \in Nat : n = Len(s)  OBVIOUS
  <1>2. PICK r : r = Append(s, e)  OBVIOUS
  <1>3. DOMAIN s = 1..n /\ DOMAIN r = 1..(n + 1) /\ n + 1 \in Nat /\ n <= n + 1 /\ n + 1 <= n + 1
    BY <1>1, <1>2
  <1>4. (\A i \in 1..n : s[i] = r[i]) /\ r[n + 1] = e  BY <1>1, <1>2
  <1>5. PICK h : Folds(h, s, 1..n) /\ Assembly(s) = h[1..n]  BY <1>3, AssemblyIsLast
  <1>6. PICK g : Folds(g, r, 1..(n + 1)) /\ Assembly(r) = g[1..(n + 1)]  BY <1>3, AssemblyIsLast
  <1>7. h[1..n] = g[1..n]  BY <1>3, <1>4, <1>5, <1>6, FoldsUnique
  <1>8. g[1..(n + 1)] = Assemble(g[1..n], r[n + 1])  BY ZenonT(60), <1>3, <1>6, FoldsStep
  <1> QED  BY <1>2, <1>4, <1>5, <1>6, <1>7, <1>8
----------------------------------------------------------------------------
(***************************************************************************)
(* What the events of a stream say of a message.                           *)
(***************************************************************************)

\* The events of a stream and the blocks of a message, with their types.
Kinds == {"none", "text", "tool_use", "thinking", "message"}

Chunks == {"text", "{", "}"}

EventSet == [type : AnthropicTypes \cup ProxyTypes \cup {"error", "nothing"}, index : Nat,
             kind : Kinds, data : Seq(Chunks), stop : {"none", "end_turn"}]

BlockSet == [kind : Kinds, data : Seq(Chunks), unparsed : BOOLEAN]

\* The events s give the blocks bs: each is started, under its index and with
\* its kind, and its data is what the events add to it.
Describes(s, bs) ==
  /\ s \in Seq(EventSet)
  /\ bs \in Seq(BlockSet)
  /\ {ev.index : ev \in Starts(s)} = 0..(Len(bs) - 1)
  /\ \A ev \in Starts(s) : ev.kind = bs[ev.index + 1].kind
  /\ \A x \in Nat : DataOf(s, x) = IF x < Len(bs) THEN bs[x + 1].data ELSE <<>>

LEMMA ToSetGrows ==
  ASSUME NEW T, NEW s \in Seq(T), NEW e \in T
  PROVE  ToSet(Append(s, e)) = ToSet(s) \cup {e}
  <1>1. PICK n \in Nat : n = Len(s)  OBVIOUS
  <1>2. PICK r : r = Append(s, e)  OBVIOUS
  <1>3. DOMAIN s = 1..n /\ DOMAIN r = 1..(n + 1)  BY <1>1, <1>2
  <1>4. (\A i \in 1..n : r[i] = s[i]) /\ r[n + 1] = e  BY <1>1, <1>2
  <1>5. 1..(n + 1) = 1..n \cup {n + 1}  OBVIOUS
  <1>6. {r[i] : i \in 1..(n + 1)} = {r[i] : i \in 1..n} \cup {r[n + 1]}  BY <1>5
  <1>7. {r[i] : i \in 1..n} = {s[i] : i \in 1..n}  BY <1>4
  <1> QED  BY <1>2, <1>3, <1>4, <1>6, <1>7 DEF ToSet

LEMMA PieceTyped ==
  ASSUME NEW ev \in EventSet, NEW x PROVE Piece(ev, x) \in Seq(Chunks)
  <1>1. ev.data \in Seq(Chunks) /\ <<>> \in Seq(Chunks)  BY DEF EventSet
  <1> QED  BY <1>1 DEF Piece

LEMMA StartsGrow ==
  ASSUME NEW T, NEW s \in Seq(T), NEW e \in T
  PROVE  Starts(Append(s, e)) =
           Starts(s) \cup (IF e.type = "content_block_start" THEN {e} ELSE {})
  BY ToSetGrows DEF Starts

\* One more event adds its piece.
LEMMA DataGrows ==
  ASSUME NEW s \in Seq(EventSet), NEW e \in EventSet, NEW x \in Nat
  PROVE  DataOf(Append(s, e), x) = DataOf(s, x) \o Piece(e, x)
  <1> DEFINE n == Len(s)
             r == Append(s, e)
             F == [i \in DOMAIN r |-> Piece(r[i], x)]
  <1>1. n \in Nat /\ DOMAIN r = 1..(n + 1) /\ DOMAIN s = 1..n  OBVIOUS
  <1>2. \A i \in 1..n : r[i] = s[i]  OBVIOUS
  <1>3. r[n + 1] = e  OBVIOUS
  <1>4. \A i \in 1..(n + 1) : r[i] \in EventSet  BY <1>1
  <1>5. \A ev \in EventSet : Piece(ev, x) \in Seq(Chunks)  BY PieceTyped
  <1> HIDE DEF n, r
  <1>6. F \in [1..(n + 1) -> Seq(Chunks)]  BY <1>1, <1>4, <1>5
  <1>7. F[n + 1] = Piece(e, x)  BY <1>1, <1>3
  <1>8. [i \in 1..n |-> F[i]] = [i \in DOMAIN s |-> Piece(s[i], x)]
    <2>1. \A i \in 1..n : i \in DOMAIN r  BY <1>1
    <2>2. \A i \in 1..n : F[i] = Piece(s[i], x)  BY <1>2, <2>1
    <2> HIDE DEF F
    <2> QED  BY <1>1, <2>2
  <1>9. FlattenSeq(F) = FlattenSeq([i \in 1..n |-> F[i]]) \o F[n + 1]
    <2> HIDE DEF F
    <2> QED  BY <1>1, <1>6, FlattenOneMore
  <1>10. DataOf(r, x) = FlattenSeq(F)  BY DEF DataOf
  <1>11. DataOf(s, x) = FlattenSeq([i \in 1..n |-> F[i]])
    <2> HIDE DEF F
    <2> QED  BY <1>8 DEF DataOf
  <1> HIDE DEF F
  <1>12. DataOf(r, x) = DataOf(s, x) \o Piece(e, x)  BY <1>7, <1>9, <1>10, <1>11
  <1> QED  BY <1>12 DEF r

LEMMA DataTyped ==
  ASSUME NEW s \in Seq(EventSet), NEW x \in Nat PROVE DataOf(s, x) \in Seq(Chunks)
  <1> DEFINE n == Len(s)
             F == [i \in DOMAIN s |-> Piece(s[i], x)]
  <1>1. n \in Nat /\ DOMAIN s = 1..n /\ \A i \in 1..n : s[i] \in EventSet  OBVIOUS
  <1>2. \A ev \in EventSet : Piece(ev, x) \in Seq(Chunks)  BY PieceTyped
  <1>3. F \in [1..n -> Seq(Chunks)]  BY <1>1, <1>2
  <1>4. DataOf(s, x) = FlattenSeq(F)  BY DEF DataOf
  <1> HIDE DEF F, n
  <1> QED  BY <1>1, <1>3, <1>4, FlattenTyped

LEMMA EmptyDescribes == Describes(<<>>, <<>>)
  <1>1. Starts(<<>>) = {}  BY DEF Starts, ToSet
  <1>2. \A x \in Nat : DataOf(<<>>, x) = <<>>
    <2>1. \A x \in Nat : [i \in DOMAIN <<>> |-> Piece(<<>>[i], x)] = <<>>  OBVIOUS
    <2> QED  BY <2>1, FlattenNone DEF DataOf
  <1> QED  BY <1>1, <1>2 DEF Describes

\* An event that is of no block.
LEMMA DescribesOther ==
  ASSUME NEW s, NEW bs, Describes(s, bs), NEW e \in EventSet,
         e.type \notin {"content_block_start", "content_block_delta"}
  PROVE  Describes(Append(s, e), bs)
  <1>1. s \in Seq(EventSet) /\ Append(s, e) \in Seq(EventSet)  BY DEF Describes
  <1>2. Starts(Append(s, e)) = Starts(s)  BY <1>1, StartsGrow
  <1>3. ASSUME NEW x \in Nat PROVE DataOf(Append(s, e), x) = DataOf(s, x)
    <2>1. Piece(e, x) = <<>>  BY DEF Piece
    <2>2. DataOf(s, x) \in Seq(Chunks)  BY <1>1, DataTyped
    <2> QED  BY <1>1, <2>1, <2>2, DataGrows
  <1> QED  BY <1>1, <1>2, <1>3 DEF Describes

\* The start of the next block, which may come whole.
LEMMA DescribesStart ==
  ASSUME NEW s, NEW bs, Describes(s, bs), NEW e \in EventSet, NEW b \in BlockSet,
         e.type = "content_block_start", e.index = Len(bs), e.kind = b.kind, e.data = b.data
  PROVE  Describes(Append(s, e), Append(bs, b))
  <1> DEFINE n == Len(bs)
             cs == Append(bs, b)
  <1>1. /\ s \in Seq(EventSet) /\ Append(s, e) \in Seq(EventSet)
        /\ bs \in Seq(BlockSet) /\ cs \in Seq(BlockSet) /\ n \in Nat /\ Len(cs) = n + 1
    BY DEF Describes
  <1>2. (\A i \in 1..n : cs[i] = bs[i]) /\ cs[n + 1] = b  BY <1>1
  <1>3. Starts(Append(s, e)) = Starts(s) \cup {e}  BY <1>1, StartsGrow
  <1>4. {ev.index : ev \in Starts(s)} = 0..(n - 1)  BY DEF Describes
  <1> HIDE DEF cs
  <1>5. {ev.index : ev \in Starts(Append(s, e))} = 0..(Len(cs) - 1)
    <2>1. {ev.index : ev \in Starts(Append(s, e))} = {ev.index : ev \in Starts(s)} \cup {e.index}
      BY <1>3
    <2>2. 0..(Len(cs) - 1) = 0..(n - 1) \cup {n}  BY <1>1
    <2> QED  BY <1>4, <2>1, <2>2
  <1>6. ASSUME NEW ev \in Starts(Append(s, e)) PROVE ev.kind = cs[ev.index + 1].kind
    <2>1. CASE ev = e
      BY <1>2, <2>1
    <2>2. CASE ev # e
      <3>1. ev \in Starts(s)  BY <1>3, <2>2
      <3>2. ev.index \in 0..(n - 1)  BY <1>4, <3>1
      <3>3. ev.index + 1 \in 1..n  BY <1>1, <3>2
      <3>4. ev.kind = bs[ev.index + 1].kind  BY <3>1 DEF Describes
      <3> QED  BY <1>2, <3>3, <3>4
    <2> QED  BY <2>1, <2>2
  <1>7. ASSUME NEW x \in Nat
        PROVE  DataOf(Append(s, e), x) = IF x < Len(cs) THEN cs[x + 1].data ELSE <<>>
    <2>1. DataOf(Append(s, e), x) = DataOf(s, x) \o Piece(e, x)  BY <1>1, DataGrows
    <2>2. DataOf(s, x) = IF x < n THEN bs[x + 1].data ELSE <<>>  BY DEF Describes
    <2>3. Piece(e, x) = IF x = n THEN b.data ELSE <<>>  BY DEF Piece
    <2>4. DataOf(s, x) \in Seq(Chunks) /\ b.data \in Seq(Chunks)  BY <1>1, DataTyped DEF BlockSet
    <2>5. CASE x < n
      <3>1. x + 1 \in 1..n /\ x # n /\ x < Len(cs)  BY <1>1, <2>5
      <3>2. DataOf(s, x) \o <<>> = DataOf(s, x)  BY <2>4
      <3>3. cs[x + 1] = bs[x + 1]  BY <1>2, <3>1
      <3> QED  BY <2>1, <2>2, <2>3, <2>5, <3>1, <3>2, <3>3
    <2>6. CASE x = n
      <3>1. ~ (x < n) /\ x < Len(cs)  BY <1>1, <2>6
      <3> QED  BY <1>2, <2>1, <2>2, <2>3, <2>4, <2>6, <3>1
    <2>7. CASE x > n
      <3>1. ~ (x < n) /\ ~ (x < Len(cs)) /\ x # n  BY <1>1, <2>7
      <3> QED  BY <2>1, <2>2, <2>3, <3>1
    <2> QED  BY <1>1, <2>5, <2>6, <2>7
  <1>8. Describes(Append(s, e), cs)  BY <1>1, <1>5, <1>6, <1>7 DEF Describes
  <1> QED  BY <1>8 DEF cs

\* A delta of one of the blocks.
LEMMA DescribesDelta ==
  ASSUME NEW s, NEW bs, Describes(s, bs), NEW e \in EventSet, NEW k \in 1..Len(bs),
         e.type = "content_block_delta", e.index = k - 1,
         NEW cs \in Seq(BlockSet), Len(cs) = Len(bs),
         \A i \in 1..Len(bs) : /\ cs[i].kind = bs[i].kind
                               /\ cs[i].data = IF i = k THEN bs[i].data \o e.data ELSE bs[i].data
  PROVE  Describes(Append(s, e), cs)
  <1> DEFINE n == Len(bs)
  <1>1. /\ s \in Seq(EventSet) /\ Append(s, e) \in Seq(EventSet)
        /\ bs \in Seq(BlockSet) /\ n \in Nat
    BY DEF Describes
  <1>2. Starts(Append(s, e)) = Starts(s)  BY <1>1, StartsGrow
  <1>3. {ev.index : ev \in Starts(s)} = 0..(n - 1)  BY DEF Describes
  <1>4. ASSUME NEW ev \in Starts(s) PROVE ev.kind = cs[ev.index + 1].kind
    <2>1. ev.index \in 0..(n - 1)  BY <1>3
    <2>2. ev.index + 1 \in 1..n  BY <1>1, <2>1
    <2>3. ev.kind = bs[ev.index + 1].kind  BY DEF Describes
    <2> QED  BY <2>2, <2>3
  <1>5. ASSUME NEW x \in Nat
        PROVE  DataOf(Append(s, e), x) = IF x < n THEN cs[x + 1].data ELSE <<>>
    <2>1. DataOf(Append(s, e), x) = DataOf(s, x) \o Piece(e, x)  BY <1>1, DataGrows
    <2>2. DataOf(s, x) = IF x < n THEN bs[x + 1].data ELSE <<>>  BY DEF Describes
    <2>3. Piece(e, x) = IF x + 1 = k THEN e.data ELSE <<>>  BY <1>1 DEF Piece
    <2>4. DataOf(s, x) \in Seq(Chunks)  BY <1>1, DataTyped
    <2>5. CASE x < n
      <3>1. x + 1 \in 1..n  BY <1>1, <2>5
      <3>2. cs[x + 1].data = IF x + 1 = k THEN bs[x + 1].data \o e.data ELSE bs[x + 1].data
        BY <3>1
      <3>3. DataOf(s, x) = bs[x + 1].data  BY <2>2, <2>5
      <3>4. DataOf(s, x) \o <<>> = DataOf(s, x)  BY <2>4
      <3> QED  BY <2>1, <2>3, <2>5, <3>2, <3>3, <3>4
    <2>6. CASE ~ (x < n)
      <3>1. x + 1 # k  BY <1>1, <2>6
      <3> QED  BY <2>1, <2>2, <2>3, <2>6, <3>1
    <2> QED  BY <2>5, <2>6
  <1> QED  BY <1>1, <1>2, <1>3, <1>4, <1>5 DEF Describes
----------------------------------------------------------------------------
(***************************************************************************)
(* What a whole stream means, and how a block is written.                  *)
(***************************************************************************)

\* Blocks as they are at the end of a stream.
Done(b) == ~b.unparsed /\ (b.kind = "tool_use" => ParseJson(b.data) = b.data)

Finished(bs) == \A i \in DOMAIN bs : Done(bs[i])

\* The places of the events that say why the message stops.
Stops(s) == {i \in 1..Len(s) : s[i].type = "message_delta"}

LEMMA MaxOfOne == ASSUME NEW p \in Nat PROVE Max({p}) = p
  <1>1. \A x \in {p} : x = p  OBVIOUS
  <1>2. p \in {p} /\ \A y \in {p} : p >= y  OBVIOUS
  <1>3. \E x \in {p} : \A y \in {p} : x >= y  BY <1>2
  <1>4. (CHOOSE x \in {p} : \A y \in {p} : x >= y) \in {p}  BY <1>3
  <1> QED  BY <1>1, <1>4 DEF Max

LEMMA DescribedKind ==
  ASSUME NEW s, NEW bs, Describes(s, bs), NEW i \in 1..Len(bs)
  PROVE  (CHOOSE ev \in Starts(s) : ev.index = i - 1).kind = bs[i].kind
  <1>1. {ev.index : ev \in Starts(s)} = 0..(Len(bs) - 1) /\ Len(bs) \in Nat  BY DEF Describes
  <1>2. i - 1 \in 0..(Len(bs) - 1) /\ (i - 1) + 1 = i  BY <1>1
  <1>3. \E ev \in Starts(s) : ev.index = i - 1  BY <1>1, <1>2
  <1>4. PICK e : e = CHOOSE ev \in Starts(s) : ev.index = i - 1  OBVIOUS
  <1>5. e \in Starts(s) /\ e.index = i - 1  BY <1>3, <1>4
  <1>6. e.kind = bs[e.index + 1].kind  BY <1>5 DEF Describes
  <1> QED  BY <1>2, <1>4, <1>5, <1>6

\* A stream whose blocks are finished means these blocks.
LEMMA MeaningOfDescribed ==
  ASSUME NEW s, NEW bs, Describes(s, bs), Finished(bs), NEW p, Stops(s) = {p}
  PROVE  Meaning(s) = Message(bs, s[p].stop)
  <1> DEFINE n == Len(bs)
             last == SelectLastInSeq(s, LAMBDA ev : ev.type = "message_delta")
             Kind(index) == (CHOOSE ev \in Starts(s) : ev.index = index).kind
             m == Cardinality({ev.index : ev \in Starts(s)})
             Body(i) == [kind |-> Kind(i - 1),
                         data |-> IF Kind(i - 1) = "tool_use" THEN ParseJson(DataOf(s, i - 1))
                                                              ELSE DataOf(s, i - 1),
                         unparsed |-> FALSE]
  <1>1. n \in Nat /\ bs \in Seq(BlockSet) /\ bs = [i \in 1..n |-> bs[i]]  BY DEF Describes
  <1>2. last = p
    <2>1. p \in Stops(s)  OBVIOUS
    <2>2. p \in Nat  BY <2>1 DEF Stops
    <2>3. last = Max(Stops(s))  BY DEF SelectLastInSeq, Stops
    <2> QED  BY <2>2, <2>3, MaxOfOne
  <1>3. m = n
    <2>1. {ev.index : ev \in Starts(s)} = 0..(n - 1)  BY DEF Describes
    <2>2. Cardinality(0..(n - 1)) = n
      <3>1. 0 \in Int /\ n - 1 \in Int  BY <1>1
      <3>2. Cardinality(0..(n - 1)) = IF 0 > n - 1 THEN 0 ELSE (n - 1) - 0 + 1
        BY <3>1, FS_Interval
      <3> QED  BY <1>1, <3>2
    <2> QED  BY <2>1, <2>2
  <1>4. ASSUME NEW i \in 1..n PROVE Body(i) = bs[i]
    <2>1. Kind(i - 1) = bs[i].kind  BY DescribedKind
    <2>2. i - 1 \in Nat /\ i - 1 < n /\ (i - 1) + 1 = i  BY <1>1
    <2>3. DataOf(s, i - 1) = bs[i].data  BY <2>2 DEF Describes
    <2>4. bs[i] \in BlockSet  BY <1>1
    <2>5. i \in DOMAIN bs  BY <1>1
    <2>6. ~bs[i].unparsed /\ (bs[i].kind = "tool_use" => ParseJson(bs[i].data) = bs[i].data)
      BY <2>5 DEF Finished, Done
    <2> HIDE DEF Kind
    <2> QED  BY <2>1, <2>3, <2>4, <2>6 DEF BlockSet
  <1>5. Meaning(s) = Message([i \in 1..m |-> Body(i)], s[last].stop)  BY DEF Meaning
  <1> HIDE DEF last, m, Body
  <1>6. [i \in 1..m |-> Body(i)] = bs  BY <1>1, <1>3, <1>4
  <1> QED  BY <1>2, <1>5, <1>6

LEMMA PlainTyped ==
  ASSUME NEW type \in AnthropicTypes \cup ProxyTypes \cup {"error", "nothing"}
  PROVE  /\ Plain(type) \in EventSet
         /\ Plain(type).type = type /\ Plain(type).index = 0 /\ Plain(type).kind = "none"
         /\ Plain(type).data = <<>> /\ Plain(type).stop = "none"
  <1>1. <<>> \in Seq(Chunks)  OBVIOUS
  <1>3. "none" \in Kinds  BY DEF Kinds
  <1>2. Plain(type) = [type |-> type, index |-> 0, kind |-> "none", data |-> <<>>, stop |-> "none"]
    BY DEF Plain, Event
  <1> QED  BY <1>1, <1>2, <1>3 DEF EventSet

\* An event with other fields.
LEMMA IndexSet ==
  ASSUME NEW e \in EventSet, NEW x \in Nat
  PROVE  LET f == [e EXCEPT !.index = x]
         IN  /\ f \in EventSet /\ f.type = e.type /\ f.index = x
             /\ f.kind = e.kind /\ f.data = e.data /\ f.stop = e.stop
  BY DEF EventSet

LEMMA KindSet ==
  ASSUME NEW e \in EventSet, NEW x \in Kinds
  PROVE  LET f == [e EXCEPT !.kind = x]
         IN  /\ f \in EventSet /\ f.type = e.type /\ f.index = e.index
             /\ f.kind = x /\ f.data = e.data /\ f.stop = e.stop
  BY DEF EventSet

LEMMA DataSet ==
  ASSUME NEW e \in EventSet, NEW x \in Seq(Chunks)
  PROVE  LET f == [e EXCEPT !.data = x]
         IN  /\ f \in EventSet /\ f.type = e.type /\ f.index = e.index
             /\ f.kind = e.kind /\ f.data = x /\ f.stop = e.stop
  BY DEF EventSet

LEMMA StopSet ==
  ASSUME NEW e \in EventSet, NEW x \in {"none", "end_turn"}
  PROVE  LET f == [e EXCEPT !.stop = x]
         IN  /\ f \in EventSet /\ f.type = e.type /\ f.index = e.index
             /\ f.kind = e.kind /\ f.data = e.data /\ f.stop = x
  BY DEF EventSet

LEMMA AppendTwo ==
  ASSUME NEW T, NEW s \in Seq(T), NEW a \in T, NEW b \in T
  PROVE  s \o <<a, b>> = Append(Append(s, a), b)
  OBVIOUS

LEMMA AppendThree ==
  ASSUME NEW T, NEW s \in Seq(T), NEW a \in T, NEW b \in T, NEW c \in T
  PROVE  s \o <<a, b, c>> = Append(Append(Append(s, a), b), c)
  OBVIOUS

BlockTypes == {"content_block_start", "content_block_delta", "content_block_stop"}

\* The events a block is written with, of which it takes two or three.
Writes(n, b, start, delta, whole, stop) ==
  /\ start.type = "content_block_start" /\ start.index = n
  /\ start.kind = b.kind /\ start.data = <<>>
  /\ delta.type = "content_block_delta" /\ delta.index = n /\ delta.data = b.data
  /\ whole.type = "content_block_start" /\ whole.index = n
  /\ whole.kind = b.kind /\ whole.data = b.data
  /\ stop.type = "content_block_stop"
  /\ SynthesizedBlock(n, b) = IF b.kind \in {"text", "tool_use"}
                                THEN <<start, delta, stop>> ELSE <<whole, stop>>

LEMMA SynthesizedEvents ==
  ASSUME NEW n \in Nat, NEW b \in BlockSet
  PROVE  \E start, delta, whole, stop \in EventSet : Writes(n, b, start, delta, whole, stop)
  <1> DEFINE start == [Plain("content_block_start") EXCEPT !.index = n, !.kind = b.kind]
             delta == [Plain("content_block_delta") EXCEPT !.index = n, !.data = b.data]
             whole == [start EXCEPT !.data = b.data]
             stop  == [Plain("content_block_stop") EXCEPT !.index = n]
  <1>a. b.kind \in Kinds /\ b.data \in Seq(Chunks)  BY DEF BlockSet
  <1>2. /\ start \in EventSet /\ start.type = "content_block_start" /\ start.index = n
        /\ start.kind = b.kind /\ start.data = <<>>
    <2> DEFINE e0 == Plain("content_block_start")
               e1 == [e0 EXCEPT !.index = n]
               e2 == [e1 EXCEPT !.kind = b.kind]
    <2>0. "content_block_start" \in AnthropicTypes  BY DEF AnthropicTypes
    <2>1. e0 \in EventSet /\ e0.type = "content_block_start" /\ e0.data = <<>>
      BY <2>0, PlainTyped
    <2>2. start = e2  OBVIOUS
    <2> HIDE DEF e0
    <2>3. /\ e1 \in EventSet /\ e1.type = "content_block_start" /\ e1.index = n
          /\ e1.data = <<>>
      BY <2>1, IndexSet
    <2> HIDE DEF e1
    <2>4. /\ e2 \in EventSet /\ e2.type = "content_block_start" /\ e2.index = n
          /\ e2.kind = b.kind /\ e2.data = <<>>
      BY <1>a, <2>3, KindSet
    <2> HIDE DEF e2, start
    <2> QED  BY <2>2, <2>4
  <1>3. /\ delta \in EventSet /\ delta.type = "content_block_delta" /\ delta.index = n
        /\ delta.data = b.data
    <2> DEFINE e0 == Plain("content_block_delta")
               e1 == [e0 EXCEPT !.index = n]
               e2 == [e1 EXCEPT !.data = b.data]
    <2>0. "content_block_delta" \in AnthropicTypes  BY DEF AnthropicTypes
    <2>1. e0 \in EventSet /\ e0.type = "content_block_delta"
      BY <2>0, PlainTyped
    <2>2. delta = e2  OBVIOUS
    <2> HIDE DEF e0
    <2>3. e1 \in EventSet /\ e1.type = "content_block_delta" /\ e1.index = n
      BY <2>1, IndexSet
    <2> HIDE DEF e1
    <2>4. /\ e2 \in EventSet /\ e2.type = "content_block_delta" /\ e2.index = n
          /\ e2.data = b.data
      BY <1>a, <2>3, DataSet
    <2> HIDE DEF e2, delta
    <2> QED  BY <2>2, <2>4
  <1>4. /\ whole \in EventSet /\ whole.type = "content_block_start" /\ whole.index = n
        /\ whole.kind = b.kind /\ whole.data = b.data
    <2> HIDE DEF start
    <2> QED  BY <1>a, <1>2, DataSet
  <1>5. stop \in EventSet /\ stop.type = "content_block_stop"
    <2> DEFINE e0 == Plain("content_block_stop")
    <2>0. "content_block_stop" \in AnthropicTypes  BY DEF AnthropicTypes
    <2>1. e0 \in EventSet /\ e0.type = "content_block_stop"
      BY <2>0, PlainTyped
    <2> HIDE DEF e0
    <2>2. [e0 EXCEPT !.index = n] \in EventSet
          /\ [e0 EXCEPT !.index = n].type = "content_block_stop"
      BY <2>1, IndexSet
    <2> QED  BY <2>2 DEF e0
  <1>6. SynthesizedBlock(n, b) = IF b.kind \in {"text", "tool_use"} THEN <<start, delta, stop>>
                                                                   ELSE <<whole, stop>>
    BY DEF SynthesizedBlock
  <1> HIDE DEF start, delta, whole, stop
  <1>7. Writes(n, b, start, delta, whole, stop)  BY <1>2, <1>3, <1>4, <1>5, <1>6 DEF Writes
  <1> QED  BY <1>2, <1>3, <1>4, <1>5, <1>7

LEMMA SynthesizedTyped ==
  ASSUME NEW n \in Nat, NEW b \in BlockSet PROVE SynthesizedBlock(n, b) \in Seq(EventSet)
  <1>1. PICK start, delta, whole, stop \in EventSet : Writes(n, b, start, delta, whole, stop)
    BY SynthesizedEvents
  <1>2. <<start, delta, stop>> \in Seq(EventSet) /\ <<whole, stop>> \in Seq(EventSet)  OBVIOUS
  <1> QED  BY <1>1, <1>2 DEF Writes

\* A block that is written is one block more.
LEMMA SynthesizedDescribes ==
  ASSUME NEW s, NEW bs, Describes(s, bs), NEW b \in BlockSet, ~b.unparsed
  PROVE  LET r == s \o SynthesizedBlock(Len(bs), b)
         IN  /\ Describes(r, Append(bs, b))
             /\ \A ev \in ToSet(r) : ev \in ToSet(s) \/ ev.type \in BlockTypes
  <1> DEFINE n == Len(bs)
             empty == [b EXCEPT !.data = <<>>]
  <1>1. s \in Seq(EventSet) /\ bs \in Seq(BlockSet) /\ n \in Nat  BY DEF Describes
  <1>p. PICK start, delta, whole, stop \in EventSet : Writes(n, b, start, delta, whole, stop)
    BY <1>1, SynthesizedEvents
  <1>2. /\ start \in EventSet /\ delta \in EventSet /\ whole \in EventSet /\ stop \in EventSet
        /\ start.type = "content_block_start" /\ start.index = n
        /\ start.kind = b.kind /\ start.data = <<>>
        /\ delta.type = "content_block_delta" /\ delta.index = n /\ delta.data = b.data
        /\ whole.type = "content_block_start" /\ whole.index = n
        /\ whole.kind = b.kind /\ whole.data = b.data
        /\ stop.type = "content_block_stop"
        /\ SynthesizedBlock(n, b) = IF b.kind \in {"text", "tool_use"}
                                         THEN <<start, delta, stop>> ELSE <<whole, stop>>
    BY <1>p DEF Writes
  <1>6. empty \in BlockSet /\ empty.kind = b.kind /\ empty.data = <<>> /\ ~empty.unparsed
    <2>1. <<>> \in Seq(Chunks)  OBVIOUS
    <2> QED  BY <2>1 DEF BlockSet
  <1> DEFINE cs == Append(bs, b)
             es == Append(bs, empty)
  <1>8. /\ cs \in Seq(BlockSet) /\ es \in Seq(BlockSet) /\ Len(cs) = n + 1 /\ Len(es) = n + 1
        /\ cs[n + 1] = b /\ es[n + 1] = empty /\ \A i \in 1..n : cs[i] = bs[i] /\ es[i] = bs[i]
    BY <1>1, <1>6
  <1> HIDE DEF empty, cs, es
  <1>9. CASE b.kind \in {"text", "tool_use"}
    <2> DEFINE s1 == Append(s, start)
               s2 == Append(s1, delta)
               s3 == Append(s2, stop)
    <2>1. s \o SynthesizedBlock(n, b) = s3
      BY <1>1, <1>2, <1>9, AppendThree
    <2>2. Describes(s1, es)  BY <1>2, <1>6, DescribesStart DEF es
    <2>3. s1 \in Seq(EventSet) /\ s2 \in Seq(EventSet)  BY <1>1, <1>2
    <2> HIDE DEF s1
    <2>4. Describes(s2, cs)
      <3>1. n + 1 \in 1..Len(es) /\ (n + 1) - 1 = n  BY <1>1, <1>8
      <3>2. ASSUME NEW i \in 1..Len(es)
            PROVE  /\ cs[i].kind = es[i].kind
                   /\ cs[i].data = IF i = n + 1 THEN es[i].data \o delta.data ELSE es[i].data
        <4>1. CASE i = n + 1
          <5>1. b.data \in Seq(Chunks)  BY DEF BlockSet
          <5>2. <<>> \o b.data = b.data  BY <5>1
          <5> QED  BY <1>2, <1>6, <1>8, <4>1, <5>2
        <4>2. CASE i # n + 1
          <5>1. i \in 1..n  BY <1>1, <1>8, <4>2
          <5> QED  BY <1>8, <4>2, <5>1
        <4> QED  BY <4>1, <4>2
      <3> QED  BY ZenonT(60), <1>2, <1>8, <2>2, <3>1, <3>2, DescribesDelta
    <2> HIDE DEF s2
    <2>5. Describes(s3, cs)  BY <1>2, <2>4, DescribesOther
    <2>6. ToSet(s3) = ToSet(s) \cup {start, delta, stop}
      <3>1. ToSet(s1) = ToSet(s) \cup {start}  BY <1>1, <1>2, ToSetGrows DEF s1
      <3>2. ToSet(s2) = ToSet(s1) \cup {delta}  BY <1>2, <2>3, ToSetGrows DEF s2
      <3>3. ToSet(s3) = ToSet(s2) \cup {stop}  BY <1>2, <2>3, ToSetGrows
      <3> QED  BY <3>1, <3>2, <3>3
    <2> QED  BY <1>2, <1>9, <2>1, <2>5, <2>6 DEF cs, BlockTypes
  <1>10. CASE b.kind \notin {"text", "tool_use"}
    <2> DEFINE s1 == Append(s, whole)
               s2 == Append(s1, stop)
    <2>1. s \o SynthesizedBlock(n, b) = s2
      BY <1>1, <1>2, <1>10, AppendTwo
    <2>2. Describes(s1, cs)  BY <1>2, DescribesStart DEF cs
    <2>3. s1 \in Seq(EventSet)  BY <1>1, <1>2
    <2> HIDE DEF s1
    <2>4. Describes(s2, cs)  BY <1>2, <2>2, DescribesOther
    <2>5. ToSet(s2) = ToSet(s) \cup {whole, stop}
      <3>1. ToSet(s1) = ToSet(s) \cup {whole}  BY <1>1, <1>2, ToSetGrows DEF s1
      <3>2. ToSet(s2) = ToSet(s1) \cup {stop}  BY <1>2, <2>3, ToSetGrows
      <3> QED  BY <3>1, <3>2
    <2> QED  BY <1>2, <1>10, <2>1, <2>4, <2>5 DEF cs, BlockTypes
  <1> QED  BY <1>9, <1>10
----------------------------------------------------------------------------
(***************************************************************************)
(* A message that is written as a stream.                                  *)
(***************************************************************************)

\* What is written for the first k blocks.
Written(bs, k) == FlattenSeq([i \in 1..k |-> SynthesizedBlock(i - 1, bs[i])])

Opening(bs, k) == <<Plain("message_start")>> \o Written(bs, k)

LEMMA WrittenTyped ==
  ASSUME NEW bs \in Seq(BlockSet), NEW k \in Nat, k <= Len(bs)
  PROVE  Written(bs, k) \in Seq(EventSet)
  <1> DEFINE F == [i \in 1..k |-> SynthesizedBlock(i - 1, bs[i])]
  <1>1. \A i \in 1..k : i - 1 \in Nat /\ bs[i] \in BlockSet  OBVIOUS
  <1>2. \A i \in 1..k : SynthesizedBlock(i - 1, bs[i]) \in Seq(EventSet)
    BY <1>1, SynthesizedTyped
  <1>3. F \in [1..k -> Seq(EventSet)]  BY <1>2
  <1>4. Written(bs, k) = FlattenSeq(F)  BY DEF Written
  <1> HIDE DEF F
  <1> QED  BY <1>3, <1>4, FlattenTyped

LEMMA WrittenGrows ==
  ASSUME NEW bs \in Seq(BlockSet), NEW k \in Nat, k + 1 <= Len(bs)
  PROVE  Written(bs, k + 1) = Written(bs, k) \o SynthesizedBlock(k, bs[k + 1])
  <1> DEFINE F == [i \in 1..(k + 1) |-> SynthesizedBlock(i - 1, bs[i])]
             G == [i \in 1..k |-> SynthesizedBlock(i - 1, bs[i])]
  <1>1. \A i \in 1..(k + 1) : i - 1 \in Nat /\ bs[i] \in BlockSet  OBVIOUS
  <1>2. \A i \in 1..(k + 1) : SynthesizedBlock(i - 1, bs[i]) \in Seq(EventSet)
    BY <1>1, SynthesizedTyped
  <1>3. F \in [1..(k + 1) -> Seq(EventSet)]  BY <1>2
  <1>4. [i \in 1..k |-> F[i]] = G
    <2>1. \A i \in 1..k : i \in 1..(k + 1)  OBVIOUS
    <2>2. \A i \in 1..k : F[i] = SynthesizedBlock(i - 1, bs[i])  BY <2>1
    <2> HIDE DEF F
    <2> QED  BY <2>2
  <1>5. F[k + 1] = SynthesizedBlock(k, bs[k + 1])
    <2>1. k + 1 \in 1..(k + 1) /\ (k + 1) - 1 = k  OBVIOUS
    <2>2. F[k + 1] = SynthesizedBlock((k + 1) - 1, bs[k + 1])  BY <2>1
    <2> HIDE DEF F
    <2> QED  BY <2>1, <2>2
  <1>6. Written(bs, k + 1) = FlattenSeq(F) /\ Written(bs, k) = FlattenSeq(G)  BY DEF Written
  <1> HIDE DEF F, G
  <1>7. FlattenSeq(F) = FlattenSeq([i \in 1..k |-> F[i]]) \o F[k + 1]
    BY <1>3, FlattenOneMore
  <1> QED  BY <1>4, <1>5, <1>6, <1>7

LEMMA SingleTyped ==
  /\ Plain("message_start") \in EventSet
  /\ Plain("message_start").type = "message_start"
  /\ <<Plain("message_start")>> \in Seq(EventSet)
  <1>1. "message_start" \in AnthropicTypes  BY DEF AnthropicTypes
  <1>2. Plain("message_start") \in EventSet /\ Plain("message_start").type = "message_start"
    BY <1>1, PlainTyped
  <1> QED  BY <1>2

LEMMA ConcatAssoc ==
  ASSUME NEW T, NEW a \in Seq(T), NEW b \in Seq(T), NEW c \in Seq(T)
  PROVE  a \o (b \o c) = (a \o b) \o c
  OBVIOUS

\* The opening describes the blocks it was written for.
OpeningIs(bs, k) ==
  /\ Describes(Opening(bs, k), [i \in 1..k |-> bs[i]])
  /\ \A ev \in ToSet(Opening(bs, k)) : ev.type = "message_start" \/ ev.type \in BlockTypes

\* Block by block, what is written describes the message.
LEMMA OpeningDescribes ==
  ASSUME NEW bs \in Seq(BlockSet), \A i \in 1..Len(bs) : ~bs[i].unparsed
  PROVE  OpeningIs(bs, Len(bs))
  <1> DEFINE S == {k \in Nat : k <= Len(bs) => OpeningIs(bs, k)}
  <1>1. 0 \in S
    <2> DEFINE e == Plain("message_start")
    <2>1. Written(bs, 0) = <<>>
      <3>1. [i \in 1..0 |-> SynthesizedBlock(i - 1, bs[i])] = <<>>  OBVIOUS
      <3> QED  BY <3>1, FlattenNone DEF Written
    <2>2. [i \in 1..0 |-> bs[i]] = <<>>  OBVIOUS
    <2>3. e \in EventSet /\ e.type = "message_start" /\ <<e>> \in Seq(EventSet)  BY SingleTyped
    <2> HIDE DEF e
    <2>4. Append(<<>>, e) = <<e>> /\ <<e>> \o <<>> = <<e>>  BY <2>3
    <2>5. Describes(Append(<<>>, e), <<>>)  BY <2>3, EmptyDescribes, DescribesOther
    <2>6. Opening(bs, 0) = <<e>>  BY <2>1, <2>4 DEF Opening, e
    <2>7. ToSet(<<e>>) = {e}  BY DEF ToSet
    <2>8. OpeningIs(bs, 0)  BY <2>2, <2>3, <2>4, <2>5, <2>6, <2>7 DEF OpeningIs
    <2> QED  BY <2>8
  <1>2. ASSUME NEW k \in Nat, k \in S PROVE k + 1 \in S
    <2> SUFFICES ASSUME k + 1 <= Len(bs) PROVE OpeningIs(bs, k + 1)  OBVIOUS
    <2> DEFINE c == [i \in 1..k |-> bs[i]]
               d == [i \in 1..(k + 1) |-> bs[i]]
               b == bs[k + 1]
               o == Opening(bs, k)
    <2>1. OpeningIs(bs, k)  BY <1>2
    <2>2. k + 1 \in 1..Len(bs) /\ b \in BlockSet /\ ~b.unparsed  OBVIOUS
    <2>3. c \in Seq(BlockSet) /\ Len(c) = k  OBVIOUS
    <2>4. Append(c, b) = d  OBVIOUS
    <2>5. Opening(bs, k + 1) = o \o SynthesizedBlock(k, b)
      <3>1. Written(bs, k + 1) = Written(bs, k) \o SynthesizedBlock(k, b)  BY WrittenGrows
      <3>2. Written(bs, k) \in Seq(EventSet)  BY WrittenTyped
      <3>3. SynthesizedBlock(k, b) \in Seq(EventSet)  BY <2>2, SynthesizedTyped
      <3> DEFINE x == <<Plain("message_start")>>
      <3>4. x \in Seq(EventSet)  BY SingleTyped
      <3>5. Opening(bs, k + 1) = x \o Written(bs, k + 1) /\ o = x \o Written(bs, k)
        BY DEF Opening
      <3> HIDE DEF b, x, o
      <3>6. x \o (Written(bs, k) \o SynthesizedBlock(k, b))
              = (x \o Written(bs, k)) \o SynthesizedBlock(k, b)
        BY <3>2, <3>3, <3>4, ConcatAssoc
      <3> QED  BY <3>1, <3>5, <3>6
    <2>6. Describes(o, c) /\ \A ev \in ToSet(o) : ev.type = "message_start" \/ ev.type \in BlockTypes
      BY <2>1 DEF OpeningIs
    <2> HIDE DEF c, d, b, o
    <2>7. /\ Describes(o \o SynthesizedBlock(Len(c), b), Append(c, b))
          /\ \A ev \in ToSet(o \o SynthesizedBlock(Len(c), b)) :
               ev \in ToSet(o) \/ ev.type \in BlockTypes
      BY <2>2, <2>6, SynthesizedDescribes
    <2> QED  BY <2>3, <2>4, <2>5, <2>6, <2>7 DEF OpeningIs, d
  <1> HIDE DEF S
  <1>3. Nat \subseteq S  BY <1>1, <1>2, SetInduction
  <1>4. Len(bs) \in Nat /\ Len(bs) <= Len(bs)  OBVIOUS
  <1> QED  BY <1>3, <1>4 DEF S

\* A message whose blocks are finished is written as a complete stream, and the
\* stream means the message.
LEMMA SynthesizedMeans ==
  ASSUME NEW bs \in Seq(BlockSet), Finished(bs), NEW why \in {"none", "end_turn"}
  PROVE  LET s == Synthesize(Message(bs, why))
         IN  Complete(s) /\ Meaning(s) = Message(bs, why)
  <1> DEFINE m == Message(bs, why)
             o == Opening(bs, Len(bs))
             d0 == Plain("message_delta")
             d == [d0 EXCEPT !.stop = why]
             e == Plain("message_stop")
             r == Append(o, d)
             s == Append(r, e)
             p == Len(o) + 1
  <1>1. m.content = bs /\ m.stop = why /\ m # NoMessage
    <2>1. why # "no message"  OBVIOUS
    <2> QED  BY <2>1 DEF Message, NoMessage
  <1>2. d \in EventSet /\ d.type = "message_delta" /\ d.stop = why
    <2>1. "message_delta" \in AnthropicTypes  BY DEF AnthropicTypes
    <2>2. d0 \in EventSet /\ d0.type = "message_delta"  BY <2>1, PlainTyped
    <2> HIDE DEF d0
    <2> QED  BY <2>2, StopSet
  <1>3. e \in EventSet /\ e.type = "message_stop"
    <2>1. "message_stop" \in AnthropicTypes  BY DEF AnthropicTypes
    <2> QED  BY <2>1, PlainTyped
  <1>4. OpeningIs(bs, Len(bs))
    <2>1. \A i \in 1..Len(bs) : ~bs[i].unparsed  BY DEF Finished, Done
    <2> QED  BY <2>1, OpeningDescribes
  <1>5. [i \in 1..Len(bs) |-> bs[i]] = bs  OBVIOUS
  <1>6. Describes(o, bs) /\ \A ev \in ToSet(o) : ev.type = "message_start" \/ ev.type \in BlockTypes
    BY <1>4, <1>5 DEF OpeningIs
  <1>7. o \in Seq(EventSet)  BY <1>6 DEF Describes
  <1>8. Synthesize(m) = o \o <<d, e>>
    <2>1. DOMAIN bs = 1..Len(bs)  OBVIOUS
    <2>2. FlattenSeq([i \in DOMAIN m.content |-> SynthesizedBlock(i - 1, m.content[i])])
            = Written(bs, Len(bs))
      BY <1>1, <2>1 DEF Written
    <2> QED  BY <1>1, <2>2 DEF Synthesize, Opening
  <1> HIDE DEF m, o, d, e
  <1>9. Synthesize(m) = s  BY <1>2, <1>3, <1>7, <1>8, AppendTwo
  <1>10. Describes(s, bs)
    <2>1. Describes(r, bs)  BY <1>2, <1>6, DescribesOther
    <2> HIDE DEF r
    <2> QED  BY <1>3, <2>1, DescribesOther
  <1>11. ToSet(s) = ToSet(o) \cup {d, e}
    <2>1. r \in Seq(EventSet)  BY <1>2, <1>7
    <2>2. ToSet(r) = ToSet(o) \cup {d}  BY <1>2, <1>7, ToSetGrows
    <2> HIDE DEF r
    <2>3. ToSet(s) = ToSet(r) \cup {e}  BY <1>3, <2>1, ToSetGrows
    <2> QED  BY <2>2, <2>3
  <1>12. Stops(s) = {p} /\ s[p] = d
    <2>1. Len(o) \in Nat /\ Len(s) = Len(o) + 2  BY <1>7
    <2>2. s[Len(o) + 1] = d /\ s[Len(o) + 2] = e  BY <1>7
    <2>3. \A i \in 1..Len(o) : s[i] = o[i] /\ o[i] \in ToSet(o)  BY <1>7 DEF ToSet
    <2>4. \A i \in 1..Len(o) : s[i].type # "message_delta"
      BY <1>6, <2>3 DEF BlockTypes
    <2>5. \A i \in 1..Len(s) : i \in 1..Len(o) \/ i = Len(o) + 1 \/ i = Len(o) + 2  BY <2>1
    <2>6. Len(o) + 1 \in 1..Len(s)  BY <2>1
    <2> HIDE DEF s
    <2> QED  BY <1>2, <1>3, <2>2, <2>4, <2>5, <2>6 DEF Stops
  <1>13. Complete(s)
    <2>1. \A ev \in ToSet(s) : ev.type # "error"
      BY <1>2, <1>3, <1>6, <1>11 DEF BlockTypes
    <2>2. e \in ToSet(s)  BY <1>11
    <2> HIDE DEF s
    <2> QED  BY <1>3, <2>1, <2>2 DEF Complete
  <1>14. Meaning(s) = Message(bs, s[p].stop)
    <2> HIDE DEF s, p
    <2> QED  BY <1>10, <1>12, MeaningOfDescribed
  <1> HIDE DEF s, p
  <1>15. Meaning(s) = Message(bs, why)  BY <1>2, <1>12, <1>14
  <1> QED  BY <1>9, <1>13, <1>15 DEF m
----------------------------------------------------------------------------
(***************************************************************************)
(* One event of a stream that is being assembled.                          *)
(***************************************************************************)

Messages == {NoMessage} \cup {Message(<<>>, why) : why \in {"none", "end_turn"}}

Assemblies == [message : Messages, blocks : Seq(BlockSet), index : Seq(Nat), over : BOOLEAN]

Found(a, x) == SelectInSeq(a.index, LAMBDA idx : idx = x)

\* The assembly a is of the events s: its blocks are theirs, in their order.
AssemblyOK(s, a) ==
  /\ a \in Assemblies
  /\ a.index = [i \in 1..Len(a.blocks) |-> i - 1]
  /\ Describes(s, a.blocks)

LEMMA MinOfOne == ASSUME NEW p \in Nat PROVE Min({p}) = p
  <1>1. \A x \in {p} : x = p  OBVIOUS
  <1>2. p \in {p} /\ \A y \in {p} : p <= y  OBVIOUS
  <1>3. \E x \in {p} : \A y \in {p} : x <= y  BY <1>2
  <1>4. (CHOOSE x \in {p} : \A y \in {p} : x <= y) \in {p}  BY <1>3
  <1> QED  BY <1>1, <1>4 DEF Min

LEMMA FoundIs ==
  ASSUME NEW s, NEW a, AssemblyOK(s, a), NEW x \in Nat
  PROVE  Found(a, x) = IF x < Len(a.blocks) THEN x + 1 ELSE 0
  <1> DEFINE n == Len(a.blocks)
             I == {i \in 1..Len(a.index) : a.index[i] = x}
  <1>1. n \in Nat  BY DEF AssemblyOK, Assemblies
  <1>2. a.index = [i \in 1..n |-> i - 1]  BY DEF AssemblyOK
  <1>3. Len(a.index) = n  BY <1>1, <1>2
  <1>4. \A i \in 1..n : a.index[i] = i - 1  BY <1>2
  <1>5. Found(a, x) = IF I # {} THEN Min(I) ELSE 0  BY DEF Found, SelectInSeq
  <1> HIDE DEF n
  <1>6. CASE x < n
    <2>1. x + 1 \in 1..n /\ (x + 1) - 1 = x  BY <1>1, <1>6
    <2>2. \A i \in 1..n : a.index[i] = x <=> i = x + 1  BY <1>1, <1>4, <2>1
    <2>3. I = {x + 1}  BY <1>3, <2>1, <2>2
    <2>4. x + 1 \in Nat  OBVIOUS
    <2> HIDE DEF I
    <2>5. Min({x + 1}) = x + 1  BY <2>4, MinOfOne
    <2> QED  BY <1>5, <1>6, <2>3, <2>5 DEF n
  <1>7. CASE ~ (x < n)
    <2>1. \A i \in 1..n : a.index[i] # x  BY <1>1, <1>4, <1>7
    <2>2. I = {}  BY <1>3, <2>1
    <2> QED  BY <1>5, <1>7, <2>2 DEF n
  <1> QED  BY <1>6, <1>7

\* What one event does to an assembly.
LEMMA OnMessageStart ==
  ASSUME NEW a, ~a.over, NEW e, e.type = "message_start"
  PROVE  Assemble(a, e) = [a EXCEPT !.message = Message(<<>>, "none")]
  BY DEF Assemble

LEMMA OnStart ==
  ASSUME NEW a, ~a.over, NEW e, e.type = "content_block_start", Found(a, e.index) = 0
  PROVE  Assemble(a, e) =
           [a EXCEPT !.blocks = Append(a.blocks, [Block(e.kind) EXCEPT !.data = e.data]),
                     !.index = Append(a.index, e.index)]
  BY DEF Assemble, StartBlock, BlockOf, Found

LEMMA OnDelta ==
  ASSUME NEW a, ~a.over, NEW e, e.type = "content_block_delta", NEW k, k = Found(a, e.index), k # 0
  PROVE  Assemble(a, e) =
           [a EXCEPT !.blocks = [a.blocks EXCEPT ![k] =
             [a.blocks[k] EXCEPT !.data = a.blocks[k].data \o e.data]]]
  BY DEF Assemble, ExtendBlock, BlockOf, Found

LEMMA OnMessageDelta ==
  ASSUME NEW a, ~a.over, NEW e, e.type = "message_delta", a.message # NoMessage
  PROVE  Assemble(a, e) = [a EXCEPT !.message.stop = e.stop]
  BY DEF Assemble

LEMMA OnMessageStop ==
  ASSUME NEW a, ~a.over, NEW e, e.type = "message_stop"
  PROVE  Assemble(a, e) = [a EXCEPT !.over = TRUE]
  BY DEF Assemble

LEMMA OnOther ==
  ASSUME NEW a, ~a.over, NEW e, e.type \in {"ping", "nothing"}
  PROVE  Assemble(a, e) = a
  BY DEF Assemble

\* Each event of a block keeps the assembly in step with the events.
LEMMA KeepsOther ==
  ASSUME NEW s, NEW a, AssemblyOK(s, a), NEW e \in EventSet,
         e.type \notin {"content_block_start", "content_block_delta"},
         NEW c \in Assemblies, c.blocks = a.blocks, c.index = a.index
  PROVE  AssemblyOK(Append(s, e), c)
  BY DescribesOther DEF AssemblyOK

\* A block of a kind as it begins.
Begun(kind) == [kind |-> kind, data |-> <<>>, unparsed |-> kind = "tool_use"]

LEMMA BegunTyped ==
  ASSUME NEW kind \in Kinds
  PROVE  /\ Begun(kind) \in BlockSet
         /\ Begun(kind) = [Block(kind) EXCEPT !.data = <<>>]
  <1>1. <<>> \in Seq(Chunks)  OBVIOUS
  <1>2. (kind = "tool_use") \in BOOLEAN  OBVIOUS
  <1>3. Begun(kind) \in BlockSet  BY <1>1, <1>2 DEF Begun, BlockSet
  <1>4. Block(kind) = Begun(kind)  BY DEF Block, Begun
  <1>5. [Block(kind) EXCEPT !.data = <<>>] = Begun(kind)  BY DEF Block, Begun
  <1> QED  BY <1>3, <1>5

LEMMA KeepsStart ==
  ASSUME NEW s, NEW a, AssemblyOK(s, a), ~a.over, NEW e \in EventSet,
         e.type = "content_block_start", e.index = Len(a.blocks), e.data = <<>>
  PROVE  /\ AssemblyOK(Append(s, e), Assemble(a, e))
         /\ Assemble(a, e).blocks = Append(a.blocks, Begun(e.kind))
         /\ Assemble(a, e).message = a.message /\ ~Assemble(a, e).over
  <1> DEFINE n == Len(a.blocks)
             b == Begun(e.kind)
             bs == Append(a.blocks, b)
             ix == Append(a.index, e.index)
             c1 == [a EXCEPT !.blocks = bs]
             c == [c1 EXCEPT !.index = ix]
  <1>1. a \in Assemblies /\ a.blocks \in Seq(BlockSet) /\ n \in Nat /\ a.index \in Seq(Nat)
    BY DEF AssemblyOK, Assemblies
  <1>2. e.kind \in Kinds /\ e.index \in Nat  BY DEF EventSet
  <1>3. b \in BlockSet /\ b = [Block(e.kind) EXCEPT !.data = e.data]
        /\ b.kind = e.kind /\ b.data = e.data
    BY <1>2, BegunTyped DEF Begun
  <1>4. Found(a, e.index) = 0
    <2>1. ~ (e.index < n)  BY <1>1
    <2> QED  BY <1>2, <2>1, FoundIs
  <1>5. Assemble(a, e) = [a EXCEPT !.blocks = bs, !.index = ix]
    <2> DEFINE x == [Block(e.kind) EXCEPT !.data = e.data]
    <2>1. Assemble(a, e) = [a EXCEPT !.blocks = Append(a.blocks, x), !.index = Append(a.index, e.index)]
      BY <1>4, OnStart
    <2>2. x = b  BY <1>3
    <2> HIDE DEF x, b
    <2> QED  BY <2>1, <2>2
  <1>6. bs \in Seq(BlockSet) /\ Len(bs) = n + 1 /\ ix \in Seq(Nat)
    <2> HIDE DEF b
    <2> QED  BY <1>1, <1>2, <1>3
  <1>7. ix = [i \in 1..(n + 1) |-> i - 1]
    <2>1. a.index = [i \in 1..n |-> i - 1]  BY DEF AssemblyOK
    <2>2. Len(a.index) = n  BY <1>1, <2>1
    <2>3. \A i \in 1..(n + 1) : ix[i] = IF i = n + 1 THEN e.index ELSE a.index[i]
      BY <1>1, <2>2
    <2>4. \A i \in 1..(n + 1) : i # n + 1 => a.index[i] = i - 1
      BY <1>1, <2>1
    <2>5. (n + 1) - 1 = e.index  BY <1>1
    <2>6. \A i \in 1..(n + 1) : ix[i] = i - 1  BY <2>3, <2>4, <2>5
    <2>7. ix = [i \in 1..(n + 1) |-> ix[i]]  BY <1>1, <1>6, <2>2
    <2> HIDE DEF ix, n
    <2> QED  BY <2>6, <2>7
  <1>8. Describes(Append(s, e), bs)
    <2>1. Describes(s, a.blocks)  BY DEF AssemblyOK
    <2> HIDE DEF b
    <2> QED  BY <1>3, <2>1, DescribesStart
  <1> HIDE DEF bs, ix
  <1>9. [a EXCEPT !.blocks = bs, !.index = ix] = c  OBVIOUS
  <1>10. c1 \in Assemblies /\ c1.blocks = bs /\ c1.message = a.message /\ c1.over = a.over
    BY <1>1, <1>6 DEF Assemblies
  <1> HIDE DEF c1
  <1>11. /\ c \in Assemblies /\ c.blocks = bs /\ c.index = ix
         /\ c.message = a.message /\ c.over = a.over
    BY <1>6, <1>10 DEF Assemblies
  <1> HIDE DEF c
  <1>12. AssemblyOK(Append(s, e), c)  BY <1>6, <1>7, <1>8, <1>11 DEF AssemblyOK
  <1> QED  BY <1>5, <1>9, <1>11, <1>12 DEF bs, b

\* The last block is replaced.
LEMMA LastReplaced ==
  ASSUME NEW a \in Assemblies, NEW n, n = Len(a.blocks), n # 0, NEW b \in BlockSet,
         a.index = [i \in 1..n |-> i - 1]
  PROVE  LET c == [a EXCEPT !.blocks = [a.blocks EXCEPT ![n] = b]]
         IN  /\ c \in Assemblies /\ c.message = a.message /\ c.over = a.over
             /\ c.index = [i \in 1..Len(c.blocks) |-> i - 1]
             /\ Len(c.blocks) = n /\ c.blocks[n] = b
             /\ \A i \in 1..n : i # n => c.blocks[i] = a.blocks[i]
  <1> DEFINE bs == [a.blocks EXCEPT ![n] = b]
             c == [a EXCEPT !.blocks = bs]
  <1>1. a.blocks \in Seq(BlockSet) /\ n \in Nat  BY DEF Assemblies
  <1>2. /\ bs \in Seq(BlockSet) /\ Len(bs) = n /\ bs[n] = b
        /\ \A i \in 1..n : i # n => bs[i] = a.blocks[i]
    BY <1>1
  <1> HIDE DEF bs
  <1>3. /\ c \in Assemblies /\ c.blocks = bs /\ c.index = a.index
        /\ c.message = a.message /\ c.over = a.over
    BY <1>2 DEF Assemblies
  <1> HIDE DEF c
  <1>4. c.index = [i \in 1..Len(c.blocks) |-> i - 1]  BY <1>2, <1>3
  <1> QED  BY <1>2, <1>3, <1>4 DEF c, bs

\* The assembly c is a with more data in its last block, the n-th.
Lengthened(a, c, n, data) ==
  /\ c.message = a.message /\ ~c.over /\ Len(c.blocks) = n
  /\ \A i \in 1..n : i # n => c.blocks[i] = a.blocks[i]
  /\ c.blocks[n].kind = a.blocks[n].kind
  /\ c.blocks[n].unparsed = a.blocks[n].unparsed
  /\ c.blocks[n].data = a.blocks[n].data \o data

LEMMA KeepsDelta ==
  ASSUME NEW s, NEW a, AssemblyOK(s, a), ~a.over, NEW e \in EventSet,
         e.type = "content_block_delta", NEW n, n = Len(a.blocks), n # 0, e.index = n - 1
  PROVE  AssemblyOK(Append(s, e), Assemble(a, e)) /\ Lengthened(a, Assemble(a, e), n, e.data)
  <1> DEFINE b == [a.blocks[n] EXCEPT !.data = a.blocks[n].data \o e.data]
             c == [a EXCEPT !.blocks = [a.blocks EXCEPT ![n] = b]]
  <1>1. /\ a \in Assemblies /\ a.blocks \in Seq(BlockSet) /\ n \in Nat /\ n \in 1..n
        /\ a.index = [i \in 1..n |-> i - 1]
    BY DEF AssemblyOK, Assemblies
  <1>2. a.blocks[n] \in BlockSet /\ a.blocks[n].data \in Seq(Chunks) /\ e.data \in Seq(Chunks)
    <2>1. a.blocks[n] \in BlockSet  BY <1>1
    <2>2. e.data \in Seq(Chunks)  BY DEF EventSet
    <2> QED  BY <2>1, <2>2 DEF BlockSet
  <1>3. a.blocks[n].data \o e.data \in Seq(Chunks)  BY <1>2, ConcatTyped
  <1>4. /\ b \in BlockSet /\ b.kind = a.blocks[n].kind /\ b.unparsed = a.blocks[n].unparsed
        /\ b.data = a.blocks[n].data \o e.data
    BY <1>2, <1>3 DEF BlockSet
  <1>5. n = Found(a, e.index)
    <2>1. e.index \in Nat /\ e.index < n /\ e.index + 1 = n  BY <1>1
    <2> QED  BY <2>1, FoundIs
  <1>6. Assemble(a, e) = c  BY ZenonT(60), <1>5, OnDelta
  <1> HIDE DEF b
  <1>7. /\ c \in Assemblies /\ c.message = a.message /\ c.over = a.over
        /\ c.index = [i \in 1..Len(c.blocks) |-> i - 1]
        /\ Len(c.blocks) = n /\ c.blocks[n] = b
        /\ \A i \in 1..n : i # n => c.blocks[i] = a.blocks[i]
    BY SMTT(30), <1>1, <1>4, LastReplaced
  <1> HIDE DEF c
  <1>8. Describes(Append(s, e), c.blocks)
    <2>1. Describes(s, a.blocks) /\ c.blocks \in Seq(BlockSet)
      BY <1>7 DEF AssemblyOK, Assemblies
    <2>2. PICK cs : cs = c.blocks  OBVIOUS
    <2>3. PICK bs : bs = a.blocks  OBVIOUS
    <2>4. \A i \in 1..Len(bs) : /\ cs[i].kind = bs[i].kind
                                /\ cs[i].data = IF i = n THEN bs[i].data \o e.data
                                                         ELSE bs[i].data
      BY <1>4, <1>7, <2>2, <2>3
    <2>5. /\ Describes(s, bs) /\ cs \in Seq(BlockSet) /\ n \in 1..Len(bs)
          /\ e.index = n - 1 /\ Len(cs) = Len(bs)
      BY <1>1, <1>7, <2>1, <2>2, <2>3
    <2>6. Describes(Append(s, e), cs)  BY <2>4, <2>5, DescribesDelta
    <2> QED  BY <2>2, <2>6
  <1>9. AssemblyOK(Append(s, e), c)  BY <1>7, <1>8 DEF AssemblyOK
  <1> QED  BY <1>4, <1>6, <1>7, <1>9 DEF Lengthened

\* Blocks that differ in "_input_json" alone.
LEMMA DescribesSame ==
  ASSUME NEW s, NEW bs, Describes(s, bs), NEW cs \in Seq(BlockSet), Len(cs) = Len(bs),
         \A i \in 1..Len(bs) : cs[i].kind = bs[i].kind /\ cs[i].data = bs[i].data
  PROVE  Describes(s, cs)
  <1> DEFINE n == Len(bs)
  <1>1. n \in Nat /\ {ev.index : ev \in Starts(s)} = 0..(n - 1)  BY DEF Describes
  <1>2. ASSUME NEW ev \in Starts(s) PROVE ev.kind = cs[ev.index + 1].kind
    <2>1. ev.index \in 0..(n - 1)  BY <1>1
    <2>2. ev.index + 1 \in 1..n  BY <1>1, <2>1
    <2>3. ev.kind = bs[ev.index + 1].kind  BY DEF Describes
    <2> QED  BY <2>2, <2>3
  <1>3. ASSUME NEW x \in Nat PROVE DataOf(s, x) = IF x < n THEN cs[x + 1].data ELSE <<>>
    <2>1. DataOf(s, x) = IF x < n THEN bs[x + 1].data ELSE <<>>  BY DEF Describes
    <2>2. x < n => x + 1 \in 1..n  BY <1>1
    <2> QED  BY <2>1, <2>2
  <1> QED  BY <1>1, <1>2, <1>3 DEF Describes

LEMMA KeepsStop ==
  ASSUME NEW s, NEW a, AssemblyOK(s, a), ~a.over, NEW e \in EventSet,
         e.type = "content_block_stop", NEW n, n = Len(a.blocks), n # 0, e.index = n - 1,
         a.blocks[n].unparsed => ParseJson(a.blocks[n].data) = a.blocks[n].data
  PROVE  LET c == Assemble(a, e)
         IN  /\ AssemblyOK(Append(s, e), c) /\ c.message = a.message /\ ~c.over
             /\ Len(c.blocks) = n /\ \A i \in 1..n : i # n => c.blocks[i] = a.blocks[i]
             /\ c.blocks[n].kind = a.blocks[n].kind
             /\ ~c.blocks[n].unparsed
             /\ c.blocks[n].data = a.blocks[n].data
  <1> DEFINE data == a.blocks[n].data
             b == [a.blocks[n] EXCEPT !.data = IF a.blocks[n].unparsed THEN ParseJson(data) ELSE data,
                                      !.unparsed = FALSE]
             d == [a.blocks[n] EXCEPT !.unparsed = FALSE]
             c == [a EXCEPT !.blocks = [a.blocks EXCEPT ![n] = b]]
  <1>1. /\ a \in Assemblies /\ a.blocks \in Seq(BlockSet) /\ n \in Nat /\ n \in 1..n
        /\ a.index = [i \in 1..n |-> i - 1]
    BY DEF AssemblyOK, Assemblies
  <1>2. a.blocks[n] \in BlockSet  BY <1>1
  <1>3. /\ d \in BlockSet /\ d.kind = a.blocks[n].kind /\ d.unparsed = FALSE /\ d.data = data
    BY <1>2 DEF BlockSet
  <1>4. b = d
    <2>1. (IF a.blocks[n].unparsed THEN ParseJson(data) ELSE data) = data  OBVIOUS
    <2>2. [a.blocks[n] EXCEPT !.data = data, !.unparsed = FALSE] = d  BY <1>2 DEF BlockSet
    <2> QED  BY <2>1, <2>2
  <1>5. n = Found(a, e.index)
    <2>1. e.index \in Nat /\ e.index < n /\ e.index + 1 = n  BY <1>1
    <2> QED  BY <2>1, FoundIs
  <1>6. Assemble(a, e) = c
    <2>1. n = BlockOf(a, e)  BY <1>5 DEF Found, BlockOf
    <2>2. Assemble(a, e) = FinishBlock(a, e)  BY DEF Assemble
    <2> QED  BY <2>1, <2>2 DEF FinishBlock
  <1> HIDE DEF b, d
  <1>7. /\ c \in Assemblies /\ c.message = a.message /\ c.over = a.over
        /\ c.index = [i \in 1..Len(c.blocks) |-> i - 1]
        /\ Len(c.blocks) = n /\ c.blocks[n] = b
        /\ \A i \in 1..n : i # n => c.blocks[i] = a.blocks[i]
    BY <1>1, <1>3, <1>4, LastReplaced
  <1> HIDE DEF c
  <1>8. Describes(Append(s, e), c.blocks)
    <2>1. Describes(Append(s, e), a.blocks)  BY DescribesOther DEF AssemblyOK
    <2>2. c.blocks \in Seq(BlockSet)  BY <1>7 DEF Assemblies
    <2>3. \A i \in 1..n : c.blocks[i].kind = a.blocks[i].kind /\ c.blocks[i].data = a.blocks[i].data
      BY <1>3, <1>4, <1>7
    <2> QED  BY <1>1, <1>7, <2>1, <2>2, <2>3, DescribesSame
  <1>9. AssemblyOK(Append(s, e), c)  BY <1>7, <1>8 DEF AssemblyOK
  <1> QED  BY <1>3, <1>4, <1>6, <1>7, <1>9
----------------------------------------------------------------------------
(***************************************************************************)
(* The upstream, event by event.                                           *)
(***************************************************************************)

\* The pieces of a tool's input the upstream has sent.
Gathered(n) == IF n = 0 THEN <<>> ELSE IF n = 1 THEN <<"{">> ELSE Json

\* The stream has said once why the message stops.
Ended(s) == \E p \in 1..Len(s) : Stops(s) = {p} /\ s[p].stop = "end_turn"

\* The events of s have only these types.
Typed(s, types) == \A ev \in ToSet(s) : ev.type \in types

\* What message_start and message_delta have said of a message.
Header(phase) ==
  CASE phase = "start" -> NoMessage
    [] phase = "stop"  -> Message(<<>>, "end_turn")
    [] OTHER           -> Message(<<>>, "none")

\* The block the upstream u is at.
OpenBlock(b, u) ==
  /\ b.kind = u.kind
  /\ b.unparsed = (u.kind = "tool_use")
  /\ u.kind = "tool_use" => b.data = Gathered(u.pieces)

\* The assembly a of the events s, while the upstream is still sending: the
\* blocks before the open one are done, and the message is as far as the phase.
Building(s, a, u) ==
  /\ AssemblyOK(s, a) /\ ~a.over
  /\ Typed(s, AnthropicTypes \cup {"nothing"})
  /\ \A ev \in ToSet(s) : ev.type # "message_stop"
  /\ a.message = Header(u.phase)
  /\ IF u.phase = "stop" THEN Ended(s) ELSE Stops(s) = {}
  /\ Len(a.blocks) = u.blocks + (IF u.phase = "block" THEN 1 ELSE 0)
  /\ \A i \in 1..u.blocks : Done(a.blocks[i])
  /\ u.phase = "block" => OpenBlock(a.blocks[u.blocks + 1], u)

\* The assembly of a complete stream.
Built(s, a) ==
  /\ AssemblyOK(s, a) /\ a.message = Header("stop")
  /\ Finished(a.blocks) /\ Ended(s)

\* What holds of an upstream in the Anthropic format, and of a proxy: its error
\* is the last thing it sends.
AnthropicInv(s, u) ==
  /\ s \in Seq(EventSet)
  /\ Typed(s, AnthropicTypes \cup {"nothing", "error"})
  /\ u.phase # "over" => Building(s, Assembly(s), u)
  /\ u.phase = "over" /\ Complete(s) => Built(s, Assembly(s))

ProxyInv(s, u) ==
  /\ s \in Seq(EventSet)
  /\ Typed(s, ProxyTypes \cup {"nothing", "error"})
  /\ u.phase # "over" => Typed(s, {"stream", "nothing"})
  /\ u.phase = "over" => ~ \E e, d \in ToSet(s) : e.type = "error" /\ d.type = "done"

\* The inductive invariant of the streams.
StreamInv ==
  /\ req.pc \in {"idle", "post", "open"} => events = <<>>
  /\ req.pc \in {"idle", "post", "open"} => up = NoStream
  /\ req.pc = "open" => req.via = "proxy"
  /\ up.format = "anthropic" => AnthropicInv(events, up)
  /\ up.format = "proxy" => ProxyInv(events, up) /\ req.via = "proxy"
  /\ req.pc = "answered" /\ req.reply = "events" => req.answer = Answered(req.streaming)

\* One event more: the places of the message_delta events, which carry the stop.
LEMMA StopsGrow ==
  ASSUME NEW s \in Seq(EventSet), NEW e \in EventSet
  PROVE  /\ Stops(Append(s, e)) = Stops(s) \cup (IF e.type = "message_delta" THEN {Len(s) + 1} ELSE {})
         /\ \A p \in Stops(s) : Append(s, e)[p] = s[p]
         /\ Append(s, e)[Len(s) + 1] = e
  <1>1. PICK n \in Nat : n = Len(s)  OBVIOUS
  <1>2. PICK r : r = Append(s, e)  OBVIOUS
  <1>3. Len(r) = n + 1 /\ (\A i \in 1..n : r[i] = s[i]) /\ r[n + 1] = e  BY <1>1, <1>2
  <1>4. 1..(n + 1) = 1..n \cup {n + 1}  BY <1>1
  <1> QED  BY <1>1, <1>2, <1>3, <1>4 DEF Stops

LEMMA EndedStays ==
  ASSUME NEW s \in Seq(EventSet), NEW e \in EventSet, Ended(s), e.type # "message_delta"
  PROVE  Ended(Append(s, e))
  <1>1. PICK p \in 1..Len(s) : Stops(s) = {p} /\ s[p].stop = "end_turn"  BY DEF Ended
  <1>2. p \in 1..Len(Append(s, e))  OBVIOUS
  <1>3. Stops(Append(s, e)) = {p} /\ Append(s, e)[p] = s[p]  BY <1>1, StopsGrow
  <1> QED  BY <1>1, <1>2, <1>3 DEF Ended

LEMMA EndedNow ==
  ASSUME NEW s \in Seq(EventSet), NEW e \in EventSet, Stops(s) = {}, e.type = "message_delta",
         e.stop = "end_turn"
  PROVE  Ended(Append(s, e))
  <1>1. PICK p \in Nat : p = Len(s) + 1  OBVIOUS
  <1>2. p \in 1..Len(Append(s, e))  BY <1>1
  <1>3. Stops(Append(s, e)) = {p} /\ Append(s, e)[p] = e  BY <1>1, StopsGrow
  <1> QED  BY <1>2, <1>3 DEF Ended

LEMMA TypedGrows ==
  ASSUME NEW s \in Seq(EventSet), NEW e \in EventSet, NEW S, NEW T, Typed(s, S),
         S \subseteq T, e.type \in T
  PROVE  Typed(Append(s, e), T)
  BY ToSetGrows DEF Typed

LEMMA HeadersDiffer ==
  /\ Header("start") = NoMessage
  /\ Header("body") = Message(<<>>, "none") /\ Header("block") = Header("body")
  /\ Header("stop") = Message(<<>>, "end_turn")
  /\ \A m, bs : m \in {"none", "end_turn"} => Message(bs, m) # NoMessage
  /\ \A bs : Message(bs, "none") # Message(bs, "end_turn")
  /\ {Header("body"), Header("stop"), NoMessage} \subseteq Messages
  BY DEF Header, Message, NoMessage, Messages

LEMMA GatheredIs ==
  /\ Gathered(0) = <<>> /\ Gathered(1) = <<"{">> /\ Gathered(2) = Json
  /\ ParseJson(<<>>) = <<>> /\ ParseJson(Json) = Json
  <1>1. Gathered(0) = <<>> /\ Gathered(1) = <<"{">> /\ Gathered(2) = Json  BY DEF Gathered
  <1>2. ParseJson(<<>>) = <<>> /\ ParseJson(Json) = Json  BY DEF ParseJson
  <1> QED  BY <1>1, <1>2

LEMMA AppendOne ==
  ASSUME NEW T, NEW s \in Seq(T), NEW a \in T PROVE s \o <<a>> = Append(s, a)
  OBVIOUS

LEMMA EmptyConcat ==
  ASSUME NEW T, NEW s \in Seq(T) PROVE <<>> \o s = s
  OBVIOUS

\* The two pieces of a tool's input are its JSON.
LEMMA TwoPieces ==
  ASSUME NEW T, NEW x \in T, NEW y \in T
  PROVE  <<x>> \o <<y>> = <<x, y>>
  <1>1. <<>> \in Seq(T) /\ <<x>> \in Seq(T) /\ <<x, y>> \in Seq(T)  OBVIOUS
  <1>2. <<>> \o <<x, y>> = <<x, y>>  BY <1>1, EmptyConcat
  <1>3. <<>> \o <<x>> = <<x>>  BY <1>1, EmptyConcat
  <1>4. <<>> \o <<x, y>> = Append(Append(<<>>, x), y)  BY <1>1, AppendTwo
  <1>5. <<>> \o <<x>> = Append(<<>>, x)  BY <1>1, AppendOne
  <1>6. <<x>> \o <<y>> = Append(<<x>>, y)  BY <1>1, AppendOne
  <1> QED  BY <1>2, <1>3, <1>4, <1>5, <1>6, Zenon

LEMMA GatheredGrows ==
  ASSUME NEW n \in {0, 1} PROVE Gathered(n) \o <<Json[n + 1]>> = Gathered(n + 1)
  <1>1. Json[1] = "{" /\ Json[2] = "}" /\ Json = <<"{", "}">>  BY DEF Json
  <1>2. CASE n = 0
    <2>1. <<"{">> \in Seq({"{", "}"})  OBVIOUS
    <2>2. <<>> \o <<"{">> = <<"{">>  BY <2>1
    <2>3. n + 1 = 1  BY <1>2
    <2> QED  BY <1>1, <1>2, <2>2, <2>3, GatheredIs
  <1>3. CASE n = 1
    <2>1. <<"{">> \o <<"}">> = <<"{", "}">>
      <3>1. "{" \in {"{", "}"} /\ "}" \in {"{", "}"}  OBVIOUS
      <3> QED  BY <3>1, TwoPieces
    <2>2. n + 1 = 2  BY <1>3
    <2> QED  BY <1>1, <1>3, <2>1, <2>2, GatheredIs
  <1> QED  BY <1>2, <1>3

\* A new event of a stream that is not over.
LEMMA Sent ==
  ASSUME NEW s, NEW a, NEW u, Building(s, a, u), NEW e \in EventSet,
         e.type \in AnthropicTypes \cup {"nothing"}
  PROVE  /\ s \in Seq(EventSet) /\ Append(s, e) \in Seq(EventSet)
         /\ Typed(Append(s, e), AnthropicTypes \cup {"nothing"})
         /\ e.type # "message_stop" => \A ev \in ToSet(Append(s, e)) : ev.type # "message_stop"
         /\ Stops(s) = {} /\ e.type # "message_delta" => Stops(Append(s, e)) = {}
         /\ Ended(s) /\ e.type # "message_delta" => Ended(Append(s, e))
  <1>1. s \in Seq(EventSet) /\ Append(s, e) \in Seq(EventSet)
    BY DEF Building, AssemblyOK, Describes
  <1>2. ToSet(Append(s, e)) = ToSet(s) \cup {e}  BY <1>1, ToSetGrows
  <1> QED  BY <1>1, <1>2, TypedGrows, StopsGrow, EndedStays DEF Building

\* Each event the upstream may send keeps the assembly in step with it.
LEMMA NoiseBuilds ==
  ASSUME NEW s, NEW a, NEW u, Building(s, a, u), NEW e \in EventSet,
         e.type \in {"ping", "nothing"}, NEW v, v.phase = u.phase, v.blocks = u.blocks,
         v.kind = u.kind, v.pieces = u.pieces
  PROVE  Building(Append(s, e), Assemble(a, e), v)
  <1>1. Assemble(a, e) = a  BY OnOther DEF Building
  <1>2. AssemblyOK(Append(s, e), a)  BY KeepsOther DEF Building, AssemblyOK
  <1>3. e.type \in AnthropicTypes \cup {"nothing"}  BY DEF AnthropicTypes
  <1> QED  BY <1>1, <1>2, <1>3, Sent DEF Building, OpenBlock

LEMMA MessageStartBuilds ==
  ASSUME NEW s, NEW a, NEW u, Building(s, a, u), u.phase = "start", NEW e \in EventSet,
         e.type = "message_start", NEW v, v.phase = "body", v.blocks = u.blocks
  PROVE  Building(Append(s, e), Assemble(a, e), v)
  <1> DEFINE c == [a EXCEPT !.message = Header("body")]
  <1>1. Assemble(a, e) = c  BY OnMessageStart, HeadersDiffer DEF Building
  <1>2. a \in Assemblies  BY DEF Building, AssemblyOK
  <1>3. /\ c \in Assemblies /\ c.message = Header("body") /\ c.blocks = a.blocks
        /\ c.index = a.index /\ c.over = a.over
    BY <1>2, HeadersDiffer DEF Assemblies
  <1> HIDE DEF c
  <1>4. AssemblyOK(Append(s, e), c)  BY <1>3, KeepsOther DEF Building
  <1>5. e.type \in AnthropicTypes \cup {"nothing"}  BY DEF AnthropicTypes
  <1> QED  BY <1>1, <1>3, <1>4, <1>5, Sent DEF Building

LEMMA BlockStartBuilds ==
  ASSUME NEW s, NEW a, NEW u, Building(s, a, u), u.phase = "body", u.blocks \in Nat,
         NEW e \in EventSet, e.type = "content_block_start", e.index = u.blocks, e.data = <<>>,
         NEW v, v.phase = "block", v.blocks = u.blocks, v.kind = e.kind, v.pieces = 0
  PROVE  Building(Append(s, e), Assemble(a, e), v)
  <1> DEFINE n == u.blocks
             c == Assemble(a, e)
  <1>1. Len(a.blocks) = n  BY DEF Building
  <1>2. /\ AssemblyOK(Append(s, e), c) /\ c.blocks = Append(a.blocks, Begun(e.kind))
        /\ c.message = a.message /\ ~c.over
    BY <1>1, KeepsStart DEF Building
  <1>3. a.blocks \in Seq(BlockSet) /\ Begun(e.kind) \in BlockSet
    <2>1. e.kind \in Kinds  BY DEF EventSet
    <2> QED  BY <2>1, BegunTyped DEF Building, AssemblyOK, Assemblies
  <1> HIDE DEF c
  <1>4. /\ Len(c.blocks) = n + 1 /\ c.blocks[n + 1] = Begun(e.kind)
        /\ \A i \in 1..n : c.blocks[i] = a.blocks[i]
    BY <1>1, <1>2, <1>3
  <1>5. OpenBlock(c.blocks[n + 1], v)
    BY <1>4 DEF OpenBlock, Begun, Gathered
  <1>6. e.type \in AnthropicTypes \cup {"nothing"}  BY SMTT(30) DEF AnthropicTypes
  <1> QED  BY <1>2, <1>4, <1>5, <1>6, HeadersDiffer, Sent DEF Building, c

LEMMA BlockDeltaBuilds ==
  ASSUME NEW s, NEW a, NEW u, Building(s, a, u), u.phase = "block", u.blocks \in Nat,
         u.pieces \in {0, 1}, NEW e \in EventSet, e.type = "content_block_delta",
         e.index = u.blocks, u.kind = "tool_use" => e.data = <<Json[u.pieces + 1]>>,
         NEW v, v.phase = "block", v.blocks = u.blocks, v.kind = u.kind, v.pieces = u.pieces + 1
  PROVE  Building(Append(s, e), Assemble(a, e), v)
  <1> DEFINE n == u.blocks + 1
             c == Assemble(a, e)
  <1>1. Len(a.blocks) = n /\ OpenBlock(a.blocks[n], u)  BY DEF Building
  <1>2. n # 0 /\ e.index = n - 1 /\ \A i \in 1..u.blocks : i \in 1..n /\ i # n  OBVIOUS
  <1> HIDE DEF n
  <1>3. /\ AssemblyOK(Append(s, e), c) /\ c.message = a.message /\ ~c.over
        /\ Len(c.blocks) = n /\ \A i \in 1..n : i # n => c.blocks[i] = a.blocks[i]
        /\ c.blocks[n].kind = a.blocks[n].kind
        /\ c.blocks[n].unparsed = a.blocks[n].unparsed
        /\ c.blocks[n].data = a.blocks[n].data \o e.data
    <2>1. AssemblyOK(s, a) /\ ~a.over  BY DEF Building
    <2>2. n = Len(a.blocks)  BY <1>1
    <2>3. AssemblyOK(Append(s, e), Assemble(a, e)) /\ Lengthened(a, Assemble(a, e), n, e.data)
      BY <1>2, <2>1, <2>2, KeepsDelta
    <2> QED  BY <2>3 DEF Lengthened
  <1> HIDE DEF c
  <1>4. OpenBlock(c.blocks[n], v)
    <2>1. u.kind = "tool_use" => a.blocks[n].data \o e.data = Gathered(u.pieces + 1)
      BY <1>1, GatheredGrows DEF OpenBlock
    <2> QED  BY <1>1, <1>3, <2>1 DEF OpenBlock
  <1>5. \A i \in 1..u.blocks : Done(c.blocks[i])  BY <1>2, <1>3 DEF Building
  <1>6. e.type \in AnthropicTypes \cup {"nothing"}  BY DEF AnthropicTypes
  <1> QED  BY <1>1, <1>3, <1>4, <1>5, <1>6, Sent DEF Building, c, n

LEMMA BlockStopBuilds ==
  ASSUME NEW s, NEW a, NEW u, Building(s, a, u), u.phase = "block", u.blocks \in Nat,
         u.kind = "tool_use" => u.pieces \in {0, 2}, NEW e \in EventSet,
         e.type = "content_block_stop", e.index = u.blocks,
         NEW v, v.phase = "body", v.blocks = u.blocks + 1
  PROVE  Building(Append(s, e), Assemble(a, e), v)
  <1> DEFINE n == u.blocks + 1
             c == Assemble(a, e)
  <1>1. Len(a.blocks) = n /\ OpenBlock(a.blocks[n], u)  BY DEF Building
  <1>2. /\ n # 0 /\ e.index = n - 1
        /\ \A i \in 1..n : i # n => i \in 1..u.blocks
    OBVIOUS
  <1> HIDE DEF n
  <1>3. u.kind = "tool_use" => ParseJson(a.blocks[n].data) = a.blocks[n].data
    <2>1. CASE u.pieces = 0  BY <1>1, <2>1, GatheredIs DEF OpenBlock
    <2>2. CASE u.pieces = 2  BY <1>1, <2>2, GatheredIs DEF OpenBlock
    <2> QED  BY <2>1, <2>2
  <1>4. a.blocks[n].unparsed => ParseJson(a.blocks[n].data) = a.blocks[n].data
    BY <1>1, <1>3 DEF OpenBlock
  <1>5. /\ AssemblyOK(Append(s, e), c) /\ c.message = a.message /\ ~c.over
        /\ Len(c.blocks) = n /\ \A i \in 1..n : i # n => c.blocks[i] = a.blocks[i]
        /\ c.blocks[n].kind = a.blocks[n].kind
        /\ ~c.blocks[n].unparsed
        /\ c.blocks[n].data = a.blocks[n].data
    BY <1>1, <1>2, <1>4, KeepsStop DEF Building
  <1> HIDE DEF c
  <1>6. \A i \in 1..n : Done(c.blocks[i])
    <2>1. Done(c.blocks[n])  BY <1>1, <1>3, <1>5 DEF Done, OpenBlock
    <2>2. \A i \in 1..n : i # n => Done(c.blocks[i])  BY <1>2, <1>5 DEF Building
    <2> QED  BY <2>1, <2>2
  <1>7. e.type \in AnthropicTypes \cup {"nothing"}  BY DEF AnthropicTypes
  <1>8. /\ Typed(Append(s, e), AnthropicTypes \cup {"nothing"})
        /\ \A ev \in ToSet(Append(s, e)) : ev.type # "message_stop"
        /\ Stops(Append(s, e)) = {}
    BY <1>7, Sent DEF Building
  <1>9. a.message = Header(v.phase)  BY HeadersDiffer DEF Building
  <1>10. \A i \in 1..v.blocks : Done(c.blocks[i])  BY <1>6 DEF n
  <1>11. Len(c.blocks) = v.blocks + 0 /\ v.phase # "stop" /\ v.phase # "block"  BY <1>5 DEF n
  <1>12. Building(Append(s, e), c, v)  BY <1>5, <1>8, <1>9, <1>10, <1>11 DEF Building
  <1> QED  BY <1>12 DEF c

LEMMA MessageDeltaBuilds ==
  ASSUME NEW s, NEW a, NEW u, Building(s, a, u), u.phase = "body", NEW e \in EventSet,
         e.type = "message_delta", e.stop = "end_turn", NEW v, v.phase = "stop", v.blocks = u.blocks
  PROVE  Building(Append(s, e), Assemble(a, e), v)
  <1> DEFINE m == [a.message EXCEPT !.stop = "end_turn"]
             c == [a EXCEPT !.message = m]
  <1>1. a \in Assemblies /\ a.message = Header("body")  BY DEF Building, AssemblyOK
  <1>2. Assemble(a, e) = c
    <2>1. a.message # NoMessage  BY <1>1, HeadersDiffer
    <2> QED  BY <2>1, OnMessageDelta DEF Building
  <1>3. m = Header("stop")  BY <1>1, HeadersDiffer DEF Message
  <1> HIDE DEF m
  <1>4. /\ c \in Assemblies /\ c.message = Header("stop") /\ c.blocks = a.blocks
        /\ c.index = a.index /\ c.over = a.over
    BY <1>1, <1>3, HeadersDiffer DEF Assemblies
  <1> HIDE DEF c
  <1>5. AssemblyOK(Append(s, e), c)  BY <1>4, KeepsOther DEF Building
  <1>6. e.type \in AnthropicTypes \cup {"nothing"}  BY DEF AnthropicTypes
  <1>7. Ended(Append(s, e))  BY <1>6, Sent, EndedNow DEF Building
  <1> QED  BY <1>2, <1>4, <1>5, <1>6, <1>7, Sent DEF Building

LEMMA MessageStopBuilds ==
  ASSUME NEW s, NEW a, NEW u, Building(s, a, u), u.phase = "stop", u.blocks \in Nat,
         NEW e \in EventSet, e.type = "message_stop"
  PROVE  Built(Append(s, e), Assemble(a, e))
  <1> DEFINE c == [a EXCEPT !.over = TRUE]
  <1>1. a \in Assemblies /\ a.message = Header("stop") /\ Len(a.blocks) = u.blocks
    BY DEF Building, AssemblyOK
  <1>2. Assemble(a, e) = c  BY OnMessageStop DEF Building
  <1>3. /\ c \in Assemblies /\ c.message = Header("stop") /\ c.blocks = a.blocks
        /\ c.index = a.index
    BY <1>1 DEF Assemblies
  <1> HIDE DEF c
  <1>4. AssemblyOK(Append(s, e), c)  BY <1>3, KeepsOther DEF Building
  <1>5. e.type \in AnthropicTypes \cup {"nothing"}  BY DEF AnthropicTypes
  <1>6. Ended(Append(s, e))  BY <1>5, Sent DEF Building
  <1>7. Finished(a.blocks)
    <2>1. a.blocks \in Seq(BlockSet)  BY <1>1 DEF Assemblies
    <2>2. DOMAIN a.blocks = 1..u.blocks  BY <1>1, <2>1
    <2> QED  BY <2>2 DEF Finished, Building
  <1> QED  BY <1>2, <1>3, <1>4, <1>6, <1>7 DEF Built

\* What a whole stream is read as.
LEMMA BuiltReads ==
  ASSUME NEW s, Built(s, Assembly(s))
  PROVE  \E bs \in Seq(BlockSet) :
           /\ Finished(bs)
           /\ CollectAnthropic(s) = Message(bs, "end_turn")
           /\ Meaning(s) = Message(bs, "end_turn")
  <1> DEFINE a == Assembly(s)
             bs == a.blocks
  <1>1. bs \in Seq(BlockSet) /\ Finished(bs) /\ Describes(s, bs)
    BY DEF Built, AssemblyOK, Assemblies
  <1>2. a.message = Message(<<>>, "end_turn") /\ a.message # NoMessage
    BY HeadersDiffer DEF Built
  <1>3. [Message(<<>>, "end_turn") EXCEPT !.content = bs] = Message(bs, "end_turn")
    BY DEF Message
  <1>4. CollectAnthropic(s) = Message(bs, "end_turn")
    BY <1>2, <1>3 DEF CollectAnthropic
  <1>5. PICK p \in 1..Len(s) : Stops(s) = {p} /\ s[p].stop = "end_turn"  BY DEF Built, Ended
  <1>6. Meaning(s) = Message(bs, "end_turn")  BY <1>1, <1>5, MeaningOfDescribed
  <1> QED  BY <1>1, <1>4, <1>6

LEMMA WholeIsBuilt ==
  ASSUME NEW s, NEW u, AnthropicInv(s, u), Complete(s) PROVE Built(s, Assembly(s))
  BY DEF AnthropicInv, Building, Complete

LEMMA NothingBuilds ==
  ASSUME NEW u, u.phase = "start", u.blocks = 0 PROVE AnthropicInv(<<>>, u) /\ ProxyInv(<<>>, u)
  <1>1. NoAssembly \in Assemblies
    <2>1. <<>> \in Seq(BlockSet) /\ <<>> \in Seq(Nat)  OBVIOUS
    <2>2. NoMessage \in Messages  BY DEF Messages
    <2> QED  BY <2>1, <2>2 DEF NoAssembly, Assemblies
  <1>2. AssemblyOK(<<>>, NoAssembly)
    <2>1. [i \in 1..0 |-> i - 1] = <<>>  OBVIOUS
    <2>2. Len(<<>>) = 0  OBVIOUS
    <2> QED  BY <1>1, <2>1, <2>2, EmptyDescribes DEF AssemblyOK, NoAssembly
  <1>3. \A T : Typed(<<>>, T)  BY DEF Typed, ToSet
  <1>4. Stops(<<>>) = {} /\ ToSet(<<>>) = {} /\ <<>> \in Seq(EventSet)  BY DEF Stops, ToSet
  <1>5. Len(NoAssembly.blocks) = 0 /\ NoAssembly.message = NoMessage /\ ~NoAssembly.over
    BY DEF NoAssembly
  <1>6. Building(<<>>, NoAssembly, u)
    BY <1>2, <1>3, <1>4, <1>5, HeadersDiffer DEF Building
  <1>7. Assembly(<<>>) = NoAssembly  BY AssemblyStarts
  <1> QED  BY <1>3, <1>4, <1>6, <1>7 DEF AnthropicInv, ProxyInv

\* A step of the upstream that does not end the stream.
LEMMA AnthropicGoesOn ==
  ASSUME NEW s, NEW u, AnthropicInv(s, u), u.phase # "over", NEW e \in EventSet,
         e.type \in AnthropicTypes \cup {"nothing"}, NEW v, v.phase # "over",
         Building(Append(s, e), Assemble(Assembly(s), e), v)
  PROVE  AnthropicInv(Append(s, e), v)
  <1>1. s \in Seq(EventSet) /\ Append(s, e) \in Seq(EventSet)  BY DEF AnthropicInv
  <1>2. Assembly(Append(s, e)) = Assemble(Assembly(s), e)  BY <1>1, AssemblyGrows
  <1>3. Typed(Append(s, e), AnthropicTypes \cup {"nothing", "error"})
    BY <1>1, TypedGrows DEF AnthropicInv
  <1> QED  BY <1>1, <1>2, <1>3 DEF AnthropicInv

LEMMA AnthropicEnds ==
  ASSUME NEW s, NEW u, AnthropicInv(s, u), NEW e \in EventSet,
         e.type \in AnthropicTypes, NEW v, v.phase = "over",
         Built(Append(s, e), Assemble(Assembly(s), e))
  PROVE  AnthropicInv(Append(s, e), v)
  <1>1. s \in Seq(EventSet) /\ Append(s, e) \in Seq(EventSet)  BY DEF AnthropicInv
  <1>2. Assembly(Append(s, e)) = Assemble(Assembly(s), e)  BY <1>1, AssemblyGrows
  <1>3. Typed(Append(s, e), AnthropicTypes \cup {"nothing", "error"})
    BY <1>1, TypedGrows DEF AnthropicInv
  <1> QED  BY <1>1, <1>2, <1>3 DEF AnthropicInv

LEMMA AnthropicFails ==
  ASSUME NEW s, NEW u, AnthropicInv(s, u), NEW e \in EventSet, e.type = "error",
         NEW v, v.phase = "over"
  PROVE  AnthropicInv(Append(s, e), v)
  <1>1. s \in Seq(EventSet) /\ Append(s, e) \in Seq(EventSet)  BY DEF AnthropicInv
  <1>2. Typed(Append(s, e), AnthropicTypes \cup {"nothing", "error"})
    BY <1>1, TypedGrows DEF AnthropicInv
  <1>3. ~Complete(Append(s, e))  BY <1>1, ToSetGrows DEF Complete
  <1> QED  BY <1>1, <1>2, <1>3 DEF AnthropicInv

LEMMA ProxyGoesOn ==
  ASSUME NEW s, NEW u, ProxyInv(s, u), u.phase # "over", NEW e \in EventSet,
         e.type \in {"stream", "nothing"},
         NEW v, v.phase # "over"
  PROVE  ProxyInv(Append(s, e), v)
  <1>1. s \in Seq(EventSet) /\ Append(s, e) \in Seq(EventSet)  BY DEF ProxyInv
  <1>2. Typed(Append(s, e), ProxyTypes \cup {"nothing", "error"})
        /\ Typed(Append(s, e), {"stream", "nothing"})
    BY <1>1, TypedGrows DEF ProxyInv, ProxyTypes
  <1> QED  BY <1>1, <1>2 DEF ProxyInv

LEMMA ProxyEnds ==
  ASSUME NEW s, NEW u, ProxyInv(s, u), u.phase # "over", NEW e \in EventSet,
         e.type \in {"done", "error"}, NEW v, v.phase = "over"
  PROVE  ProxyInv(Append(s, e), v)
  <1>1. s \in Seq(EventSet) /\ Append(s, e) \in Seq(EventSet)  BY DEF ProxyInv
  <1>2. Typed(Append(s, e), ProxyTypes \cup {"nothing", "error"})
    BY <1>1, TypedGrows DEF ProxyInv, ProxyTypes
  <1>3. ToSet(Append(s, e)) = ToSet(s) \cup {e}  BY <1>1, ToSetGrows
  <1>4. \A d \in ToSet(s) : d.type \notin {"done", "error"}  BY DEF ProxyInv, Typed
  <1> QED  BY <1>1, <1>2, <1>3, <1>4 DEF ProxyInv
----------------------------------------------------------------------------
(***************************************************************************)
(* The steps of the bridge.                                                *)
(***************************************************************************)

\* An event of a block.
LEMMA IndexSent ==
  ASSUME NEW type \in AnthropicTypes \cup ProxyTypes \cup {"error", "nothing"}, NEW x \in Nat
  PROVE  LET i == [Plain(type) EXCEPT !.index = x]
         IN  i \in EventSet /\ i.type = type /\ i.index = x /\ i.data = <<>>
  <1> DEFINE e == Plain(type)
  <1>1. e \in EventSet /\ e.type = type /\ e.data = <<>>  BY PlainTyped
  <1> HIDE DEF e
  <1>2. /\ [e EXCEPT !.index = x] \in EventSet /\ [e EXCEPT !.index = x].type = type
        /\ [e EXCEPT !.index = x].index = x /\ [e EXCEPT !.index = x].data = <<>>
    BY <1>1, IndexSet
  <1> QED  BY <1>2 DEF e

\* Nothing of the stream changes.
LEMMA StreamKept ==
  ASSUME StreamInv, req' = req, up' = up, events' = events PROVE StreamInv'
  BY DEF StreamInv, Answered

\* There is no stream.
LEMMA NoStreamYet ==
  ASSUME up' = NoStream, events' = <<>>, req'.pc # "answered",
         req'.pc = "open" => req'.via = "proxy"
  PROVE  StreamInv'
  <1>1. NoStream.phase = "start" /\ NoStream.blocks = 0 /\ NoStream.format = "anthropic"
    BY DEF NoStream
  <1>2. AnthropicInv(<<>>, NoStream)  BY <1>1, NothingBuilds
  <1> QED  BY <1>1, <1>2 DEF StreamInv

LEMMA ReplyStream ==
  ASSUME TypeInv, StreamInv, NEW reply, NEW a, Reply(reply, a),
         reply = "events" => a = Answered(req.streaming)
  PROVE  StreamInv'
  <1> DEFINE r == [req EXCEPT !.pc = "answered", !.reply = reply, !.answer = a]
  <1>1. ReqOK(req)  BY TypesSplit DEF TypeInv
  <1>2. /\ r.pc = "answered" /\ r.reply = reply /\ r.answer = a /\ r.via = req.via
        /\ r.streaming = req.streaming
    BY <1>1 DEF ReqOK
  <1>3. req' = r /\ up' = up /\ events' = events  BY DEF Reply, streamVars
  <1> HIDE DEF r
  <1> QED  BY <1>2, <1>3 DEF StreamInv, Answered

LEMMA StreamStartsStream ==
  ASSUME TypeInv, StreamInv, req.pc \in {"post", "open"}, NEW format \in {"anthropic", "proxy"},
         format = "proxy" => req.via = "proxy", StreamStarts(format)
  PROVE  StreamInv'
  <1> DEFINE r == [req EXCEPT !.pc = "read", !.reply = "events", !.tries = 0]
             u == [NoStream EXCEPT !.format = format]
  <1>1. ReqOK(req)  BY TypesSplit DEF TypeInv
  <1>2. r.pc = "read" /\ r.via = req.via  BY <1>1 DEF ReqOK
  <1>3. u.phase = "start" /\ u.blocks = 0 /\ u.format = format  BY DEF NoStream
  <1>4. req' = r /\ up' = u /\ events' = <<>>  BY DEF StreamStarts, StreamInv
  <1> HIDE DEF r, u
  <1>5. AnthropicInv(<<>>, u) /\ ProxyInv(<<>>, u)  BY <1>3, NothingBuilds
  <1> QED  BY <1>2, <1>3, <1>4, <1>5 DEF StreamInv

LEMMA PostStream == ASSUME TypeInv, StreamInv, PostStep PROVE StreamInv'
  <1>1. CASE Refused  BY <1>1, ReplyStream DEF Refused
  <1>2. ASSUME NEW body \in Bodies, PostAnsweredJson(body) PROVE StreamInv'
    <2>1. body # "events"  BY DEF Bodies
    <2> QED  BY <1>2, <2>1, ReplyStream DEF PostAnsweredJson
  <1>3. CASE PostAccepted
    <2> DEFINE r == [req EXCEPT !.pc = "open"]
    <2>1. ReqOK(req)  BY TypesSplit DEF TypeInv
    <2>2. r.pc = "open" /\ r.via = req.via  BY <2>1 DEF ReqOK
    <2>3. req' = r /\ up' = up /\ events' = events /\ req.via = "proxy" /\ req.pc = "post"
      BY <1>3 DEF PostAccepted, streamVars
    <2>4. up = NoStream /\ events = <<>>  BY <2>3 DEF StreamInv
    <2> HIDE DEF r
    <2> QED  BY <2>2, <2>3, <2>4, NoStreamYet
  <1>4. ASSUME NEW format \in {"anthropic", "proxy"}, PostAnsweredEvents(format) PROVE StreamInv'
    <2>1. req.via \in {"direct", "proxy"}  BY TypesSplit DEF TypeInv, ReqOK, Modes
    <2> QED  BY <1>4, <2>1, StreamStartsStream DEF PostAnsweredEvents
  <1> QED  BY <1>1, <1>2, <1>3, <1>4 DEF PostStep

LEMMA OpenStream == ASSUME TypeInv, StreamInv, OpenStep PROVE StreamInv'
  <1>1. CASE OpenAgain
    <2> DEFINE tries == req.tries + 1
               r == [req EXCEPT !.tries = tries]
    <2>1. ReqOK(req)  BY TypesSplit DEF TypeInv
    <2> HIDE DEF tries
    <2>2. r.pc = req.pc /\ r.via = req.via  BY <2>1 DEF ReqOK
    <2>3. req' = r /\ up' = up /\ events' = events /\ req.pc = "open"
      BY <1>1 DEF OpenAgain, streamVars, tries
    <2>4. up = NoStream /\ events = <<>> /\ req.via = "proxy"  BY <2>3 DEF StreamInv
    <2> HIDE DEF r
    <2> QED  BY <2>2, <2>3, <2>4, NoStreamYet
  <1>2. CASE OpenRefused  BY <1>2, ReplyStream DEF OpenRefused
  <1>3. ASSUME NEW body \in Bodies, OpenedJson(body) PROVE StreamInv'
    <2>1. body # "events"  BY DEF Bodies
    <2> QED  BY <1>3, <2>1, ReplyStream DEF OpenedJson
  <1>4. ASSUME NEW format \in {"anthropic", "proxy"}, OpenedEvents(format) PROVE StreamInv'
    <2>1. req.pc = "open" /\ req.via = "proxy"  BY <1>4 DEF OpenedEvents, StreamInv
    <2> QED  BY <1>4, <2>1, StreamStartsStream DEF OpenedEvents
  <1> QED  BY <1>1, <1>2, <1>3, <1>4 DEF OpenStep

LEMMA ReadStream == ASSUME TypeInv, StreamInv, ReadStep PROVE StreamInv'
  <1>1. CASE EndOfStream  BY <1>1, ReplyStream DEF EndOfStream
  <1>2. CASE ReadFails  BY <1>2, ReplyStream DEF ReadFails
  <1> QED  BY <1>1, <1>2 DEF ReadStep

\* The upstream sends an event.
LEMMA SendStream ==
  ASSUME StreamInv, NEW e, NEW v, Send(e, v), v.format = up.format,
         up.format = "anthropic" => AnthropicInv(Append(events, e), v),
         up.format = "proxy" => ProxyInv(Append(events, e), v)
  PROVE  StreamInv'
  BY DEF StreamInv, Send

LEMMA KnownTypes ==
  /\ {"message_start", "message_delta", "message_stop", "ping", "content_block_start",
      "content_block_delta", "content_block_stop"} \subseteq AnthropicTypes
  /\ {"stream", "done"} \subseteq ProxyTypes
  BY DEF AnthropicTypes, ProxyTypes

LEMMA UpstreamStream == ASSUME TypeInv, StreamInv, UpstreamStep PROVE StreamInv'
  <1>1. /\ up \in Streams /\ up.blocks \in Nat /\ up.pieces \in 0..2
        /\ up.format \in {"anthropic", "proxy"}
    BY TypesSplit, BridgeAssumption DEF TypeInv, Streams
  <1>2. up.format = "anthropic" => AnthropicInv(events, up)  BY DEF StreamInv
  <1>3. up.format = "proxy" => ProxyInv(events, up)  BY DEF StreamInv
  <1>4. up.format = "anthropic" /\ up.phase # "over" => Building(events, Assembly(events), up)
    BY <1>2 DEF AnthropicInv
  <1>5. CASE SendNoise
    <2> DEFINE noise == up.noise + 1
               v == [up EXCEPT !.noise = noise]
    <2>1. PICK type \in {"ping", "nothing"} :
            (type = "ping" => up.format = "anthropic") /\ Send(Plain(type), v)
      BY <1>5 DEF SendNoise
    <2>2. up.phase # "over"  BY <1>5 DEF SendNoise
    <2> HIDE DEF noise
    <2>3. /\ v.format = up.format /\ v.phase = up.phase /\ v.blocks = up.blocks
          /\ v.kind = up.kind /\ v.pieces = up.pieces
      BY <1>1 DEF Streams
    <2> HIDE DEF v
    <2> DEFINE e == Plain(type)
    <2>4. e \in EventSet /\ e.type = type  BY KnownTypes, PlainTyped
    <2> HIDE DEF e
    <2>5. up.format = "anthropic" => AnthropicInv(Append(events, e), v)
      BY <1>2, <1>4, <2>2, <2>3, <2>4, KnownTypes, NoiseBuilds, AnthropicGoesOn
    <2>6. up.format = "proxy" => ProxyInv(Append(events, e), v)
      BY <1>3, <2>1, <2>2, <2>3, <2>4, ProxyGoesOn
    <2> QED  BY <2>1, <2>3, <2>5, <2>6, SendStream DEF e
  <1>6. CASE SendError
    <2> DEFINE v == [up EXCEPT !.phase = "over"]
               e == Plain("error")
    <2>1. Send(e, v) /\ up.phase # "over"  BY <1>6 DEF SendError
    <2>2. v.format = up.format /\ v.phase = "over"  BY <1>1 DEF Streams
    <2>3. e \in EventSet /\ e.type = "error"  BY PlainTyped
    <2> HIDE DEF v, e
    <2>4. up.format = "anthropic" => AnthropicInv(Append(events, e), v)
      BY <1>2, <2>2, <2>3, AnthropicFails
    <2>5. up.format = "proxy" => ProxyInv(Append(events, e), v)
      BY <1>3, <2>1, <2>2, <2>3, ProxyEnds
    <2> QED  BY <2>1, <2>2, <2>4, <2>5, SendStream
  <1>7. CASE SendMessageStart
    <2> DEFINE v == [up EXCEPT !.phase = "body"]
               e == Plain("message_start")
    <2>1. Send(e, v) /\ up.phase = "start" /\ up.format = "anthropic"
      BY <1>7 DEF SendMessageStart
    <2>2. v.format = up.format /\ v.phase = "body" /\ v.blocks = up.blocks  BY <1>1 DEF Streams
    <2>3. e \in EventSet /\ e.type = "message_start"  BY KnownTypes, PlainTyped
    <2> HIDE DEF v, e
    <2>4. Building(Append(events, e), Assemble(Assembly(events), e), v)
      BY <1>4, <2>1, <2>2, <2>3, MessageStartBuilds
    <2>5. AnthropicInv(Append(events, e), v)
      BY <1>2, <2>1, <2>2, <2>3, <2>4, KnownTypes, AnthropicGoesOn
    <2> QED  BY <2>1, <2>2, <2>5, SendStream
  <1>8. ASSUME NEW kind \in {"text", "tool_use", "thinking"}, SendBlockStart(kind)
        PROVE  StreamInv'
    <2> DEFINE v == [up EXCEPT !.phase = "block", !.kind = kind, !.pieces = 0]
               e == [[Plain("content_block_start") EXCEPT !.index = up.blocks] EXCEPT !.kind = kind]
    <2>1. Send(e, v) /\ up.phase = "body" /\ up.format = "anthropic"
      BY <1>8 DEF SendBlockStart
    <2>2. /\ v.format = up.format /\ v.phase = "block" /\ v.blocks = up.blocks
          /\ v.kind = kind /\ v.pieces = 0
      BY <1>1 DEF Streams
    <2>3. /\ e \in EventSet /\ e.type = "content_block_start" /\ e.index = up.blocks
          /\ e.kind = kind /\ e.data = <<>>
      <3> DEFINE i == [Plain("content_block_start") EXCEPT !.index = up.blocks]
      <3>1. kind \in Kinds  BY DEF Kinds
      <3>2. /\ i \in EventSet /\ i.type = "content_block_start" /\ i.index = up.blocks
            /\ i.data = <<>>
        BY <1>1, KnownTypes, IndexSent
      <3> HIDE DEF i
      <3>3. /\ [i EXCEPT !.kind = kind] \in EventSet
            /\ [i EXCEPT !.kind = kind].type = "content_block_start"
            /\ [i EXCEPT !.kind = kind].index = up.blocks
            /\ [i EXCEPT !.kind = kind].kind = kind /\ [i EXCEPT !.kind = kind].data = <<>>
        BY <3>1, <3>2, KindSet
      <3> QED  BY <3>3 DEF i
    <2> HIDE DEF v, e
    <2>4. Building(Append(events, e), Assemble(Assembly(events), e), v)
      BY <1>1, <1>4, <2>1, <2>2, <2>3, BlockStartBuilds
    <2>5. AnthropicInv(Append(events, e), v)
      BY <1>2, <2>1, <2>2, <2>3, <2>4, KnownTypes, AnthropicGoesOn
    <2> QED  BY <2>1, <2>2, <2>5, SendStream
  <1>9. CASE SendBlockDelta
    <2> DEFINE pieces == up.pieces + 1
               data == IF up.kind = "tool_use" THEN <<Json[pieces]>> ELSE <<"text">>
               v == [up EXCEPT !.pieces = pieces]
               e == [[Plain("content_block_delta") EXCEPT !.index = up.blocks] EXCEPT !.data = data]
    <2>1. Send(e, v) /\ up.phase = "block" /\ up.format = "anthropic" /\ up.pieces \in {0, 1}
      BY <1>1, <1>9 DEF SendBlockDelta
    <2>d. data \in Seq(Chunks)
      <3>1. pieces \in {1, 2}  BY <2>1
      <3>2. \A n \in {1, 2} : Json[n] \in Chunks
        <4>1. Json[1] = "{" /\ Json[2] = "}"  BY DEF Json
        <4>2. Json[1] \in Chunks /\ Json[2] \in Chunks  BY <4>1 DEF Chunks
        <4> QED  BY <4>2
      <3>3. "text" \in Chunks  BY DEF Chunks
      <3> HIDE DEF pieces
      <3>4. Json[pieces] \in Chunks  BY <3>1, <3>2
      <3> QED  BY <3>3, <3>4
    <2>2. up.kind = "tool_use" => data = <<Json[up.pieces + 1]>>  OBVIOUS
    <2> HIDE DEF data
    <2>3. /\ e \in EventSet /\ e.type = "content_block_delta" /\ e.index = up.blocks
          /\ e.data = data
      <3> DEFINE i == [Plain("content_block_delta") EXCEPT !.index = up.blocks]
      <3>1. i \in EventSet /\ i.type = "content_block_delta" /\ i.index = up.blocks
        BY <1>1, KnownTypes, IndexSent
      <3> HIDE DEF i
      <3>2. /\ [i EXCEPT !.data = data] \in EventSet
            /\ [i EXCEPT !.data = data].type = "content_block_delta"
            /\ [i EXCEPT !.data = data].index = up.blocks /\ [i EXCEPT !.data = data].data = data
        BY <2>d, <3>1, DataSet
      <3> QED  BY <3>2 DEF i
    <2>4. pieces = up.pieces + 1  OBVIOUS
    <2> HIDE DEF pieces, e
    <2>5. /\ v.format = up.format /\ v.phase = up.phase /\ v.blocks = up.blocks
          /\ v.kind = up.kind /\ v.pieces = pieces
      BY <1>1 DEF Streams
    <2> HIDE DEF v
    <2>6. Building(Append(events, e), Assemble(Assembly(events), e), v)
      BY <1>1, <1>4, <2>1, <2>2, <2>3, <2>4, <2>5, BlockDeltaBuilds
    <2>7. AnthropicInv(Append(events, e), v)
      BY <1>2, <2>1, <2>3, <2>5, <2>6, KnownTypes, AnthropicGoesOn
    <2> QED  BY <2>1, <2>5, <2>7, SendStream
  <1>10. CASE SendBlockStop
    <2> DEFINE blocks == up.blocks + 1
               v == [up EXCEPT !.phase = "body", !.kind = "none", !.blocks = blocks, !.pieces = 0]
               e == [Plain("content_block_stop") EXCEPT !.index = up.blocks]
    <2>1. Send(e, v) /\ up.phase = "block" /\ up.format = "anthropic"
      BY <1>10 DEF SendBlockStop
    <2>2. up.kind = "tool_use" => up.pieces \in {0, 2}  BY <1>1, <1>10 DEF SendBlockStop
    <2>3. e \in EventSet /\ e.type = "content_block_stop" /\ e.index = up.blocks
      BY <1>1, KnownTypes, IndexSent
    <2>4. blocks = up.blocks + 1  OBVIOUS
    <2> HIDE DEF blocks, e
    <2>5. v.format = up.format /\ v.phase = "body" /\ v.blocks = blocks  BY <1>1 DEF Streams
    <2> HIDE DEF v
    <2>6. Building(Append(events, e), Assemble(Assembly(events), e), v)
      BY <1>1, <1>4, <2>1, <2>2, <2>3, <2>4, <2>5, BlockStopBuilds
    <2>7. AnthropicInv(Append(events, e), v)
      BY <1>2, <2>1, <2>3, <2>5, <2>6, KnownTypes, AnthropicGoesOn
    <2> QED  BY <2>1, <2>5, <2>7, SendStream
  <1>11. CASE SendMessageDelta
    <2> DEFINE v == [up EXCEPT !.phase = "stop"]
               e == [Plain("message_delta") EXCEPT !.stop = "end_turn"]
    <2>1. Send(e, v) /\ up.phase = "body" /\ up.format = "anthropic"
      BY <1>11 DEF SendMessageDelta
    <2>2. v.format = up.format /\ v.phase = "stop" /\ v.blocks = up.blocks  BY <1>1 DEF Streams
    <2>3. e \in EventSet /\ e.type = "message_delta" /\ e.stop = "end_turn"
      <3> DEFINE d == Plain("message_delta")
      <3>1. d \in EventSet /\ d.type = "message_delta"  BY KnownTypes, PlainTyped
      <3> HIDE DEF d
      <3>2. /\ [d EXCEPT !.stop = "end_turn"] \in EventSet
            /\ [d EXCEPT !.stop = "end_turn"].type = "message_delta"
            /\ [d EXCEPT !.stop = "end_turn"].stop = "end_turn"
        BY <3>1, StopSet
      <3> QED  BY <3>2 DEF d
    <2> HIDE DEF v, e
    <2>4. Building(Append(events, e), Assemble(Assembly(events), e), v)
      BY <1>4, <2>1, <2>2, <2>3, MessageDeltaBuilds
    <2>5. AnthropicInv(Append(events, e), v)
      BY <1>2, <2>1, <2>2, <2>3, <2>4, KnownTypes, AnthropicGoesOn
    <2> QED  BY <2>1, <2>2, <2>5, SendStream
  <1>12. CASE SendMessageStop
    <2> DEFINE v == [up EXCEPT !.phase = "over"]
               e == Plain("message_stop")
    <2>1. Send(e, v) /\ up.phase = "stop" /\ up.format = "anthropic"
      BY <1>12 DEF SendMessageStop
    <2>2. v.format = up.format /\ v.phase = "over"  BY <1>1 DEF Streams
    <2>3. e \in EventSet /\ e.type = "message_stop"  BY KnownTypes, PlainTyped
    <2> HIDE DEF v, e
    <2>4. Built(Append(events, e), Assemble(Assembly(events), e))
      BY <1>1, <1>4, <2>1, <2>3, MessageStopBuilds
    <2>5. AnthropicInv(Append(events, e), v)
      BY <1>2, <2>1, <2>2, <2>3, <2>4, KnownTypes, AnthropicEnds
    <2> QED  BY <2>1, <2>2, <2>5, SendStream
  <1>13. CASE SendProxyDelta
    <2> DEFINE pieces == up.pieces + 1
               v == [up EXCEPT !.pieces = pieces]
               e == [Plain("stream") EXCEPT !.data = <<"text">>]
    <2>1. Send(e, v) /\ up.phase = "start" /\ up.format = "proxy"
      BY <1>13 DEF SendProxyDelta
    <2> HIDE DEF pieces
    <2>2. v.format = up.format /\ v.phase = up.phase  BY <1>1 DEF Streams
    <2>3. e \in EventSet /\ e.type = "stream"
      <3>1. <<"text">> \in Seq(Chunks)  BY DEF Chunks
      <3> DEFINE d == Plain("stream")
      <3>2. d \in EventSet /\ d.type = "stream"  BY KnownTypes, PlainTyped
      <3> HIDE DEF d
      <3>3. /\ [d EXCEPT !.data = <<"text">>] \in EventSet
            /\ [d EXCEPT !.data = <<"text">>].type = "stream"
        BY <3>1, <3>2, DataSet
      <3> QED  BY <3>3 DEF d
    <2> HIDE DEF v, e
    <2>4. ProxyInv(Append(events, e), v)  BY <1>3, <2>1, <2>2, <2>3, ProxyGoesOn
    <2> QED  BY <2>1, <2>2, <2>4, SendStream
  <1>14. ASSUME NEW kind \in {"text", "message"}, SendProxyDone(kind) PROVE StreamInv'
    <2> DEFINE v == [up EXCEPT !.phase = "over"]
               e == [[Plain("done") EXCEPT !.kind = kind] EXCEPT !.data = <<"text", "text">>]
    <2>1. Send(e, v) /\ up.phase = "start" /\ up.format = "proxy"
      BY <1>14 DEF SendProxyDone
    <2>2. v.format = up.format /\ v.phase = "over"  BY <1>1 DEF Streams
    <2>3. e \in EventSet /\ e.type = "done"
      <3>1. <<"text", "text">> \in Seq(Chunks)
        <4>1. "text" \in Chunks  BY DEF Chunks
        <4> QED  BY <4>1
      <3> DEFINE d == Plain("done")
                 k == [d EXCEPT !.kind = kind]
      <3>2. d \in EventSet /\ d.type = "done"  BY KnownTypes, PlainTyped
      <3> HIDE DEF d
      <3>3. kind \in Kinds  BY DEF Kinds
      <3>4. k \in EventSet /\ k.type = "done"  BY <3>2, <3>3, KindSet
      <3> HIDE DEF k
      <3>5. /\ [k EXCEPT !.data = <<"text", "text">>] \in EventSet
            /\ [k EXCEPT !.data = <<"text", "text">>].type = "done"
        BY <3>1, <3>4, DataSet
      <3> QED  BY <3>5 DEF d, k
    <2> HIDE DEF v, e
    <2>4. ProxyInv(Append(events, e), v)  BY <1>3, <2>1, <2>2, <2>3, ProxyEnds
    <2> QED  BY <2>1, <2>2, <2>4, SendStream
  <1> QED
    BY <1>5, <1>6, <1>7, <1>8, <1>9, <1>10, <1>11, <1>12, <1>13, <1>14 DEF UpstreamStep

LEMMA InitStream == Init => StreamInv
  <1> SUFFICES ASSUME Init PROVE StreamInv  OBVIOUS
  <1>1. up = NoStream /\ events = <<>> /\ req.pc = "idle"  BY DEF Init, NoRequest
  <1>2. NoStream.phase = "start" /\ NoStream.blocks = 0 /\ NoStream.format = "anthropic"
    BY DEF NoStream
  <1>3. AnthropicInv(<<>>, NoStream)  BY <1>2, NothingBuilds
  <1> QED  BY <1>1, <1>2, <1>3 DEF StreamInv

LEMMA NextStream == TypeInv /\ StreamInv /\ [Next]_vars => StreamInv'
  <1> SUFFICES ASSUME TypeInv, StreamInv, [Next]_vars PROVE StreamInv'  OBVIOUS
  <1>1. ASSUME NEW m \in Modes, SetMode(m) PROVE StreamInv'
    BY <1>1, StreamKept DEF SetMode
  <1>2. CASE Restart
    BY <1>2, NoStreamYet DEF Restart, NoRequest
  <1>3. ASSUME NEW streaming \in BOOLEAN, Dispatch(streaming) PROVE StreamInv'
    <2> DEFINE r == [NoRequest EXCEPT !.pc = "post", !.streaming = streaming, !.via = mode]
    <2>1. req' = r /\ up' = up /\ events' = events /\ req.pc = "idle"
      BY <1>3 DEF Dispatch, streamVars
    <2>2. r.pc = "post"  BY DEF NoRequest
    <2>3. up = NoStream /\ events = <<>>  BY <2>1 DEF StreamInv
    <2> HIDE DEF r
    <2> QED  BY <2>1, <2>2, <2>3, NoStreamYet
  <1>4. CASE Deliver
    BY <1>4, NoStreamYet DEF Deliver, NoRequest
  <1>5. CASE UNCHANGED vars
    BY <1>5, StreamKept DEF vars
  <1> QED
    BY <1>1, <1>2, <1>3, <1>4, <1>5, PostStream, OpenStream, ReadStream, UpstreamStream DEF Next

\* The inductive invariant: at each point of a stream, what is assembled of it
\* is what it means so far.
THEOREM StreamsAreFollowed == Spec => []StreamInv
  <1>1. BridgeInv => TypeInv  BY DEF BridgeInv
  <1> QED  BY <1>1, InitStream, NextStream, ModesAreSound, PTL DEF Spec

\* A client that does not stream gets the message of a complete stream, with
\* any number of blocks (bridge/bridge.py, _collect_anthropic_events).
THEOREM CollectsTheMeaning == Spec => []CollectedIsMeant
  <1>1. StreamInv => CollectedIsMeant
    <2> SUFFICES ASSUME StreamInv, up.format = "anthropic", Complete(events)
                 PROVE  CollectAnthropic(events) = Meaning(events)
      BY DEF CollectedIsMeant
    <2>1. Built(events, Assembly(events))  BY WholeIsBuilt DEF StreamInv
    <2> QED  BY <2>1, BuiltReads
  <1> QED  BY <1>1, StreamsAreFollowed, PTL
----------------------------------------------------------------------------
(***************************************************************************)
(* What the client reads.                                                  *)
(***************************************************************************)

\* The least and the greatest of some of the places of a sequence.
LEMMA MinIn ==
  ASSUME NEW n \in Nat, NEW I \in SUBSET (1..n), I # {} PROVE Min(I) \in I
  <1> DEFINE Least(J) == \E x \in J : \A y \in J : x <= y
             S == {k \in Nat : \A J \in SUBSET Nat : (\E j \in J : j <= k) => Least(J)}
  <1>1. 0 \in S  OBVIOUS
  <1>2. ASSUME NEW k \in Nat, k \in S PROVE k + 1 \in S
    <2> SUFFICES ASSUME NEW J \in SUBSET Nat, NEW j \in J, j <= k + 1 PROVE Least(J)  OBVIOUS
    <2>1. CASE \E i \in J : i <= k  BY <1>2, <2>1
    <2>2. CASE ~ \E i \in J : i <= k
      <3>1. \A y \in J : j <= y  BY <2>2
      <3> QED  BY <3>1
    <2> QED  BY <2>1, <2>2
  <1> HIDE DEF S
  <1>3. Nat \subseteq S  BY <1>1, <1>2, SetInduction
  <1>4. \E j \in I : j <= n
    <2>1. PICK j \in I : TRUE  OBVIOUS
    <2>2. j <= n  OBVIOUS
    <2> QED  BY <2>2
  <1>5. Least(I)
    <2>1. n \in S /\ I \in SUBSET Nat  BY <1>3
    <2> QED  BY <1>4, <2>1 DEF S
  <1>6. (CHOOSE x \in I : \A y \in I : x <= y) \in I  BY <1>5
  <1> QED  BY <1>6 DEF Min

LEMMA MaxIn ==
  ASSUME NEW n \in Nat, NEW I \in SUBSET (1..n), I # {} PROVE Max(I) \in I
  <1> DEFINE Greatest(J) == \E x \in J : \A y \in J : x >= y
             S == {k \in Nat : \A J \in SUBSET (1..k) : J # {} => Greatest(J)}
  <1>1. 0 \in S
    <2>1. \A J \in SUBSET (1..0) : J = {}  OBVIOUS
    <2> QED  BY <2>1
  <1>2. ASSUME NEW k \in Nat, k \in S PROVE k + 1 \in S
    <2> SUFFICES ASSUME NEW J \in SUBSET (1..(k + 1)), J # {} PROVE Greatest(J)  OBVIOUS
    <2>1. CASE k + 1 \in J
      <3>1. \A y \in J : k + 1 >= y  OBVIOUS
      <3> QED  BY <2>1, <3>1
    <2>2. CASE k + 1 \notin J
      <3>1. J \in SUBSET (1..k)  BY <2>2
      <3> QED  BY <1>2, <3>1
    <2> QED  BY <2>1, <2>2
  <1> HIDE DEF S
  <1>3. Nat \subseteq S  BY <1>1, <1>2, SetInduction
  <1>4. Greatest(I)  BY <1>3 DEF S
  <1>5. (CHOOSE x \in I : \A y \in I : x >= y) \in I  BY <1>4
  <1> QED  BY <1>5 DEF Max

\* The first events, among which the format is looked for.
LEMMA FormatDetected ==
  ASSUME NEW s \in Seq(EventSet), NEW T, Typed(s, T), NEW F, "unknown" \in F,
         \A ev \in EventSet : ev.type \in T => Format(ev) \in F
  PROVE  DetectFormat(s) \in F
  <1> DEFINE n == Len(s)
             m == Min({DetectWindow, n})
             r == SubSeq(s, 1, m)
             I == {i \in 1..Len(r) : Format(r[i]) # "unknown"}
             k == IF I # {} THEN Min(I) ELSE 0
  <1>1. n \in Nat  OBVIOUS
  <1>2. m \in 0..n
    <2>1. DetectWindow \in Nat  BY WindowAssumption
    <2>2. \E x \in {DetectWindow, n} : \A y \in {DetectWindow, n} : x <= y  BY <1>1, <2>1
    <2> HIDE DEF n
    <2>3. PICK x : x = CHOOSE z \in {DetectWindow, n} : \A y \in {DetectWindow, n} : z <= y
      OBVIOUS
    <2>4. x \in {DetectWindow, n} /\ \A y \in {DetectWindow, n} : x <= y  BY <2>2, <2>3
    <2>5. x \in 0..n  BY <1>1, <2>1, <2>4
    <2> QED  BY <2>3, <2>5 DEF Min
  <1>3. DetectFormat(s) = IF k = 0 THEN "unknown" ELSE Format(s[k])
    BY DEF DetectFormat, SelectInSeq
  <1> HIDE DEF m
  <1>4. Len(r) = m  BY <1>1, <1>2
  <1>5. CASE I = {}  BY <1>3, <1>5
  <1>6. CASE I # {}
    <2>1. I \in SUBSET (1..m)  BY <1>4
    <2> HIDE DEF I
    <2>2. k \in 1..m
      <3>1. PICK x : x = m  OBVIOUS
      <3>2. x \in Nat /\ I \in SUBSET (1..x)  BY <1>1, <1>2, <2>1, <3>1
      <3>3. Min(I) \in I  BY <1>6, <3>2, MinIn
      <3> QED  BY <1>6, <2>1, <3>3
    <2> HIDE DEF k
    <2>3. k \in 1..n /\ k # 0  BY <1>1, <1>2, <2>2
    <2>4. s[k] \in EventSet /\ s[k] \in ToSet(s)  BY <2>3 DEF ToSet
    <2> QED  BY <1>3, <2>3, <2>4 DEF Typed
  <1> QED  BY <1>5, <1>6

\* What a proxy's stream is read as: a text, or no message.
LEMMA TextTyped ==
  ASSUME NEW text \in Seq(Chunks)
  PROVE  \E bs \in Seq(BlockSet) : Finished(bs) /\ TextMessage(text) = Message(bs, "end_turn")
  <1> DEFINE b == [Block("text") EXCEPT !.data = text]
  <1>1. "text" \in Kinds  BY DEF Kinds
  <1>2. Block("text") \in BlockSet /\ Block("text").kind = "text" /\ ~Block("text").unparsed
    <2>1. Begun("text") \in BlockSet  BY <1>1, BegunTyped
    <2>2. Block("text") = Begun("text")  BY DEF Block, Begun
    <2>3. Begun("text").kind = "text" /\ ~Begun("text").unparsed  BY DEF Begun
    <2> QED  BY <2>1, <2>2, <2>3
  <1>3. b \in BlockSet /\ b.kind = "text" /\ ~b.unparsed
    <2> DEFINE o == Block("text")
    <2> HIDE DEF o
    <2>1. o \in BlockSet /\ o.kind = "text" /\ ~o.unparsed  BY <1>2 DEF o
    <2>2. /\ [o EXCEPT !.data = text] \in BlockSet /\ [o EXCEPT !.data = text].kind = "text"
          /\ ~[o EXCEPT !.data = text].unparsed
      BY <2>1 DEF BlockSet
    <2> QED  BY <2>2 DEF o
  <1>4. TextMessage(text) = Message(<<b>>, "end_turn")  BY DEF TextMessage
  <1> HIDE DEF b
  <1>5. <<b>> \in Seq(BlockSet) /\ DOMAIN <<b>> = 1..1 /\ <<b>>[1] = b  BY <1>3
  <1>6. Finished(<<b>>)  BY <1>3, <1>5 DEF Finished, Done
  <1> QED  BY <1>4, <1>5, <1>6

LEMMA ProxyCollected ==
  ASSUME NEW s \in Seq(EventSet)
  PROVE  \/ CollectProxy(s) = NoMessage
         \/ \E text \in Seq(Chunks) : CollectProxy(s) = TextMessage(text)
  <1> DEFINE n == Len(s)
             whole == SelectInSeq(s, LAMBDA ev : ev.type = "done" /\ ev.kind = "message")
             final == SelectLastInSeq(s, LAMBDA ev : ev.type = "done" /\ ev.kind = "text")
             F == [i \in DOMAIN s |-> IF s[i].type = "stream" THEN s[i].data ELSE <<>>]
             streamed == FlattenSeq(F)
             body == IF final # 0 THEN s[final].data ELSE streamed
             failed == \E ev \in ToSet(s) : ev.type = "error"
  <1>1. n \in Nat /\ DOMAIN s = 1..n /\ \A i \in 1..n : s[i] \in EventSet  OBVIOUS
  <1>2. \A i \in 1..n : s[i].data \in Seq(Chunks)  BY <1>1 DEF EventSet
  <1>3. whole # 0 => whole \in 1..n
    <2> DEFINE I == {i \in 1..n : s[i].type = "done" /\ s[i].kind = "message"}
    <2>1. whole = IF I # {} THEN Min(I) ELSE 0  BY DEF SelectInSeq
    <2>2. I \in SUBSET (1..n)  OBVIOUS
    <2> HIDE DEF I, n, whole
    <2> QED  BY <1>1, <2>1, <2>2, MinIn
  <1>4. final # 0 => final \in 1..n
    <2> DEFINE I == {i \in 1..n : s[i].type = "done" /\ s[i].kind = "text"}
    <2>1. final = IF I # {} THEN Max(I) ELSE 0  BY DEF SelectLastInSeq
    <2>2. I \in SUBSET (1..n)  OBVIOUS
    <2> HIDE DEF I, n, final
    <2> QED  BY <1>1, <2>1, <2>2, MaxIn
  <1>5. streamed \in Seq(Chunks)
    <2>1. <<>> \in Seq(Chunks)  OBVIOUS
    <2>2. F \in [1..n -> Seq(Chunks)]  BY <1>1, <1>2, <2>1
    <2> HIDE DEF F, n
    <2> QED  BY <1>1, <2>2, FlattenTyped
  <1>6. CollectProxy(s) = CASE whole # 0 -> TextMessage(s[whole].data)
                            [] whole = 0 /\ failed -> NoMessage
                            [] OTHER -> IF body = <<>> THEN NoMessage ELSE TextMessage(body)
    BY DEF CollectProxy
  <1> HIDE DEF whole, final, streamed, failed, n
  <1>7. body \in Seq(Chunks)  BY <1>2, <1>4, <1>5
  <1>8. whole # 0 => s[whole].data \in Seq(Chunks)  BY <1>2, <1>3
  <1> HIDE DEF body
  <1> QED  BY <1>6, <1>7, <1>8

LEMMA FailedProxyCollected ==
  ASSUME NEW s \in Seq(EventSet), NEW ev \in ToSet(s), ev.type = "error",
         \A d \in ToSet(s) : d.type # "done"
  PROVE  CollectProxy(s) = NoMessage
  <1> DEFINE whole == SelectInSeq(s, LAMBDA d : d.type = "done" /\ d.kind = "message")
             I == {i \in 1..Len(s) : s[i].type = "done" /\ s[i].kind = "message"}
  <1>1. \A i \in 1..Len(s) : s[i] \in ToSet(s)  BY DEF ToSet
  <1>2. I = {}  BY <1>1
  <1>3. whole = IF I # {} THEN Min(I) ELSE 0  BY DEF SelectInSeq
  <1>4. whole = 0  BY <1>2, <1>3
  <1>5. \E e \in ToSet(s) : e.type = "error"  OBVIOUS
  <1> HIDE DEF I
  <1> QED  BY <1>4, <1>5 DEF CollectProxy

\* What a client reads of an answer that is built of a message.
LEMMA SynthesizedReads ==
  ASSUME NEW bs \in Seq(BlockSet), Finished(bs), NEW m, m = Message(bs, "end_turn")
  PROVE  /\ ClientReads(BuildResponse(m, TRUE)) = m /\ ClientReads(BuildResponse(m, FALSE)) = m
         /\ ClientReads(MessageAnswer(m)) = m /\ m # NoMessage
  <1>1. Complete(Synthesize(m)) /\ Meaning(Synthesize(m)) = m  BY SynthesizedMeans
  <1>2. m # NoMessage  BY HeadersDiffer
  <1>3. ClientReads(MessageAnswer(m)) = m  BY DEF ClientReads, MessageAnswer, ErrorAnswer
  <1>4. ClientReads(StreamAnswer(Synthesize(m))) = m
    BY <1>1 DEF ClientReads, StreamAnswer, ErrorAnswer
  <1> QED  BY <1>2, <1>3, <1>4 DEF BuildResponse

LEMMA StreamReads ==
  ASSUME NEW s, Complete(s) PROVE ClientReads(StreamAnswer(s)) = Meaning(s)
  BY DEF ClientReads, StreamAnswer, ErrorAnswer

\* A whole stream of Anthropic events, handed over or assembled.
LEMMA SameAnthropic ==
  ASSUME NEW s, NEW u, AnthropicInv(s, u), Complete(s)
  PROVE  ClientReads(AnswerAnthropic(s, TRUE)) = ClientReads(AnswerAnthropic(s, FALSE))
  <1>1. Built(s, Assembly(s))  BY WholeIsBuilt
  <1>2. PICK bs \in Seq(BlockSet) : /\ Finished(bs)
                                    /\ CollectAnthropic(s) = Message(bs, "end_turn")
                                    /\ Meaning(s) = Message(bs, "end_turn")
    BY <1>1, BuiltReads
  <1> DEFINE m == CollectAnthropic(s)
  <1>3. AnswerAnthropic(s, TRUE) = StreamAnswer(s)  BY DEF AnswerAnthropic
  <1>4. AnswerAnthropic(s, FALSE) = OrError(m, MessageAnswer(m))  BY DEF AnswerAnthropic
  <1>5. m = Message(bs, "end_turn") /\ Meaning(s) = m  BY <1>2
  <1> HIDE DEF m
  <1>6. m # NoMessage /\ ClientReads(MessageAnswer(m)) = m  BY <1>2, <1>5, SynthesizedReads
  <1>7. OrError(m, MessageAnswer(m)) = MessageAnswer(m)  BY <1>6 DEF OrError
  <1>8. ClientReads(StreamAnswer(s)) = m  BY <1>5, StreamReads
  <1> QED  BY <1>3, <1>4, <1>6, <1>7, <1>8

LEMMA AnthropicDetected ==
  ASSUME NEW s, NEW u, AnthropicInv(s, u) PROVE DetectFormat(s) \in {"anthropic", "unknown"}
  <1>1. s \in Seq(EventSet) /\ Typed(s, AnthropicTypes \cup {"nothing", "error"})
    BY DEF AnthropicInv
  <1>2. \A ev : ev.type \in AnthropicTypes \cup {"nothing", "error"} =>
          Format(ev) \in {"anthropic", "unknown"}
    <2>1. \A ev : ev.type \in AnthropicTypes => Format(ev) = "anthropic"
      BY DEF Format, AnthropicTypes, ProxyTypes
    <2>2. \A ev : ev.type \in {"nothing", "error"} => Format(ev) = "unknown"
      BY DEF Format, AnthropicTypes, ProxyTypes
    <2> QED  BY <2>1, <2>2
  <1> QED  BY <1>1, <1>2, FormatDetected

LEMMA ProxyDetected ==
  ASSUME NEW s, NEW u, ProxyInv(s, u) PROVE DetectFormat(s) \in {"proxy", "unknown"}
  <1>1. s \in Seq(EventSet) /\ Typed(s, ProxyTypes \cup {"nothing", "error"})
    BY DEF ProxyInv
  <1>2. \A ev : ev.type \in ProxyTypes \cup {"nothing", "error"} =>
          Format(ev) \in {"proxy", "unknown"}
    <2>1. \A ev : ev.type \in ProxyTypes => Format(ev) = "proxy"
      BY DEF Format, AnthropicTypes, ProxyTypes
    <2>2. \A ev : ev.type \in {"nothing", "error"} => Format(ev) = "unknown"
      BY DEF Format, AnthropicTypes, ProxyTypes
    <2> QED  BY <2>1, <2>2
  <1> QED  BY <1>1, <1>2, FormatDetected

LEMMA PipedIs ==
  ASSUME NEW s, NEW streaming
  PROVE  /\ DetectFormat(s) = "anthropic" => PipeOrCollect(s, streaming) = AnswerAnthropic(s, streaming)
         /\ DetectFormat(s) = "proxy" => PipeOrCollect(s, streaming) =
                OrError(CollectProxy(s), BuildResponse(CollectProxy(s), streaming))
         /\ DetectFormat(s) = "unknown" => PipeOrCollect(s, streaming) = ErrorAnswer
  BY DEF PipeOrCollect

LEMMA SameProxy ==
  ASSUME NEW s, NEW u, ProxyInv(s, u)
  PROVE  ClientReads(PipeOrCollect(s, TRUE)) = ClientReads(PipeOrCollect(s, FALSE))
  <1> DEFINE m == CollectProxy(s)
  <1>1. DetectFormat(s) \in {"proxy", "unknown"}  BY ProxyDetected
  <1>2. CASE DetectFormat(s) = "unknown"  BY <1>2, PipedIs
  <1>3. CASE DetectFormat(s) = "proxy"
    <2>1. /\ PipeOrCollect(s, TRUE) = OrError(m, BuildResponse(m, TRUE))
          /\ PipeOrCollect(s, FALSE) = OrError(m, BuildResponse(m, FALSE))
      BY <1>3, PipedIs
    <2>2. m = NoMessage \/ \E text \in Seq(Chunks) : m = TextMessage(text)
      BY ProxyCollected DEF ProxyInv
    <2> HIDE DEF m
    <2>3. CASE m = NoMessage  BY <2>1, <2>3 DEF OrError
    <2>4. ASSUME NEW text \in Seq(Chunks), m = TextMessage(text)
          PROVE  ClientReads(PipeOrCollect(s, TRUE)) = ClientReads(PipeOrCollect(s, FALSE))
      <3>1. PICK bs \in Seq(BlockSet) : Finished(bs) /\ TextMessage(text) = Message(bs, "end_turn")
        BY TextTyped
      <3>2. /\ ClientReads(BuildResponse(m, TRUE)) = m /\ ClientReads(BuildResponse(m, FALSE)) = m
            /\ m # NoMessage
        BY <2>4, <3>1, SynthesizedReads
      <3> QED  BY <2>1, <3>2 DEF OrError
    <2> QED  BY <2>2, <2>3, <2>4
  <1> QED  BY <1>1, <1>2, <1>3

\* Piped, assembled or synthesized, a stream reads the same
\* (bridge/bridge.py, _pipe_or_collect and _build_response).
THEOREM StreamingMakesNoDifference == Spec => []SameEitherWay
  <1>1. TypeInv /\ StreamInv => SameEitherWay
    <2> SUFFICES ASSUME TypeInv, StreamInv, up.format = "anthropic" => Complete(events)
                 PROVE  ClientReads(Answered(TRUE)) = ClientReads(Answered(FALSE))
      BY DEF SameEitherWay
    <2>1. up.format \in {"anthropic", "proxy"}  BY TypesSplit DEF TypeInv, Streams
    <2>2. CASE up.format = "anthropic"
      <3>1. AnthropicInv(events, up) /\ Complete(events)  BY <2>2 DEF StreamInv
      <3>2. ClientReads(AnswerAnthropic(events, TRUE)) = ClientReads(AnswerAnthropic(events, FALSE))
        BY <3>1, SameAnthropic
      <3>3. DetectFormat(events) \in {"anthropic", "unknown"}  BY <3>1, AnthropicDetected
      <3>4. ClientReads(PipeOrCollect(events, TRUE)) = ClientReads(PipeOrCollect(events, FALSE))
        BY <3>2, <3>3, PipedIs
      <3> QED  BY <3>2, <3>4 DEF Answered
    <2>3. CASE up.format = "proxy"
      <3>1. ProxyInv(events, up) /\ req.via = "proxy"  BY <2>3 DEF StreamInv
      <3>2. ClientReads(PipeOrCollect(events, TRUE)) = ClientReads(PipeOrCollect(events, FALSE))
        BY <3>1, SameProxy
      <3> QED  BY <3>1, <3>2 DEF Answered
    <2> QED  BY <2>1, <2>2, <2>3
  <1>2. BridgeInv => TypeInv  BY DEF BridgeInv
  <1> QED  BY <1>1, <1>2, StreamsAreFollowed, ModesAreSound, PTL

\* Every message that a whole stream can mean is written as a stream that means
\* it (bridge/bridge.py, _synthesize_anthropic_sse).
THEOREM SynthesisLosesNothing == Spec => []SynthesizedIsRead
  <1>1. TypeInv /\ StreamInv => SynthesizedIsRead
    <2> SUFFICES ASSUME TypeInv, StreamInv, Complete(events)
                 PROVE  ClientReads(BuildResponse(Meaning(events), TRUE)) = Meaning(events)
      BY DEF SynthesizedIsRead
    <2>1. up.format \in {"anthropic", "proxy"}  BY TypesSplit DEF TypeInv, Streams
    <2>2. up.format # "proxy"
      <3> SUFFICES ASSUME up.format = "proxy" PROVE FALSE  OBVIOUS
      <3>1. Typed(events, ProxyTypes \cup {"nothing", "error"})  BY DEF StreamInv, ProxyInv
      <3>2. PICK ev \in ToSet(events) : ev.type = "message_stop"  BY DEF Complete
      <3> QED  BY <3>1, <3>2 DEF Typed, ProxyTypes
    <2>3. Built(events, Assembly(events))  BY <2>1, <2>2, WholeIsBuilt DEF StreamInv
    <2>4. PICK bs \in Seq(BlockSet) : Finished(bs) /\ Meaning(events) = Message(bs, "end_turn")
      BY <2>3, BuiltReads
    <2> QED  BY <2>4, SynthesizedReads
  <1>2. BridgeInv => TypeInv  BY DEF BridgeInv
  <1> QED  BY <1>1, <1>2, StreamsAreFollowed, ModesAreSound, PTL

\* What the proxy streamed before its error is not taken for the message
\* (bridge/bridge.py, _collect_proxy_events).
THEOREM ProxyErrorsAreReported == Spec => []ProxyErrorIsReported
  <1>1. StreamInv => ProxyErrorIsReported
    <2> SUFFICES ASSUME StreamInv, req.pc = "answered", req.reply = "events",
                        up.format = "proxy", NEW ev \in ToSet(events), ev.type = "error"
                 PROVE  req.answer.kind = "error"
      BY DEF ProxyErrorIsReported
    <2>1. ProxyInv(events, up) /\ req.via = "proxy" /\ req.answer = Answered(req.streaming)
      BY DEF StreamInv
    <2>2. events \in Seq(EventSet) /\ \A d \in ToSet(events) : d.type # "done"
      BY <2>1 DEF ProxyInv, Typed
    <2>3. CollectProxy(events) = NoMessage  BY <2>2, FailedProxyCollected
    <2>4. DetectFormat(events) \in {"proxy", "unknown"}  BY <2>1, ProxyDetected
    <2>5. req.answer = PipeOrCollect(events, req.streaming)  BY <2>1 DEF Answered
    <2>6. req.answer = ErrorAnswer  BY <2>3, <2>4, <2>5, PipedIs DEF OrError
    <2> QED  BY <2>6 DEF ErrorAnswer
  <1> QED  BY <1>1, StreamsAreFollowed, PTL
=============================================================================
