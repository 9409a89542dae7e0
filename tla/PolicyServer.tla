---------------------------- MODULE PolicyServer -----------------------------
(***************************************************************************)
(* server/websocket_server.py: one policy process.  Every connection has a *)
(* handler coroutine; all of them share one asyncio event loop, one policy *)
(* object and the counter self._active.                                    *)
(*                                                                         *)
(* Granularity.  Coroutines are interleaved only where they await, so an   *)
(* action is everything a coroutine does from one await to the next.  The  *)
(* exception is policy.infer: it is synchronous, may take seconds and      *)
(* keeps the loop, so its call and its return are two actions, and between *)
(* them (loop = c) only the world outside the process moves.               *)
(* _active_lock is never held across an await, so acquiring it never       *)
(* suspends and it needs no variable.                                      *)
(*                                                                         *)
(* The websockets library is external.  It is modelled as the code uses    *)
(* it: process_request, then the 101 response, then the handler; send and  *)
(* recv raise ConnectionClosed once the library knows the connection is    *)
(* gone; leaving the server context closes every connection with 1001 and  *)
(* waits for the handlers.                                                 *)
(***************************************************************************)
EXTENDS AccessControl, Integers, Sequences

CONSTANTS Conns,          \* connection attempts, each used once
          Idle,           \* value of loop and resetBy that is no connection
          MaxConnections, \* --max-connections
          MaxFrames,      \* bound: frames one client sends
          ClientFrames,   \* the kinds of frames clients send
          ApiKeys,        \* the --api-key values
          EnvKeys,        \* the entries of POLICY_SERVER_API_KEYS
          AllowCidrs,     \* the --allow-cidr blocks
          Requests,       \* upgrade requests: [path, addr, header]
          Signals,        \* signals the operator may send
          AtomicUpgrade,  \* the library runs the handler in the loop turn in
                          \* which process_request let the connection in
          ReusesReply,    \* policy.infer hands back one and the same dict
          NoId            \* no request_id

ASSUME ServerAssumption ==
    /\ IsFiniteSet(Conns)
    /\ Idle \notin Conns
    /\ MaxConnections \in Nat
    /\ MaxFrames \in Nat
    /\ ClientFrames \subseteq {"obs", "obsId", "text", "junk"}
    /\ Signals \subseteq {"SIGINT", "SIGTERM"}
    /\ AtomicUpgrade \in BOOLEAN
    /\ ReusesReply \in BOOLEAN
    /\ NoKey \notin Stripped(ApiKeys) \cup Stripped(EnvKeys)
    /\ NoId \notin Conns \X Nat

\* A header has a scheme and a value and nothing else; none is no header, and
\* neither are two.
ASSUME RequestAssumption ==
    /\ \A r \in Requests : r.header \notin {NoHeader, TwoHeaders} =>
           r.header = [scheme |-> r.header.scheme, value |-> r.header.value]
    /\ NoHeader # TwoHeaders
    /\ \A scheme \in {"api-key", "bearer"}, key \in ApiKeys \cup EnvKeys :
           [scheme |-> scheme, value |-> key] \notin {NoHeader, TwoHeaders}

VARIABLES
    srv,      \* life of the process
    loop,     \* connection whose handler keeps the event loop, or Idle
    active,   \* self._active
    pc,       \* where each connection's coroutine awaits
    request,  \* upgrade request of each connection
    status,   \* HTTP status answered to it
    ws,       \* transport as the library sees it; "lost": gone, not yet noticed
    code,     \* close code the server sent, 0 if none
    sent,     \* frames the client has sent, in order
    rd,       \* how many of them the handler has received
    out,      \* frames the server put on the live connection, in order
    prev,     \* step that prev_total_time measures, 0 for None
    resetBy,  \* connection for which policy.reset() ran last
    shared,   \* keys the server left in the policy's own reply dict
    closed    \* policy.close() has run

vars == <<srv, loop, active, pc, request, status, ws, code, sent, rd, out,
          prev, resetBy, shared, closed>>

-----------------------------------------------------------------------------
(* Types and state predicates.                                             *)

AuthCfg == FromEnvAndArgs(ApiKeys, EnvKeys, AllowCidrs)

InHandler == {"sendMeta", "recv", "infer", "sendResult", "sendError", "closing"}
PCs == InHandler \cup {"new", "opening", "accepted", "done"}
Statuses == {"NONE", "SWITCHING", "OK", "FORBIDDEN", "UNAUTHORIZED",
             "UNAVAILABLE", "ERROR"}

\* What a client may send: an observation with or without a request_id, a
\* text frame, binary data that does not decode.
FrameKinds == {"obs", "obsId", "text", "junk"}
IsObs(kind) == kind \in {"obs", "obsId"}

Metadata == [type |-> "metadata"]
Traceback == [type |-> "traceback"]
RequestIds == (Conns \X Nat) \cup {NoId}
Results == [type : {"result"}, obs : Nat, rid : RequestIds, prev : Nat]

ServerFrames == {Metadata, Traceback} \cup Results
Replies == [rid : RequestIds, prev : Nat]

FreshReply == [rid |-> NoId, prev |-> 0]

\* Connections whose handler is between its increment and its decrement.
Handlers == {c \in Conns : pc[c] \in InHandler}

Alive == srv \in {"serving", "closing"}

\* The loop may run the coroutine of c.
CanRun(c) == Alive /\ loop \in {Idle, c}

TypeOK ==
    /\ srv \in {"serving", "closing", "exited", "killed"}
    /\ loop \in Conns \cup {Idle}
    /\ active \in Nat
    /\ pc \in [Conns -> PCs]
    /\ request \in [Conns -> Requests]
    /\ status \in [Conns -> Statuses]
    /\ ws \in [Conns -> {"none", "open", "lost", "closed"}]
    /\ code \in [Conns -> {0, 1001, 1011}]
    /\ sent \in [Conns -> Seq(FrameKinds)]
    /\ rd \in [Conns -> Nat]
    /\ out \in [Conns -> Seq(ServerFrames)]
    /\ prev \in [Conns -> Nat]
    /\ resetBy \in Conns \cup {Idle}
    /\ shared \in Replies
    /\ closed \in BOOLEAN

\* Nobody has connected.
Unused ==
    /\ loop = Idle
    /\ active = 0
    /\ pc = [c \in Conns |-> "new"]
    /\ request \in [Conns -> Requests]
    /\ status = [c \in Conns |-> "NONE"]
    /\ ws = [c \in Conns |-> "none"]
    /\ code = [c \in Conns |-> 0]
    /\ sent = [c \in Conns |-> <<>>]
    /\ rd = [c \in Conns |-> 0]
    /\ out = [c \in Conns |-> <<>>]
    /\ prev = [c \in Conns |-> 0]
    /\ resetBy = Idle
    /\ shared = FreshReply
    /\ closed = FALSE

Init == srv = "serving" /\ Unused

-----------------------------------------------------------------------------
(* The upgrade: _process_request, before the WebSocket exists.             *)

\* Mutant: off by one.
AtCapacityOffByOne == active > MaxConnections

AtCapacity == active >= MaxConnections

\* What _process_request makes of an upgrade request; "PASS" lets it in.
Verdict(r) ==
    IF r.path = "/healthz" THEN "OK"
    ELSE IF CheckRequest(AuthCfg, r.addr, r.header) = "PASS" /\ AtCapacity
    THEN "UNAVAILABLE"
    ELSE CheckRequest(AuthCfg, r.addr, r.header)

Connect(c) ==
    /\ srv = "serving" /\ pc[c] = "new"
    /\ pc' = [pc EXCEPT ![c] = "opening"]
    /\ UNCHANGED <<srv, loop, active, request, status, ws, code, sent, rd,
                   out, prev, resetBy, shared, closed>>

\* The client leaves, or the library's open_timeout passes, before the answer.
HandshakeAborts(c) ==
    /\ CanRun(c) /\ pc[c] = "opening"
    /\ pc' = [pc EXCEPT ![c] = "done"]
    /\ UNCHANGED <<srv, loop, active, request, status, ws, code, sent, rd,
                   out, prev, resetBy, shared, closed>>

\* process_request returned None and the library sends 101.
Accept(c) ==
    /\ CanRun(c) /\ pc[c] = "opening"
    /\ Verdict(request[c]) = "PASS" /\ srv = "serving"
    /\ pc' = [pc EXCEPT ![c] = "accepted"]
    /\ status' = [status EXCEPT ![c] = "SWITCHING"]
    /\ ws' = [ws EXCEPT ![c] = "open"]
    /\ loop' = IF AtomicUpgrade THEN c ELSE Idle
    /\ UNCHANGED <<srv, active, request, code, sent, rd, out, prev, resetBy,
                   shared, closed>>

\* Mutant: who may enter a full server is kept waiting for a slot.
RejectUnlessFull(c) ==
    /\ CanRun(c) /\ pc[c] = "opening"
    /\ \/ /\ Verdict(request[c]) \notin {"PASS", "UNAVAILABLE"}
          /\ status' = [status EXCEPT ![c] = Verdict(request[c])]
       \/ /\ Verdict(request[c]) = "PASS" /\ srv = "closing"
          /\ status' = [status EXCEPT ![c] = "UNAVAILABLE"]
    /\ pc' = [pc EXCEPT ![c] = "done"]
    /\ UNCHANGED <<srv, loop, active, request, ws, code, sent, rd, out, prev,
                   resetBy, shared, closed>>

\* process_request answered or raised; or the library, which is shutting
\* down, answers.
Reject(c) ==
    /\ CanRun(c) /\ pc[c] = "opening"
    /\ \/ /\ Verdict(request[c]) # "PASS"
          /\ status' = [status EXCEPT ![c] = Verdict(request[c])]
       \/ /\ Verdict(request[c]) = "PASS" /\ srv = "closing"
          /\ status' = [status EXCEPT ![c] = "UNAVAILABLE"]
    /\ pc' = [pc EXCEPT ![c] = "done"]
    /\ UNCHANGED <<srv, loop, active, request, ws, code, sent, rd, out, prev,
                   resetBy, shared, closed>>

-----------------------------------------------------------------------------
(* The handler coroutine.                                                  *)

\* websocket.send: the frame travels only over a live transport; a transport
\* that is lost but not yet noticed swallows it.
Emit(c, frame) ==
    out' = IF ws[c] = "open" THEN [out EXCEPT ![c] = Append(@, frame)] ELSE out

\* self._active += 1 and self._active -= 1, each under _active_lock.
Taken(n) == n + 1
GivenBack(n) == n - 1

\* Mutant: the increment is lost.
SlotNotTaken == active' = active

SlotTaken == active' = Taken(active)

\* Mutant: the decrement is not in a finally clause and is skipped.
LeaveKeepsSlot(c) ==
    /\ pc' = [pc EXCEPT ![c] = "done"]
    /\ ws' = [ws EXCEPT ![c] = "closed"]
    /\ loop' = Idle
    /\ UNCHANGED active

\* Leaving _handler: the finally clause gives the slot back, the library
\* makes sure the transport is closed.
Leave(c) ==
    /\ active' = GivenBack(active)
    /\ pc' = [pc EXCEPT ![c] = "done"]
    /\ ws' = [ws EXCEPT ![c] = "closed"]
    /\ loop' = Idle

\* The handler up to its first await: slot, policy.reset() (what it raises is
\* swallowed), metadata frame.
HandlerStart(c) ==
    /\ CanRun(c) /\ pc[c] = "accepted" /\ ws[c] # "closed"
    /\ SlotTaken
    /\ resetBy' = c
    /\ Emit(c, Metadata)
    /\ pc' = [pc EXCEPT ![c] = "sendMeta"]
    /\ loop' = Idle
    /\ UNCHANGED <<srv, request, status, ws, code, sent, rd, prev, shared,
                   closed>>

\* Mutant: the finally clause covers the loop of requests only.
MetadataFailsKeepsSlot(c) ==
    /\ CanRun(c) /\ pc[c] = "accepted"
    /\ active' = Taken(active)
    /\ resetBy' = c
    /\ pc' = [pc EXCEPT ![c] = "done"]
    /\ ws' = [ws EXCEPT ![c] = "closed"]
    /\ code' = [code EXCEPT ![c] = IF ws[c] = "closed" THEN @ ELSE 1011]
    /\ loop' = Idle
    /\ UNCHANGED <<srv, request, status, sent, rd, out, prev, shared, closed>>

\* policy.metadata raises, or does not pack, or the connection is gone: no
\* except clause is there to catch it.  The slot is taken and given back in
\* one segment, and the library closes the connection with 1011 by itself.
MetadataFails(c) ==
    /\ CanRun(c) /\ pc[c] = "accepted"
    /\ active' = GivenBack(Taken(active))
    /\ resetBy' = c
    /\ pc' = [pc EXCEPT ![c] = "done"]
    /\ ws' = [ws EXCEPT ![c] = "closed"]
    /\ code' = [code EXCEPT ![c] = IF ws[c] = "closed" THEN @ ELSE 1011]
    /\ loop' = Idle
    /\ UNCHANGED <<srv, request, status, sent, rd, out, prev, shared, closed>>

\* Mutant: prev_total_time is set by the first reply and then kept.
StepTimedOnce(c) ==
    prev' = [prev EXCEPT ![c] = IF pc[c] = "sendResult" /\ @ = 0 THEN rd[c] ELSE @]

\* Only a reply that was sent sets prev_total_time.
StepTimed(c) ==
    prev' = [prev EXCEPT ![c] = IF pc[c] = "sendResult" THEN rd[c] ELSE @]

\* An awaited send returns: the metadata and a reply lead to the next recv, a
\* traceback to close(1011).
SendReturns(c) ==
    /\ CanRun(c) /\ pc[c] \in {"sendMeta", "sendResult", "sendError"}
    /\ ws[c] # "closed"
    /\ pc' = [pc EXCEPT ![c] = IF @ = "sendError" THEN "closing" ELSE "recv"]
    /\ StepTimed(c)
    /\ code' = [code EXCEPT ![c] =
                   IF pc[c] = "sendError" /\ @ = 0 THEN 1011 ELSE @]
    /\ loop' = Idle
    /\ UNCHANGED <<srv, active, request, status, ws, sent, rd, out, resetBy,
                   shared, closed>>

\* The library noticed the end of the connection during an awaited send.
SendRaises(c) ==
    /\ CanRun(c) /\ pc[c] \in {"sendMeta", "sendResult", "sendError"}
    /\ ws[c] = "closed"
    /\ Leave(c)
    /\ UNCHANGED <<srv, request, status, code, sent, rd, out, prev, resetBy,
                   shared, closed>>

\* Mutant: the traceback is sent, the loop goes on.
ErrorReplyKeepsServing(c) ==
    \/ /\ ws[c] # "closed"
       /\ Emit(c, Traceback)
       /\ pc' = [pc EXCEPT ![c] = "sendResult"]
       /\ loop' = Idle
       /\ UNCHANGED <<active, ws>>
    \/ /\ ws[c] = "closed"
       /\ Leave(c)
       /\ UNCHANGED out

\* Mutant: the error is logged only, the client waits for an answer.
ErrorSwallowed(c) ==
    /\ pc' = [pc EXCEPT ![c] = "recv"]
    /\ loop' = Idle
    /\ UNCHANGED <<active, ws, out>>

\* The except Exception clause: send the traceback, or give up on a
\* connection that is gone.
ErrorReply(c) ==
    \/ /\ ws[c] # "closed"
       /\ Emit(c, Traceback)
       /\ pc' = [pc EXCEPT ![c] = "sendError"]
       /\ loop' = Idle
       /\ UNCHANGED <<active, ws>>
    \/ /\ ws[c] = "closed"
       /\ Leave(c)
       /\ UNCHANGED out

\* recv hands over the next frame the client sent.
Delivered(c) == CanRun(c) /\ pc[c] = "recv" /\ rd[c] < Len(sent[c])
NextFrame(c) == sent[c][rd[c] + 1]

\* A text frame is ignored.
RecvText(c) ==
    /\ Delivered(c) /\ NextFrame(c) = "text"
    /\ rd' = [rd EXCEPT ![c] = @ + 1]
    /\ UNCHANGED <<srv, loop, active, pc, request, status, ws, code, sent,
                   out, prev, resetBy, shared, closed>>

\* unpackb raises.
RecvJunk(c) ==
    /\ Delivered(c) /\ NextFrame(c) = "junk"
    /\ rd' = [rd EXCEPT ![c] = @ + 1]
    /\ ErrorReply(c)
    /\ UNCHANGED <<srv, request, status, code, sent, prev, resetBy, shared,
                   closed>>

\* policy.infer is called and has the loop until it returns.
RecvObs(c) ==
    /\ Delivered(c) /\ IsObs(NextFrame(c))
    /\ rd' = [rd EXCEPT ![c] = @ + 1]
    /\ pc' = [pc EXCEPT ![c] = "infer"]
    /\ loop' = c
    /\ UNCHANGED <<srv, active, request, status, ws, code, sent, out, prev,
                   resetBy, shared, closed>>

\* Mutant: continue instead of break.
RecvClosedRetries(c) ==
    /\ CanRun(c) /\ pc[c] = "recv" /\ ws[c] = "closed"
    /\ UNCHANGED vars

\* recv raises ConnectionClosed; frames still unread may be lost with it.
RecvClosed(c) ==
    /\ CanRun(c) /\ pc[c] = "recv" /\ ws[c] = "closed"
    /\ Leave(c)
    /\ UNCHANGED <<srv, request, status, code, sent, rd, out, prev, resetBy,
                   shared, closed>>

\* Mutant: request_id is looked up in the reply instead of the observation.
ReplyWithoutId(c, n, base) ==
    [ rid |-> base.rid, prev |-> IF prev[c] # 0 THEN prev[c] ELSE base.prev ]

\* The reply to frame n of c: timing and request_id written into the dict the
\* policy returned.  server_timing and request_id already in it stay.
Reply(c, n, base) ==
    [ rid  |-> IF sent[c][n] = "obsId" /\ base.rid = NoId THEN <<c, n>>
               ELSE base.rid,
      prev |-> IF prev[c] # 0 THEN prev[c] ELSE base.prev ]

\* policy.infer returns a dict with "actions".
InferReturns(c) ==
    LET reply == Reply(c, rd[c], IF ReusesReply THEN shared ELSE FreshReply)
    IN  /\ CanRun(c) /\ pc[c] = "infer"
        /\ shared' = IF ReusesReply THEN reply ELSE shared
        /\ \/ /\ ws[c] # "closed"
              /\ Emit(c, [type |-> "result", obs |-> rd[c],
                          rid |-> reply.rid, prev |-> reply.prev])
              /\ pc' = [pc EXCEPT ![c] = "sendResult"]
              /\ loop' = Idle
              /\ UNCHANGED <<active, ws>>
           \/ /\ ws[c] = "closed"
              /\ Leave(c)
              /\ UNCHANGED out
        /\ UNCHANGED <<srv, request, status, code, sent, rd, prev, resetBy,
                       closed>>

\* policy.infer raises or returns something else; or its reply is written into
\* and then cannot be packed.
InferFails(c) ==
    /\ CanRun(c) /\ pc[c] = "infer"
    /\ ErrorReply(c)
    /\ shared' \in IF ReusesReply THEN {shared, Reply(c, rd[c], shared)}
                   ELSE {shared}
    /\ UNCHANGED <<srv, request, status, code, sent, rd, prev, resetBy, closed>>

\* close(1011) returns: the client answered, or close_timeout passed.
CloseDone(c) ==
    /\ CanRun(c) /\ pc[c] = "closing"
    /\ Leave(c)
    /\ UNCHANGED <<srv, request, status, code, sent, rd, out, prev, resetBy,
                   shared, closed>>

-----------------------------------------------------------------------------
(* The world outside, and what the library makes of it.                    *)

ClientSend(c, kind) ==
    /\ Alive /\ ws[c] = "open" /\ Len(sent[c]) < MaxFrames
    /\ sent' = [sent EXCEPT ![c] = Append(@, kind)]
    /\ UNCHANGED <<srv, loop, active, pc, request, status, ws, code, rd, out,
                   prev, resetBy, shared, closed>>

\* The client closes or drops, the network breaks, an answer to a ping is
\* late, or a frame exceeds max_size.
Lose(c) ==
    /\ Alive /\ ws[c] = "open"
    /\ ws' = [ws EXCEPT ![c] = "lost"]
    /\ UNCHANGED <<srv, loop, active, pc, request, status, code, sent, rd, out,
                   prev, resetBy, shared, closed>>

\* The library learns of it, in a turn of the event loop.
Notice(c) ==
    /\ Alive /\ loop = Idle /\ ws[c] = "lost"
    /\ ws' = [ws EXCEPT ![c] = "closed"]
    /\ UNCHANGED <<srv, loop, active, pc, request, status, code, sent, rd, out,
                   prev, resetBy, shared, closed>>

\* SIGINT cancels run(): the async with block is left.  It takes effect in a
\* turn of the loop, so after an infer in progress.
Interrupt ==
    /\ srv = "serving" /\ loop = Idle /\ "SIGINT" \in Signals
    /\ srv' = "closing"
    /\ UNCHANGED <<loop, active, pc, request, status, ws, code, sent, rd, out,
                   prev, resetBy, shared, closed>>

\* Server.close(): every open connection is closed with 1001.
ServerCloses(c) ==
    /\ srv = "closing" /\ loop = Idle /\ ws[c] \in {"open", "lost"}
    /\ ws' = [ws EXCEPT ![c] = "closed"]
    /\ code' = [code EXCEPT ![c] = IF ws[c] = "open" /\ @ = 0 THEN 1001 ELSE @]
    /\ UNCHANGED <<srv, loop, active, pc, request, status, sent, rd, out, prev,
                   resetBy, shared, closed>>

\* Every handler has ended: asyncio.run returns, serve_forever's finally
\* clause calls policy.close().
Stop ==
    /\ srv = "closing" /\ \A c \in Conns : pc[c] \in {"new", "done"}
    /\ srv' = "exited"
    /\ closed' = TRUE
    /\ UNCHANGED <<loop, active, pc, request, status, ws, code, sent, rd, out,
                   prev, resetBy, shared>>

\* SIGTERM has its default action: the process ends where it is, even inside
\* policy.infer, and no finally clause runs.
Kill ==
    /\ Alive /\ "SIGTERM" \in Signals
    /\ srv' = "killed"
    /\ UNCHANGED <<loop, active, pc, request, status, ws, code, sent, rd, out,
                   prev, resetBy, shared, closed>>

\* The process is gone: nothing is left to happen.
Terminated == srv \in {"exited", "killed"} /\ UNCHANGED vars

-----------------------------------------------------------------------------
(* Specification.                                                          *)

\* Every step of connection c that the event loop runs.
HandlerStep(c) ==
    \/ Accept(c) \/ Reject(c)
    \/ HandlerStart(c) \/ MetadataFails(c)
    \/ SendReturns(c) \/ SendRaises(c)
    \/ RecvText(c) \/ RecvJunk(c) \/ RecvObs(c) \/ RecvClosed(c)
    \/ InferReturns(c) \/ InferFails(c) \/ CloseDone(c)

\* The library's own steps that end the transport of c.
TransportStep(c) == Notice(c) \/ ServerCloses(c)

Environment ==
    \/ Interrupt \/ Kill
    \/ \E c \in Conns : \/ Connect(c) \/ HandshakeAborts(c) \/ Lose(c)
                        \/ \E kind \in ClientFrames : ClientSend(c, kind)

Next ==
    \/ Environment
    \/ \E c \in Conns : HandlerStep(c) \/ TransportStep(c)
    \/ Stop \/ Terminated

Spec == Init /\ [][Next]_vars

\* asyncio runs ready callbacks first in, first out, so a coroutine that is
\* ready runs once the loop is free, however often another one takes it:
\* strong fairness per connection.  close_timeout and policy.infer end.  So
\* does an awaited send: a client that does not read can hold it up only until
\* its answer to a ping is overdue (ping_timeout), which is Lose, Notice and
\* SendRaises.  Nothing is promised for the clients or the operator.
Fairness ==
    /\ \A c \in Conns : SF_vars(HandlerStep(c)) /\ SF_vars(TransportStep(c))
    /\ WF_vars(Stop)

FairSpec == Spec /\ Fairness

-----------------------------------------------------------------------------
(* Safety.                                                                 *)

\* self._active is the number of handlers that have a slot, however the
\* connections end: the counter neither leaks nor goes below zero.
SlotAccounting == active = Cardinality(Handlers)

\* Never more than MaxConnections handlers run, although the cap is tested in
\* _process_request and the counter raised later, in _handler.  This needs
\* the library not to suspend in between (AtomicUpgrade).
CapRespected == AtomicUpgrade => Cardinality(Handlers) <= MaxConnections

\* The keys and blocks the operator meant: whatever is not blank, wherever it
\* was configured.
ConfiguredKeys == (ApiKeys \cup EnvKeys) \ {Blank}
ConfiguredBlocks == AllowCidrs \ {Blank}

\* auth.py:3-10: the request carries a configured key, and "only matching
\* client addresses are accepted", an empty allowlist allowing all.
FromAllowedPlace(r) ==
    \/ ConfiguredBlocks = {}
    \/ \E block \in ConfiguredBlocks : r.addr \in block

HasKey(r) ==
    \/ ConfiguredKeys = {}
    \/ \E key \in ConfiguredKeys, scheme \in {"api-key", "bearer"} :
           r.header = [scheme |-> scheme, value |-> key]

MayEnter(r) == FromAllowedPlace(r) /\ HasKey(r)

\* The answer to every upgrade request is the one the settings call for: the
\* health check answers anybody and upgrades nobody, nobody gets in or learns
\* that the server is full without a key and an allowed address, nobody who
\* has both is told otherwise, and only who sent two keys is told of an error.
AdmissionSound ==
    \A c \in Conns :
        CASE status[c] = "NONE" -> TRUE
          [] status[c] = "OK" -> request[c].path = "/healthz"
          [] status[c] \in {"SWITCHING", "UNAVAILABLE"} ->
                 request[c].path # "/healthz" /\ MayEnter(request[c])
          [] status[c] \in {"FORBIDDEN", "UNAUTHORIZED"} ->
                 request[c].path # "/healthz" /\ ~MayEnter(request[c])
          [] status[c] = "ERROR" ->
                 /\ request[c].path # "/healthz" /\ ~MayEnter(request[c])
                 /\ request[c].header = TwoHeaders

\* Where blocks are configured the transport knows who is calling, as every
\* TCP transport does.
KnownAddresses == ConfiguredBlocks # {} => \A r \in Requests : r.addr # NoAddr

\* With room for one client, the policy's last reset() is the one made for the
\* client whose observation it is working on: no other client's connection
\* attempt, rejected or not, disturbs a running episode.
SessionIsolated ==
    AtomicUpgrade /\ MaxConnections = 1 =>
        \A c \in Conns : pc[c] = "infer" => resetBy = c

\* What one client sees: the metadata first and once, then replies, and a
\* traceback only as the last frame.
WireGrammar ==
    \A c \in Conns : \A k \in DOMAIN out[c] :
        /\ (k = 1) <=> (out[c][k] = Metadata)
        /\ out[c][k] = Traceback => k = Len(out[c])

IsResult(frame) == frame.type = "result"

\* Position in sent[c] of the k-th observation.
IsKthObs(c, n, k) ==
    /\ n \in DOMAIN sent[c] /\ IsObs(sent[c][n])
    /\ Cardinality({m \in 1..n : IsObs(sent[c][m])}) = k

\* Replies come one per observation and in order, whatever text frames are
\* mixed in: the k-th reply answers the k-th observation.
RepliesInOrder ==
    \A c \in Conns : \A k \in DOMAIN out[c] :
        IsResult(out[c][k]) => IsKthObs(c, out[c][k].obs, k - 1)

\* A reply carries the request_id of the observation it answers, and none if
\* that observation had none.
EchoesRequestId ==
    \A c \in Conns : \A k \in DOMAIN out[c] :
        IsResult(out[c][k]) =>
            out[c][k].rid = IF sent[c][out[c][k].obs] = "obsId"
                            THEN <<c, out[c][k].obs>> ELSE NoId

\* prev_total_ms is the time of the reply before this one on the same
\* connection, and is missing in the first reply only.
TimingOfPreviousStep ==
    \A c \in Conns : \A k \in DOMAIN out[c] :
        IsResult(out[c][k]) =>
            out[c][k].prev = IF k = 2 THEN 0 ELSE out[c][k - 1].obs

\* Once a client of a server that is open is told that there is no room, there
\* is none: slots given back are available to the next client at once.
DenialJustified ==
    [][\A c \in Conns :
          status[c] # "UNAVAILABLE" /\ status'[c] = "UNAVAILABLE" =>
              srv = "closing" \/ Cardinality(Handlers) >= MaxConnections]_vars

\* The server is a slot pool of MaxConnections slots.
HeldBy == {c \in Conns : pc[c] \in InHandler \cup {"accepted"}}
DeniedTo == {c \in Conns : status[c] = "UNAVAILABLE"}
Pool == INSTANCE SlotPool WITH
            Clients <- Conns, Cap <- MaxConnections,
            open <- srv = "serving", held <- HeldBy, denied <- DeniedTo

\* Every step of the server, seen through HeldBy and DeniedTo, is a step of the
\* pool or none: refinement, for a library that does not suspend the upgrade.
ImplementsPool == Pool!PoolSpec

\* policy.py:46 calls close() a "hook called on server shutdown": a server that
\* is gone has closed its policy.
ShutdownClosesPolicy == srv \in {"exited", "killed"} => closed

\* schema.py:11: "On error, the server sends a single TEXT frame with a
\* traceback and closes the connection with code 1011".
TracebackBeforeInternalError ==
    \A c \in Conns : code[c] = 1011 =>
        \E k \in DOMAIN out[c] : out[c][k] = Traceback

-----------------------------------------------------------------------------
(* Liveness.  A process that was killed owes nothing.                      *)

Over(c) == pc[c] = "done" \/ srv = "killed"

\* A client that is gone does not keep its slot.
SlotEventuallyFreed ==
    \A c \in Conns : ws[c] \in {"lost", "closed"} ~> Over(c)

Answered(c, n) ==
    \E k \in DOMAIN out[c] :
        \/ out[c][k] = Traceback
        \/ IsResult(out[c][k]) /\ out[c][k].obs = n

\* Every observation is answered by a reply or a traceback, or the connection
\* ends.
ObservationsAnswered ==
    \A c \in Conns, n \in 1..MaxFrames :
        n <= Len(sent[c]) /\ IsObs(sent[c][n]) ~> Answered(c, n) \/ Over(c)

\* Every upgrade request gets an answer, whoever else has the slots or keeps
\* the loop, and whether it may enter or not.
AdmissionAnswered ==
    \A c \in Conns : pc[c] = "opening" ~> status[c] # "NONE" \/ Over(c)

\* After SIGINT the server ends, with every client gone and the policy closed.
ShutdownCompletes ==
    srv = "closing" ~> (srv = "exited" /\ closed) \/ srv = "killed"
=============================================================================
