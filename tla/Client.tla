------------------------------- MODULE Client -------------------------------
(***************************************************************************)
(* One fing::Client, the TCP connection it owns and the FairyDB thread that*)
(* serves it.  A call of a public method is the steps of `round_trip`:     *)
(* write the request, read the 8-byte length, read the body; the server and*)
(* the network move between any two of them.                               *)
(*                                                                         *)
(* The bytes coming back are one stream.  `wpos` counts the bytes that will*)
(* ever arrive of what the server has sent, `rpos` those the client has    *)
(* taken out, and a reply is a frame at an absolute position.  Nothing in  *)
(* the protocol says which request a frame answers; the field `to` is      *)
(* history, written by the server and never read by the client.            *)
(***************************************************************************)
EXTENDS Integers, Sequences, Protocol

CONSTANTS
  Databases,    \* names of databases, as require_name returns them
  RawNames,     \* names as a caller writes them
  Trim,         \* what str::trim makes of a raw name
  Blank,        \* the empty name
  LongNames,    \* raw names that make a request exceed MAX_REQUEST_BYTES
  NoDatabase,   \* Option::None
  Offered,      \* the methods this caller uses
  Spoken,       \* the responses this server gives
  LengthBytes,  \* bytes of the length prefix, 8 in codec.rs
  BodySizes,    \* body lengths the server announces
  MaxResponse,  \* MAX_RESPONSE_BYTES
  Timeouts,     \* TRUE: a timeout may be set, FALSE: it may be left unset
  Faults,       \* what else goes wrong: "hangup", "undecodable"
  MaxCalls      \* bound on the requests a caller makes

ASSUME ConstantsAssumption ==
  /\ Blank \notin Databases /\ NoDatabase \notin Databases
  /\ Trim \in [RawNames -> Databases \cup {Blank}]
  /\ LongNames \subseteq RawNames
  /\ Offered \subseteq Methods
  /\ Spoken \subseteq Responses
  /\ LengthBytes \in Nat \ {0}
  /\ BodySizes \subseteq Nat \ {0}
  /\ MaxResponse \in Nat
  /\ Timeouts \subseteq BOOLEAN
  /\ MaxCalls \in Nat

VARIABLES
  stage,            \* where the current call, or the Client itself, stands
  call,             \* the method being executed, its argument and its id
  frame,            \* the reply whose length prefix has been read
  building,         \* the call is the use_database of ClientBuilder::connect
  database,         \* Client.database
  statement_guard,  \* Client.statement_guard
  read_timeout,     \* whether SO_RCVTIMEO is set on the stream
  write_timeout,    \* whether SO_SNDTIMEO is set on the stream
  waking,           \* a throwaway connection waits in the listener's backlog
  outbox,           \* requests the server has not read yet
  frames,           \* replies of which the client has not read a byte
  rpos, wpos,       \* bytes read from, and bytes to arrive on, the stream
  tcp,              \* what the peer has done to the connection, see Gone
  serving,          \* the request the server's connection thread works on
  bound,            \* the database the server has bound to this connection
  stopping,         \* the server's shutdown flag
  listener,         \* the server's accept loop: "blocked" or "stopped"
  sent,             \* requests begun so far
  last,             \* the call that returned last: its id, result and reply
  abandoned         \* errors returned so far that left a reply unused

config  == <<statement_guard, read_timeout, write_timeout>>
stream  == <<frames, rpos, wpos>>
session == <<serving, bound, stopping, listener>>
vars == <<stage, call, frame, building, database, config, waking, outbox,
          stream, tcp, session, sent, last, abandoned>>

NoArg     == "no argument"
NoCall    == [op |-> "none", arg |-> NoArg, id |-> 0]
NoRequest == [op |-> "none", arg |-> NoArg, id |-> 0, whole |-> FALSE]
NoFrame   == [at |-> 0, size |-> 0, resp |-> "Undecodable", to |-> 0]

\* The peer has closed ("fin"), or reset with the error yet to be reported to
\* the client ("rst"), or reset and reported, or reset after closing ("broken").
Gone == {"fin", "rst", "broken"}

Args(op) == IF op \in NameMethods THEN RawNames
            ELSE IF op \in SqlMethods THEN Statements ELSE {NoArg}

\* Errors after which the reply to a request may still be on its way, and
\* those after which its outcome is unknown to the caller.
Unread  == {"TimedOut", "ResponseTooLarge"}
Unknown == Unread \cup {"Decode"}

Init ==
  /\ stage = "unconnected" /\ call = NoCall /\ frame = NoFrame
  /\ building = FALSE /\ database = NoDatabase
  /\ statement_guard = TRUE /\ read_timeout = FALSE /\ write_timeout = FALSE
  /\ outbox = <<>> /\ frames = {} /\ rpos = 0 /\ wpos = 0 /\ tcp = "none"
  /\ serving = NoRequest /\ bound = NoDatabase
  /\ stopping = FALSE /\ listener = "blocked" /\ waking = FALSE
  /\ sent = 0 /\ last = [id |-> 0, result |-> "Ok", to |-> 0] /\ abandoned = {}

-----------------------------------------------------------------------------
(* The beginning and the end of a call.                                    *)

\* require_name refuses a blank name.  import_csv's two names are one argument:
\* either being blank refuses both.
NameError(op, arg) ==
  IF op \in NameMethods /\ Trim[arg] = Blank THEN "InvalidArgument" ELSE "Ok"

\* encode_request refuses what the server could not read at once.
SizeError(arg) ==
  IF arg \in LongNames \cup {"huge"} THEN "RequestTooLarge" ELSE "Ok"

\* Everything a method refuses before the request is written, in this order.
LocalError(op, arg) ==
  LET guard == IF op \in SqlMethods
               THEN StatementError(arg, statement_guard) ELSE "Ok"
  IN IF NameError(op, arg) # "Ok" THEN NameError(op, arg)
     ELSE IF guard # "Ok" THEN guard ELSE SizeError(arg)

Start(op, arg) ==
  /\ stage' = "write"
  /\ call' = [op |-> op, arg |-> arg, id |-> sent + 1]
  /\ sent' = sent + 1

\* Bug: the name is recorded as the caller wrote it.
DatabaseAfterUntrimmed(op, arg, result) ==
  IF result = "Ok" /\ op = "use_database" THEN arg
  ELSE IF result = "Ok" /\ op = "reset_server" THEN NoDatabase ELSE database

\* Bug: a reset leaves the recorded database in place.
DatabaseAfterNoReset(op, arg, result) ==
  IF result = "Ok" /\ op = "use_database" THEN Trim[arg] ELSE database

\* Bug: the name is recorded before `check` has seen the reply.
DatabaseAfterUnchecked(op, arg, result) ==
  IF op = "use_database" THEN Trim[arg]
  ELSE IF result = "Ok" /\ op = "reset_server" THEN NoDatabase ELSE database

\* Client.database after a call that returned `result`.
DatabaseAfter(op, arg, result) ==
  IF result = "Ok" /\ op = "use_database" THEN Trim[arg]
  ELSE IF result = "Ok" /\ op = "reset_server" THEN NoDatabase ELSE database

\* Bug: shutdown_server opens its throwaway connection whatever the answer.
ReturnWakesAlways(result, to) ==
  /\ stage' = IF call.op \in Consuming \/ (building /\ result # "Ok")
              THEN "dropped" ELSE "idle"
  /\ database' = DatabaseAfter(call.op, call.arg, result)
  /\ waking' = (waking \/ call.op = "shutdown_server")
  /\ last' = [id |-> call.id, result |-> result, to |-> to]
  /\ abandoned' = abandoned \cup ({result} \cap Unknown)
  /\ call' = NoCall /\ frame' = NoFrame /\ building' = FALSE
  /\ UNCHANGED <<config, sent>>

\* The current call returns `result`, having read the reply to request `to`
\* (0 if it read none).  A Client that could not be built, or whose method
\* took `self`, is dropped.
Return(result, to) ==
  /\ stage' = IF call.op \in Consuming \/ (building /\ result # "Ok")
              THEN "dropped" ELSE "idle"
  /\ database' = DatabaseAfter(call.op, call.arg, result)
  /\ waking' = (waking \/ (call.op = "shutdown_server" /\ result = "Ok"))
  /\ last' = [id |-> call.id, result |-> result, to |-> to]
  /\ abandoned' = abandoned \cup ({result} \cap Unknown)
  /\ call' = NoCall /\ frame' = NoFrame /\ building' = FALSE
  /\ UNCHANGED <<config, sent>>

-----------------------------------------------------------------------------
(* ClientBuilder::connect and the setters.                                 *)

\* Bug: the builder's read timeout never reaches the stream.
ConnectNoReadTimeout ==
  /\ stage = "unconnected"
  /\ tcp' = "open" /\ stage' = "idle"
  /\ statement_guard' \in BOOLEAN
  /\ read_timeout' = FALSE /\ write_timeout' \in Timeouts
  /\ UNCHANGED <<call, building, sent, frame, database, waking, outbox, stream,
                 session, last, abandoned>>

Connect ==
  /\ stage = "unconnected"
  /\ tcp' = "open"
  /\ statement_guard' \in BOOLEAN
  /\ read_timeout' \in Timeouts /\ write_timeout' \in Timeouts
  /\ \/ /\ stage' = "idle"
        /\ UNCHANGED <<call, building, sent>>
     \/ \E raw \in RawNames :
          IF LocalError("use_database", raw) = "Ok"
          THEN MaxCalls > 0 /\ Start("use_database", raw) /\ building' = TRUE
          ELSE stage' = "dropped" /\ UNCHANGED <<call, building, sent>>
  /\ UNCHANGED <<frame, database, waking, outbox, stream, session, last, abandoned>>

\* The address resolves to nothing, nobody listens there, or a socket option
\* is refused: no Client comes into being.
ConnectFails ==
  /\ stage = "unconnected"
  /\ stage' = "dropped"
  /\ UNCHANGED <<call, frame, building, database, config, waking, outbox,
                 stream, tcp, session, sent, last, abandoned>>

\* A timeout of zero is refused by the socket, which keeps the one it had: a
\* call that changes nothing, and is not modelled.
SetReadTimeout ==
  /\ stage = "idle"
  /\ read_timeout' \in Timeouts
  /\ UNCHANGED <<stage, call, frame, building, database, statement_guard,
                 write_timeout, waking, outbox, stream, tcp, session, sent,
                 last, abandoned>>

\* Here, too, a timeout of zero is refused and changes nothing.
SetWriteTimeout ==
  /\ stage = "idle"
  /\ write_timeout' \in Timeouts
  /\ UNCHANGED <<stage, call, frame, building, database, statement_guard,
                 read_timeout, waking, outbox, stream, tcp, session, sent,
                 last, abandoned>>

SetStatementGuard ==
  /\ stage = "idle"
  /\ statement_guard' \in BOOLEAN
  /\ UNCHANGED <<stage, call, frame, building, database, read_timeout,
                 write_timeout, waking, outbox, stream, tcp, session, sent,
                 last, abandoned>>

-----------------------------------------------------------------------------
(* round_trip: write_request, then read_response.                          *)

\* A public method is called; it fails at once or has a request to write.
Call(op, arg) ==
  /\ stage = "idle" /\ sent < MaxCalls
  /\ IF LocalError(op, arg) = "Ok"
     THEN Start(op, arg) /\ UNCHANGED last
     ELSE /\ last' = [id |-> 0, result |-> LocalError(op, arg), to |-> 0]
          /\ UNCHANGED <<stage, call, sent>>
  /\ UNCHANGED <<frame, building, database, config, waking, outbox, stream,
                 tcp, session, abandoned>>

Request == [op |-> call.op, arg |-> call.arg, id |-> call.id, whole |-> TRUE]

\* Bug: the request is written once more, as by a retry that forgets that the
\* first attempt has got through.
WriteRequestTwice ==
  /\ stage = "write"
  /\ \/ tcp = "open" /\ outbox' = outbox \o <<Request, Request>> /\ tcp' = tcp
     \/ tcp = "fin" /\ tcp' \in {"fin", "broken"} /\ outbox' = outbox
  /\ stage' = "length"
  /\ UNCHANGED <<call, frame, building, database, config, waking, stream,
                 session, sent, last, abandoned>>

\* write_all and flush succeed.  Bytes written after the peer has closed go
\* nowhere; the peer answers them with a reset, sooner or later.
WriteRequest ==
  /\ stage = "write"
  /\ \/ tcp = "open" /\ outbox' = Append(outbox, Request) /\ tcp' = tcp
     \/ tcp = "fin" /\ tcp' \in {"fin", "broken"} /\ outbox' = outbox
  /\ stage' = "length"
  /\ UNCHANGED <<call, frame, building, database, config, waking, stream,
                 session, sent, last, abandoned>>

\* The write timeout fires after none, or a part, of the request is out.
WriteTimesOut ==
  /\ stage = "write" /\ write_timeout /\ tcp = "open"
  /\ outbox' \in {outbox, Append(outbox, [Request EXCEPT !.whole = FALSE])}
  /\ Return("TimedOut", 0)
  /\ UNCHANGED <<stream, tcp, session>>

\* A write to a reset connection, as on Linux: ECONNRESET, which becomes
\* ConnectionClosed, and from then on EPIPE, which stays an Error::Io.
WriteFails ==
  /\ stage = "write"
  /\ \/ tcp = "rst" /\ Return("ConnectionClosed", 0)
     \/ tcp = "broken" /\ Return("BrokenPipe", 0)
  /\ tcp' = "broken"
  /\ UNCHANGED <<outbox, stream, session>>

\* read_exact takes n bytes off the stream, whatever they mean.
Consume(n) ==
  /\ rpos' = rpos + n
  /\ frames' = {f \in frames : f.at >= rpos + n}
  /\ wpos' = wpos

\* The reply that starts where the client reads.  Where none does, the client
\* is inside one, and takes any bytes at all for a length and a body.
Phantoms == [at : {rpos}, size : BodySizes \cup {0},
             resp : Spoken \cup {"Undecodable"}, to : {0}]
Announced ==
  IF \E f \in frames : f.at = rpos THEN {f \in frames : f.at = rpos} ELSE Phantoms

\* Bug: an empty reply is looked at, but its length is left in the stream.
ReadLengthPeeks ==
  /\ stage = "length" /\ rpos + LengthBytes <= wpos
  /\ \E f \in Announced :
       \/ f.size = 0 /\ Consume(0) /\ Return(Result(call.op, "QuietOk"), f.to)
       \/ /\ f.size > MaxResponse
          /\ Consume(LengthBytes) /\ Return("ResponseTooLarge", f.to)
       \/ /\ f.size # 0 /\ f.size <= MaxResponse /\ Consume(LengthBytes)
          /\ stage' = "body" /\ frame' = f
          /\ UNCHANGED <<call, building, database, config, waking, sent, last,
                         abandoned>>
  /\ UNCHANGED <<outbox, tcp, session>>

\* Bug: an empty reply is skipped as a keep-alive would be.
ReadLengthSkipsEmpty ==
  /\ stage = "length" /\ rpos + LengthBytes <= wpos
  /\ Consume(LengthBytes)
  /\ \E f \in Announced :
       /\ f.size <= MaxResponse
       /\ stage' = IF f.size = 0 THEN "length" ELSE "body"
       /\ frame' = IF f.size = 0 THEN frame ELSE f
       /\ UNCHANGED <<call, building, database, config, waking, sent, last,
                      abandoned>>
  /\ UNCHANGED <<outbox, tcp, session>>

ReadLength ==
  /\ stage = "length" /\ rpos + LengthBytes <= wpos
  /\ Consume(LengthBytes)
  /\ \E f \in Announced :
       \/ f.size = 0 /\ Return(Result(call.op, "QuietOk"), f.to)
       \/ f.size > MaxResponse /\ Return("ResponseTooLarge", f.to)
       \/ /\ f.size # 0 /\ f.size <= MaxResponse
          /\ stage' = "body" /\ frame' = f
          /\ UNCHANGED <<call, building, database, config, waking, sent, last,
                         abandoned>>
  /\ UNCHANGED <<outbox, tcp, session>>

\* Bug: the body is decoded straight from the stream, and decoding stops where
\* the body makes no sense.
ReadBodyStreaming ==
  /\ stage = "body" /\ rpos + frame.size <= wpos
  /\ \E n \in 0 .. frame.size :
       /\ frame.resp # "Undecodable" => n = frame.size
       /\ Consume(n)
  /\ Return(IF frame.resp = "Undecodable" THEN "Decode"
            ELSE Result(call.op, frame.resp), frame.to)
  /\ UNCHANGED <<outbox, tcp, session>>

ReadBody ==
  /\ stage = "body" /\ rpos + frame.size <= wpos
  /\ Consume(frame.size)
  /\ Return(IF frame.resp = "Undecodable" THEN "Decode"
            ELSE Result(call.op, frame.resp), frame.to)
  /\ UNCHANGED <<outbox, tcp, session>>

\* Bytes the read_exact in progress has asked for.
Wanted == IF stage = "body" THEN frame.size ELSE LengthBytes

\* The read timeout fires; the bytes read_exact had already taken are lost.
ReadTimesOut ==
  /\ stage \in {"length", "body"} /\ read_timeout
  /\ \E n \in 0 .. Wanted - 1 : rpos + n <= wpos /\ Consume(n)
  /\ Return("TimedOut", 0)
  /\ UNCHANGED <<outbox, tcp, session>>

\* Bug: what there is of a reply is kept for the next call to go on with.
ReadEofKeepsBytes ==
  /\ stage \in {"length", "body"} /\ tcp \in Gone
  /\ rpos + Wanted > wpos
  /\ Consume(0)
  /\ Return("ConnectionClosed", 0)
  /\ tcp' = IF tcp = "rst" THEN "broken" ELSE tcp
  /\ UNCHANGED <<outbox, session>>

\* End of the stream before the bytes asked for: UnexpectedEof or
\* ConnectionReset, both ConnectionClosed.
ReadEof ==
  /\ stage \in {"length", "body"} /\ tcp \in Gone
  /\ rpos + Wanted > wpos
  /\ Consume(wpos - rpos)
  /\ Return("ConnectionClosed", 0)
  /\ tcp' = IF tcp = "rst" THEN "broken" ELSE tcp
  /\ UNCHANGED <<outbox, session>>

ClientStep ==
  \/ WriteRequest \/ WriteTimesOut \/ WriteFails
  \/ ReadLength \/ ReadBody \/ ReadTimesOut \/ ReadEof

-----------------------------------------------------------------------------
(* The server, external: one thread per connection, one read per request.  *)

\* The thread is gone, and with it the session.  Of what it had sent, a reset
\* may take back what the client has not read.
HungUp ==
  /\ tcp' \in {"fin", "rst"}
  /\ outbox' = <<>> /\ serving' = NoRequest /\ bound' = NoDatabase
  /\ UNCHANGED <<stopping, listener>>

\* A single read takes what has arrived.  Anything but one whole request does
\* not decode, and the connection is dropped.
ServerRead ==
  /\ tcp = "open" /\ serving = NoRequest /\ outbox # <<>>
  /\ \/ /\ outbox[1].whole
        /\ serving' = outbox[1] /\ outbox' = Tail(outbox)
        /\ UNCHANGED <<stream, tcp, bound, stopping, listener>>
     \/ /\ Len(outbox) > 1 \/ ~outbox[1].whole
        /\ HungUp /\ UNCHANGED stream
  /\ UNCHANGED <<stage, call, frame, building, database, config, waking, sent,
                 last, abandoned>>

\* The replies the server may send to `request`.  An empty frame is the quiet
\* acknowledgement.  Types that have drifted apart make a body undecodable.
ReplyFrames(request, resp) ==
  LET bodies == IF "undecodable" \in Faults THEN {resp, "Undecodable"} ELSE {resp}
      empty  == IF resp = "QuietOk" THEN {0} ELSE {}
  IN [at : {wpos}, size : BodySizes, resp : bodies, to : {request.id}]
     \cup [at : {wpos}, size : empty, resp : {resp}, to : {request.id}]

\* The command is carried out exactly when the answer is no refusal.
BoundAfter(request, resp) ==
  IF Check(resp) = "Ok" /\ request.op = "use_database" THEN Trim[request.arg]
  ELSE IF Check(resp) = "Ok" /\ request.op = "reset_server" THEN NoDatabase
  ELSE bound

ServerReply ==
  /\ tcp = "open" /\ serving # NoRequest
  /\ \E resp \in Replies(serving.op, bound # NoDatabase) \cap Spoken :
       /\ \E f \in ReplyFrames(serving, resp) :
            frames' = frames \cup {f} /\ wpos' = wpos + LengthBytes + f.size
       /\ bound' = BoundAfter(serving, resp)
       /\ stopping' = (stopping \/ (serving.op = "shutdown_server"
                                    /\ resp \in Acknowledgements("shutdown_server")))
  /\ serving' = NoRequest
  /\ UNCHANGED <<stage, call, frame, building, database, config, waking,
                 outbox, rpos, tcp, listener, sent, last, abandoned>>

\* The thread panics, before or while it answers, or drops the connection.
ServerHangsUp ==
  /\ "hangup" \in Faults /\ tcp = "open"
  /\ HungUp
  /\ \/ UNCHANGED stream
     \/ /\ tcp' = "rst" /\ wpos' \in rpos .. wpos
        /\ UNCHANGED <<frames, rpos>>
     \/ /\ serving # NoRequest
        /\ \E size \in BodySizes, resp \in Spoken : \E n \in 1 .. LengthBytes + size - 1 :
             /\ frames' = frames \cup {[at |-> wpos, size |-> size,
                                        resp |-> resp, to |-> serving.id]}
             /\ wpos' = wpos + n
        /\ rpos' = rpos
  /\ UNCHANGED <<stage, call, frame, building, database, config, waking, sent,
                 last, abandoned>>

\* The accept loop takes the throwaway connection and looks at the flag.
Accept ==
  /\ waking /\ listener = "blocked"
  /\ waking' = FALSE
  /\ listener' = IF stopping THEN "stopped" ELSE "blocked"
  /\ UNCHANGED <<stage, call, frame, building, database, config, outbox,
                 stream, tcp, serving, bound, stopping, sent, last, abandoned>>

-----------------------------------------------------------------------------
Next ==
  \/ Connect \/ ConnectFails
  \/ SetReadTimeout \/ SetWriteTimeout \/ SetStatementGuard
  \/ \E op \in Offered : \E arg \in Args(op) : Call(op, arg)
  \/ WriteRequest \/ WriteTimesOut \/ WriteFails
  \/ ReadLength \/ ReadBody \/ ReadTimesOut \/ ReadEof
  \/ ServerRead \/ ServerReply \/ ServerHangsUp \/ Accept

Spec == Init /\ [][Next]_vars

\* The caller's thread runs on until a call returns; a timeout that is set
\* fires in the end.
ClientFairness == WF_vars(ClientStep)

\* The server's threads read what has arrived and answer what they have read,
\* and the accept loop takes what is in its backlog.
ServerFairness ==
  WF_vars(ServerRead) /\ WF_vars(ServerReply) /\ WF_vars(Accept)

\* Every thread runs: for a caller without timeouts.
FairSpec == Spec /\ ClientFairness /\ ServerFairness

\* The server may stall for ever: for a caller with a read timeout.
StallSpec == Spec /\ ClientFairness

-----------------------------------------------------------------------------
(* Properties.                                                             *)

Stages == {"unconnected", "idle", "write", "length", "body", "dropped"}

\* A method and an argument it takes.
Suits(c) == c.arg \in Args(c.op)

Requests == [op : Methods \cup {"none"},
             arg : RawNames \cup Statements \cup {NoArg},
             id : Nat, whole : BOOLEAN]

Frames == [at : Nat, size : Nat, resp : Bodies, to : Nat]

\* Every variable has its type, and the client never reads past the stream.
TypeOK ==
  /\ stage \in Stages
  /\ call \in [op : Methods \cup {"none"},
               arg : RawNames \cup Statements \cup {NoArg}, id : Nat]
  /\ Suits(call)
  /\ frame \in Frames
  /\ building \in BOOLEAN
  /\ database \in Databases \cup {Blank, NoDatabase}
  /\ statement_guard \in BOOLEAN
  /\ read_timeout \in BOOLEAN /\ write_timeout \in BOOLEAN
  /\ waking \in BOOLEAN
  /\ outbox \in Seq(Requests) /\ \A i \in 1 .. Len(outbox) : Suits(outbox[i])
  /\ frames \in SUBSET Frames
  /\ rpos \in Nat /\ wpos \in Nat /\ rpos <= wpos
  /\ tcp \in {"none", "open"} \cup Gone
  /\ serving \in Requests /\ Suits(serving)
  /\ bound \in Databases \cup {Blank, NoDatabase}
  /\ stopping \in BOOLEAN /\ listener \in {"blocked", "stopped"}
  /\ sent \in Nat
  /\ last \in [id : Nat, result : Results, to : Nat]
  /\ abandoned \in SUBSET Unknown

\* No call has ended with its reply unread so far, and none without knowing
\* what the server made of its request.
Clean == abandoned \cap Unread = {}
Sure  == abandoned = {}

\* As long as no call has ended in a timeout or in ResponseTooLarge, nothing
\* is under way between two calls: no request unread, none being worked on,
\* no byte of a reply left for the next call to find.  Every other error,
\* those of the guard, of the server and of the decoder included, leaves the
\* connection fit for the next call (round_trip, read_response).
InSync ==
  stage = "idle" /\ Clean => outbox = <<>> /\ serving = NoRequest /\ rpos = wpos

\* Results a call can only reach with a reply in hand.
Answered == {"Ok", "Server", "Query", "NotConnected", "UnexpectedResponse",
             "ServerShutdown", "Decode"}

\* Until then, a call that reports what the server said reports what it said
\* to this very call (round_trip pairs requests and replies by order alone).
AnswersItsRequest ==
  Clean /\ last.result \in Answered => last.to = last.id

\* As long as no call has lost its reply, or been unable to decode it, what
\* Client::database says between calls is what the server has bound to this
\* connection (use_database, reset_server).
DatabaseIsBound ==
  stage = "idle" /\ tcp = "open" /\ Sure => database = bound

\* Where shutdown_server has taken the answer to its own request, its throwaway
\* connection reaches the accept loop only after the shutdown flag is up: earlier
\* it would be wasted.  No condition on what has gone wrong before; but an answer
\* that an earlier call has left behind is not its own.
WakesAfterFlag == waking /\ last.to = last.id => stopping

\* Likewise a use_database or reset_server that succeeds by the answer to its own
\* request leaves Client::database as the server has it, whatever calls before it
\* were lost, timed out or not decoded (use_database, reset_server).
Settles ==
  [][call.op \in {"use_database", "reset_server"} /\ call' = NoCall
       /\ last'.result = "Ok" /\ last'.to = call.id /\ tcp = "open"
     => database' = bound']_vars

\* Requests the server has yet to answer.
Waiting == {outbox[i] : i \in 1 .. Len(outbox)} \cup ({serving} \ {NoRequest})

\* What timeouts and oversized replies leave behind is late and nothing worse:
\* the reply used last, the one being read, those to come, the request being
\* worked on and those that wait for it belong to different calls and are in the
\* order of the calls.  So no reply answers two calls, or a call older than an
\* answer already given, and no request is carried out twice (write_request,
\* read_response).
InOrder ==
  /\ \A f \in frames : last.to < f.to /\ frame.to < f.to
  /\ \A f, g \in frames : f.at < g.at => f.to < g.to
  /\ \A r \in Waiting :
       last.to < r.id /\ frame.to < r.id /\ \A f \in frames : f.to < r.id
  /\ \A i, j \in 1 .. Len(outbox) : i < j => outbox[i].id < outbox[j].id
  /\ serving # NoRequest => \A i \in 1 .. Len(outbox) : serving.id < outbox[i].id

-----------------------------------------------------------------------------
(* What makes these invariants inductive: the one thing that may be under  *)
(* way at each stage of a call, and what it says of the server's session.  *)

Quiet ==
  /\ outbox = <<>> /\ serving = NoRequest /\ rpos = wpos
  /\ tcp \notin {"rst", "broken"} => frames = {}

\* The request, or its reply, or neither any more since the server is gone.
InFlight ==
  \/ /\ tcp = "open" /\ frames = {} /\ rpos = wpos
     /\ \/ outbox = <<Request>> /\ serving = NoRequest
        \/ outbox = <<>> /\ serving = Request
  \/ /\ outbox = <<>> /\ serving = NoRequest
     /\ \E f \in frames :
          /\ frames = {f} /\ f.at = rpos /\ f.to = call.id
          /\ wpos <= rpos + LengthBytes + f.size
     /\ tcp \notin {"rst", "broken"} => rpos < wpos
  \/ tcp # "open" /\ frames = {} /\ Quiet

HalfRead ==
  /\ outbox = <<>> /\ serving = NoRequest /\ frames = {}
  /\ frame.to = call.id /\ frame.at + LengthBytes = rpos
  /\ wpos <= rpos + frame.size

\* Between two calls nothing is under way, during a call its own request or
\* its own reply and nothing else (write_request, read_response).
Exchange ==
  Clean => /\ stage \in {"unconnected", "idle", "write"} => Quiet
           /\ stage = "length" => InFlight
           /\ stage = "body" => HalfRead
           /\ stage = "unconnected" => tcp = "none"

\* The replies to the current call that have not been read to their end.
Pending == IF stage = "body" THEN {frame} ELSE IF stage = "length" THEN frames ELSE {}

\* Until a reply has been read, the client knows less than the server: its
\* `database` becomes the server's by taking that reply into account.
Tracking ==
  /\ Sure /\ tcp \in {"none", "open"} /\ stage # "dropped" =>
       /\ Pending = {} => database = bound
       /\ \A f \in Pending : f.resp # "Undecodable" =>
            bound = DatabaseAfter(call.op, call.arg, Result(call.op, f.resp))
  /\ Clean => \A f \in Pending :
       /\ f.size = 0 => f.resp = "QuietOk"
       /\ call.op = "shutdown_server" /\ f.resp \in Accepted("shutdown_server")
            /\ f.at + LengthBytes + f.size <= wpos => stopping

Running == stage \in {"write", "length", "body"}

Complete(f) == f.at + LengthBytes + f.size <= wpos

\* What the server must have done once it has sent `resp` to the current call.
Done(resp) ==
  Result(call.op, resp) = "Ok" =>
    /\ call.op = "shutdown_server" => stopping
    /\ call.op \in {"use_database", "reset_server"} /\ tcp = "open"
         => bound = DatabaseAfter(call.op, call.arg, "Ok")

\* Requests and replies bear the numbers of calls begun, and until a call has
\* written its request they bear those of calls before it.
Numbered ==
  /\ call.id \in {0, sent} /\ last.to <= sent
  /\ Running => call.id = sent /\ last.to < sent
  /\ \A r \in Waiting : r.id <= sent /\ (stage = "write" => r.id < sent)
  /\ \A f \in frames \cup {frame} : f.to <= sent /\ (stage = "write" => f.to < sent)

\* Where the reply being read and those to come lie on the stream.
Placed ==
  /\ stage = "unconnected" => tcp = "none" /\ frames = {}
  /\ stage # "body" => frame = NoFrame
  /\ stage = "body" /\ frame.to # 0 => frame.at + LengthBytes = rpos
  /\ tcp = "open" => \A f \in frames \cup {frame} : f.to # 0 => Complete(f)
  /\ waking => stage = "dropped"

\* What has the number of the current call is its request or a reply to it, and
\* such a reply says what the server has done.
Own ==
  /\ \A r \in Waiting : r.id = call.id => r.op = call.op /\ r.arg = call.arg
  /\ \A f \in frames \cup {frame} : f.to # 0 =>
       /\ f.size = 0 => f.resp = "QuietOk"
       /\ f.to = call.id /\ f.resp # "Undecodable" /\ Complete(f) => Done(f.resp)

\* What makes InOrder, WakesAfterFlag and Settles inductive without a condition
\* on the past (write_request, read_response).
Addressed == InOrder /\ Numbered /\ Placed /\ Own /\ WakesAfterFlag

\* Once a call has reported the end of the connection, no call ever reports an
\* answer of the server again; and once one has found the pipe broken, no call
\* reports anything else the socket could say (read_response, write_request, the
\* conversion from io::Error).
ClosedStaysClosed ==
  /\ [](last.result \in {"ConnectionClosed", "BrokenPipe"}
          => [](last.result \notin Answered))
  /\ [](last.result = "BrokenPipe"
          => [](last.result \notin {"ConnectionClosed", "TimedOut"}))

\* Every call returns.
CallsReturn == Running ~> ~Running

\* A shutdown the server has accepted stops its accept loop, unless the answer
\* never reached the caller or could not be decoded (shutdown_server).
ShutdownStops ==
  stopping ~> (listener = "stopped" \/ last.result \in {"ConnectionClosed", "Decode"})
=============================================================================
