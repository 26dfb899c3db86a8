------------------------------ MODULE Sessions ------------------------------
(***************************************************************************)
(* Several fing::Client values of one FairyDB server: how each comes into  *)
(* being through its ClientBuilder and the listener's backlog, what one    *)
(* Client's calls do to the sessions of the others, and how a shutdown     *)
(* ends them all.  A call is the remote call that ClientRpc shows a single *)
(* Client to make: one request, one answer or none; its bytes are not      *)
(* modelled again, nor are the read timeouts of a Client that has been     *)
(* built, whose effects are those of module Client.                        *)
(***************************************************************************)
EXTENDS Integers, Sequences, Protocol

CONSTANTS
  Clients,      \* the Client values that programs make
  Databases,    \* names of databases, as require_name returns them
  RawNames,     \* names as a caller writes them
  Trim,         \* what str::trim makes of a raw name
  Blank,        \* the empty name
  NoDatabase,   \* Option::None
  Server,       \* the address the server listens at
  Resolutions,  \* what an address can resolve to: sequences of addresses
  Options,      \* the options a ClientBuilder may hold
  Offered,      \* the methods these callers use
  Spoken,       \* the responses this server gives
  Backlog,      \* connections the listener's queue holds
  Hangups,      \* whether the server's threads may panic
  MaxCalls      \* bound on the calls of all Clients together

Limits == {"none", "zero", "some"}

\* The connection shutdown_server makes and drops at once.
Throwaway == "throwaway"

ASSUME SessionsAssumption ==
  /\ Blank \notin Databases /\ NoDatabase \notin Databases \cup {Blank} \cup RawNames
  /\ Trim \in [RawNames -> Databases \cup {Blank}]
  /\ Options \subseteq [connect_timeout : Limits, read_timeout : Limits,
                        write_timeout : Limits, database : RawNames \cup {NoDatabase}]
  /\ Offered \subseteq Methods
  /\ Spoken \subseteq Responses
  /\ Throwaway \notin Clients
  /\ Backlog \in Nat \ {0}
  /\ Hangups \in BOOLEAN
  /\ MaxCalls \in Nat

VARIABLES
  stage,      \* where each Client stands
  options,    \* its builder's options
  address,    \* its `addr`, once resolved
  call,       \* the call it is executing
  database,   \* Client.database
  ended,      \* its last call: what it returned, and the answer it had read
  made,       \* the calls begun so far, those of the builders left aside
  request,    \* per connection, the request no thread has answered yet
  reply,      \* per connection, the answer the Client has not taken yet
  thread,     \* per connection, the server's end: see Threads
  backlog,    \* connections the accept loop has not taken
  listener,   \* the accept loop: "accepting" or "stopped"
  stopping,   \* the server's shutdown flag
  databases,  \* the server's databases
  bound,      \* the database the server has bound to each connection
  overruled   \* Clients whose session another Client's reset has cleared

local  == <<options, address>>
server == <<backlog, listener, stopping, databases, overruled>>
vars == <<stage, local, made, call, database, ended, request, reply, thread, server, bound>>

NoArg     == "no argument"
NoCall    == [op |-> "none", arg |-> NoArg]
NoReply   == [resp |-> "none", list |-> {}]
NotYet    == [result |-> "none", reply |-> NoReply]
NoOptions == [connect_timeout |-> "none", read_timeout |-> "none",
              write_timeout |-> "none", database |-> NoDatabase]
NoAddress == "no address"

\* No connection, one in the backlog, one with a thread, one the server has left.
Threads == {"none", "queued", "serving", "gone"}

Busy == {"building", "calling"}

Args(op) == IF op \in NameMethods THEN RawNames ELSE {NoArg}

Init ==
  /\ stage = [c \in Clients |-> "new"]
  /\ options = [c \in Clients |-> NoOptions]
  /\ address = [c \in Clients |-> NoAddress]
  /\ call = [c \in Clients |-> NoCall]
  /\ database = [c \in Clients |-> NoDatabase]
  /\ ended = [c \in Clients |-> NotYet]
  /\ made = 0
  /\ request = [c \in Clients |-> NoCall]
  /\ reply = [c \in Clients |-> NoReply]
  /\ thread = [c \in Clients |-> "none"]
  /\ backlog = <<>> /\ listener = "accepting" /\ stopping = FALSE
  /\ databases = {} /\ bound = [c \in Clients |-> NoDatabase] /\ overruled = {}

-----------------------------------------------------------------------------
(* The end of a call.                                                      *)

\* Bug: the name is recorded as the caller wrote it.
DatabaseAfterUntrimmed(o, result, name) ==
  IF result # "Ok" THEN name
  ELSE CASE o.op = "use_database" -> o.arg
         [] o.op = "reset_server" -> NoDatabase
         [] OTHER                 -> name

\* Bug: a reset does not clear it.
DatabaseAfterNoReset(o, result, name) ==
  IF result = "Ok" /\ o.op = "use_database" THEN Trim[o.arg] ELSE name

\* Bug: it is recorded whatever the server says.
DatabaseAfterUnchecked(o, result, name) ==
  CASE o.op = "use_database" -> Trim[o.arg]
    [] o.op = "reset_server" -> NoDatabase
    [] OTHER                 -> name

\* Client.database after a call `o` that returned `result`.
DatabaseAfter(o, result, name) ==
  IF result # "Ok" THEN name
  ELSE CASE o.op = "use_database" -> Trim[o.arg]
         [] o.op = "reset_server" -> NoDatabase
         [] OTHER                 -> name

\* Bug: a Client whose close or shutdown has failed is kept.
ReturnOnSuccess(c, result) ==
  /\ stage' = [stage EXCEPT ![c] =
                 IF (call[c].op \in Consuming /\ result = "Ok")
                    \/ (stage[c] = "building" /\ result # "Ok")
                 THEN "dropped" ELSE "idle"]
  /\ database' = [database EXCEPT ![c] = DatabaseAfter(call[c], result, database[c])]
  /\ ended' = [ended EXCEPT ![c] = [result |-> result, reply |-> reply[c]]]
  /\ call' = [call EXCEPT ![c] = NoCall]
  /\ reply' = [reply EXCEPT ![c] = NoReply]
  /\ UNCHANGED local

\* The call of c returns.  A Client that could not be built, or whose method
\* took `self`, is dropped, and its socket closed with it.
Return(c, result) ==
  /\ stage' = [stage EXCEPT ![c] =
                 IF call[c].op \in Consuming \/ (stage[c] = "building" /\ result # "Ok")
                 THEN "dropped" ELSE "idle"]
  /\ database' = [database EXCEPT ![c] = DatabaseAfter(call[c], result, database[c])]
  /\ ended' = [ended EXCEPT ![c] = [result |-> result, reply |-> reply[c]]]
  /\ call' = [call EXCEPT ![c] = NoCall]
  /\ reply' = [reply EXCEPT ![c] = NoReply]
  /\ UNCHANGED local

\* A call or a connect of c ends without anything having been sent.
Refuse(c, next, err) ==
  /\ stage' = [stage EXCEPT ![c] = next]
  /\ ended' = [ended EXCEPT ![c] = [result |-> err, reply |-> NoReply]]
  /\ UNCHANGED <<call, database, reply>>

\* The request is written: to a connection the server has left, in vain.
Start(c, next, op, arg) ==
  /\ stage' = [stage EXCEPT ![c] = next]
  /\ call' = [call EXCEPT ![c] = [op |-> op, arg |-> arg]]
  /\ request' = [request EXCEPT ![c] =
                   IF thread[c] = "gone" THEN NoCall ELSE [op |-> op, arg |-> arg]]
  /\ UNCHANGED <<database, ended, reply>>

-----------------------------------------------------------------------------
(* ClientBuilder::connect.                                                 *)

\* `resolve` takes the first address and no other.  A connect_timeout of zero
\* is refused before anything is sent.
Connect(c) ==
  /\ stage[c] = "new"
  /\ \E chosen \in Options, addresses \in Resolutions :
       IF addresses = <<>> THEN Refuse(c, "dropped", "InvalidArgument") /\ UNCHANGED local
       ELSE IF chosen.connect_timeout = "zero"
       THEN Refuse(c, "dropped", "InvalidInput") /\ UNCHANGED local
       ELSE /\ stage' = [stage EXCEPT ![c] = "connecting"]
            /\ options' = [options EXCEPT ![c] = chosen]
            /\ address' = [address EXCEPT ![c] = Head(addresses)]
            /\ UNCHANGED <<call, database, ended, reply>>
  /\ UNCHANGED <<made, request, thread, server, bound>>

Room == listener = "accepting" /\ Len(backlog) < Backlog

\* The kernel completes the connection and queues it for the accept loop; then
\* the builder sets the socket's timeouts, of which zero is refused, and selects
\* its database.  An error drops the Client with its new connection.
Establish(c) ==
  /\ stage[c] = "connecting" /\ address[c] = Server /\ Room
  /\ backlog' = Append(backlog, c)
  /\ thread' = [thread EXCEPT ![c] = "queued"]
  /\ IF "zero" \in {options[c].read_timeout, options[c].write_timeout}
     THEN Refuse(c, "dropped", "InvalidInput") /\ UNCHANGED request
     ELSE IF options[c].database = NoDatabase
     THEN /\ stage' = [stage EXCEPT ![c] = "idle"]
          /\ UNCHANGED <<call, database, ended, request, reply>>
     ELSE IF Trim[options[c].database] = Blank
     THEN Refuse(c, "dropped", "InvalidArgument") /\ UNCHANGED request
     ELSE Start(c, "building", "use_database", options[c].database)
  /\ UNCHANGED <<made, options, address, listener, stopping, databases, bound, overruled>>

\* Nobody listens there, or not any more.
ConnectRefused(c) ==
  /\ stage[c] = "connecting" /\ (address[c] # Server \/ listener = "stopped")
  /\ Refuse(c, "dropped", "Refused")
  /\ UNCHANGED <<made, local, request, thread, server, bound>>

\* connect_timeout fires, or without room in the backlog the kernel gives up.
ConnectTimesOut(c) ==
  /\ stage[c] = "connecting" /\ (options[c].connect_timeout = "some" \/ ~Room)
  /\ Refuse(c, "dropped", "TimedOut")
  /\ UNCHANGED <<made, local, request, thread, server, bound>>

\* Bug: the builder hands out a Client whose use_database has timed out.
BuildTimesOutIgnored(c) ==
  /\ stage[c] = "building" /\ options[c].read_timeout = "some"
  /\ stage' = [stage EXCEPT ![c] = "idle"]
  /\ ended' = [ended EXCEPT ![c] = [result |-> "TimedOut", reply |-> NoReply]]
  /\ call' = [call EXCEPT ![c] = NoCall]
  /\ reply' = [reply EXCEPT ![c] = NoReply]
  /\ UNCHANGED <<made, local, database, request, thread, server, bound>>

\* The builder's read timeout covers its use_database.
BuildTimesOut(c) ==
  /\ stage[c] = "building" /\ options[c].read_timeout = "some"
  /\ stage' = [stage EXCEPT ![c] = "dropped"]
  /\ ended' = [ended EXCEPT ![c] = [result |-> "TimedOut", reply |-> NoReply]]
  /\ call' = [call EXCEPT ![c] = NoCall]
  /\ reply' = [reply EXCEPT ![c] = NoReply]
  /\ UNCHANGED <<made, local, database, request, thread, server, bound>>

-----------------------------------------------------------------------------
(* The methods of a Client.                                                *)

Call(c, op, arg) ==
  /\ stage[c] = "idle" /\ made < MaxCalls
  /\ made' = made + 1
  /\ IF op \in NameMethods /\ Trim[arg] = Blank
     THEN Refuse(c, "idle", "InvalidArgument") /\ UNCHANGED request
     ELSE Start(c, "calling", op, arg)
  /\ UNCHANGED <<options, address, thread, server, bound>>

\* Bug: a shutdown is over once it is acknowledged.
AnswerUnwoken(c) ==
  /\ stage[c] \in Busy /\ reply[c] # NoReply
  /\ Return(c, Result(call[c].op, reply[c].resp))
  /\ UNCHANGED <<made, request, thread, server, bound>>

\* The answer is read.  An accepted shutdown has yet to wake the accept loop.
Answer(c) ==
  /\ stage[c] \in Busy /\ reply[c] # NoReply
  /\ LET result == Result(call[c].op, reply[c].resp)
     IN IF call[c].op = "shutdown_server" /\ result = "Ok"
        THEN /\ stage' = [stage EXCEPT ![c] = "waking"]
             /\ UNCHANGED <<local, call, database, ended, reply>>
        ELSE Return(c, result)
  /\ UNCHANGED <<made, request, thread, server, bound>>

\* The end of the stream, or an error of a socket the server has left.
Lost(c) ==
  /\ stage[c] \in Busy /\ reply[c] = NoReply /\ thread[c] = "gone"
  /\ \E err \in {"ConnectionClosed", "BrokenPipe"} : Return(c, err)
  /\ UNCHANGED <<made, request, thread, server, bound>>

\* The throwaway connection, which waits for room in the backlog like any other.
WakeUp(c) ==
  /\ stage[c] = "waking" /\ Room
  /\ backlog' = Append(backlog, Throwaway)
  /\ Return(c, "Ok")
  /\ UNCHANGED <<made, request, thread, listener, stopping, databases, bound, overruled>>

\* Bug: the throwaway connection is tried again until it succeeds.
WakeFailsRetried(c) ==
  /\ stage[c] = "waking" /\ ~Room
  /\ UNCHANGED vars

\* It fails, and nobody is told: the accept loop has stopped, or the kernel
\* gives up with the backlog still full.
WakeFails(c) ==
  /\ stage[c] = "waking" /\ ~Room
  /\ Return(c, "Ok")
  /\ UNCHANGED <<made, request, thread, server, bound>>

\* The caller drops its Client between two calls.
Drop(c) ==
  /\ stage[c] = "idle"
  /\ stage' = [stage EXCEPT ![c] = "dropped"]
  /\ UNCHANGED <<made, local, call, database, ended, request, reply, thread, server, bound>>

-----------------------------------------------------------------------------
(* The server, external: an accept loop, and a thread per connection.      *)

\* Connections the server leaves, each with its session; of the answers that
\* are under way a reset may take some back.
Leave(ending) ==
  /\ bound' = [c \in Clients |-> IF c \in ending THEN NoDatabase ELSE bound[c]]
  /\ request' = [c \in Clients |-> IF c \in ending THEN NoCall ELSE request[c]]
  /\ \E taken \in SUBSET {c \in ending : stage[c] \in Busy} :
       reply' = [c \in Clients |-> IF c \in taken THEN NoReply ELSE reply[c]]
  /\ UNCHANGED <<made, stage, local, call, database, ended, stopping, databases, overruled>>

Queued == {c \in Clients : thread[c] = "queued"}

\* The loop takes a connection, and only then looks at the flag.  When it ends,
\* the connections that still wait are reset.
Accept ==
  /\ listener = "accepting" /\ backlog # <<>>
  /\ IF stopping
     THEN /\ listener' = "stopped" /\ backlog' = <<>>
          /\ thread' = [c \in Clients |-> IF c \in Queued THEN "gone" ELSE thread[c]]
          /\ Leave(Queued)
     ELSE /\ backlog' = Tail(backlog)
          /\ thread' = [c \in Clients |-> IF c = Head(backlog) THEN "serving" ELSE thread[c]]
          /\ UNCHANGED <<made, stage, local, call, database, ended, request, reply,
                         listener, stopping, databases, bound, overruled>>

DatabasesAfter(o, resp) ==
  IF Check(resp) # "Ok" THEN databases
  ELSE CASE o.op = "create_database" -> databases \cup {Trim[o.arg]}
         [] o.op = "reset_server"    -> {}
         [] OTHER                    -> databases

\* "Delete all databases and state on the server": a reset clears every session.
BoundAfter(c, o, resp) ==
  IF Check(resp) # "Ok" THEN bound
  ELSE CASE o.op = "use_database" -> [bound EXCEPT ![c] = Trim[o.arg]]
         [] o.op = "reset_server" -> [d \in Clients |-> NoDatabase]
         [] OTHER                 -> bound

OverruledAfter(c, o, resp) ==
  IF Check(resp) # "Ok" THEN overruled
  ELSE CASE o.op = "use_database" -> overruled \ {c}
         [] o.op = "reset_server" ->
              (overruled \cup {d \in Clients : bound[d] # NoDatabase}) \ {c}
         [] OTHER                 -> overruled

\* A thread carries out a request and answers; to a Client that has given up
\* it answers in vain.
Serve(c) ==
  /\ thread[c] = "serving" /\ request[c] # NoCall
  /\ \E resp \in Replies(request[c].op, bound[c] # NoDatabase) \cap Spoken :
       /\ reply' = [reply EXCEPT ![c] =
                      IF stage[c] \notin Busy THEN NoReply
                      ELSE [resp |-> resp,
                            list |-> IF request[c].op = "databases" /\ Check(resp) = "Ok"
                                     THEN databases ELSE {}]]
       /\ databases' = DatabasesAfter(request[c], resp)
       /\ bound' = BoundAfter(c, request[c], resp)
       /\ overruled' = OverruledAfter(c, request[c], resp)
       /\ stopping' = (stopping \/ (request[c].op = "shutdown_server"
                                    /\ resp \in Acknowledgements("shutdown_server")))
  /\ request' = [request EXCEPT ![c] = NoCall]
  /\ UNCHANGED <<made, stage, local, call, database, ended, thread, backlog, listener>>

\* A thread reads the end of a stream whose Client has been dropped.
SessionEnds(c) ==
  /\ thread[c] = "serving" /\ stage[c] = "dropped" /\ request[c] = NoCall
  /\ thread' = [thread EXCEPT ![c] = "gone"]
  /\ Leave({c})
  /\ UNCHANGED <<backlog, listener>>

\* A thread panics.
HangUp(c) ==
  /\ Hangups /\ thread[c] = "serving"
  /\ thread' = [thread EXCEPT ![c] = "gone"]
  /\ Leave({c})
  /\ UNCHANGED <<backlog, listener>>

-----------------------------------------------------------------------------
\* What the thread that uses c does next by itself.
ClientStep(c) ==
  \/ Establish(c) \/ ConnectRefused(c) \/ ConnectTimesOut(c) \/ BuildTimesOut(c)
  \/ Answer(c) \/ Lost(c) \/ WakeUp(c) \/ WakeFails(c)

Next ==
  \/ \E c \in Clients :
       \/ Connect(c) \/ Establish(c) \/ ConnectRefused(c) \/ ConnectTimesOut(c)
       \/ BuildTimesOut(c)
       \/ \E op \in Offered : \E arg \in Args(op) : Call(c, op, arg)
       \/ Answer(c) \/ Lost(c) \/ WakeUp(c) \/ WakeFails(c) \/ Drop(c)
       \/ Serve(c) \/ SessionEnds(c) \/ HangUp(c)
  \/ Accept

\* Blocked system calls return when they can; the accept loop takes what is in
\* its backlog, and each thread reads what has arrived.
Fairness ==
  /\ \A c \in Clients : WF_vars(ClientStep(c)) /\ WF_vars(Serve(c)) /\ WF_vars(SessionEnds(c))
  /\ WF_vars(Accept)

Spec == Init /\ [][Next]_vars
FairSpec == Spec /\ Fairness

-----------------------------------------------------------------------------
(* Properties.                                                             *)

Stages == {"new", "connecting", "building", "idle", "calling", "waking", "dropped"}

Calls == [op : Methods \cup {"none"}, arg : RawNames \cup {NoArg}]

Answers == [resp : Responses \cup {"none"}, list : SUBSET Databases]

\* A database is named by an argument that names one.
Suits(o) == o.op \in NameMethods => o.arg \in RawNames /\ Trim[o.arg] \in Databases

\* Every variable has its type; what is sent names a database if it names any.
TypeOK ==
  /\ stage \in [Clients -> Stages]
  /\ options \in [Clients -> Options \cup {NoOptions}]
  /\ address \in [Clients -> {NoAddress} \cup {Head(r) : r \in Resolutions \ {<<>>}}]
  /\ call \in [Clients -> Calls] /\ \A c \in Clients : Suits(call[c])
  /\ request \in [Clients -> Calls] /\ \A c \in Clients : Suits(request[c])
  /\ database \in [Clients -> Databases \cup {NoDatabase}]
  /\ ended \in [Clients -> [result : Results \cup {"none", "Refused", "InvalidInput"},
                            reply : Answers]]
  /\ made \in Nat
  /\ reply \in [Clients -> Answers]
  /\ thread \in [Clients -> Threads]
  /\ backlog \in Seq(Clients \cup {Throwaway})
  /\ listener \in {"accepting", "stopped"} /\ stopping \in BOOLEAN
  /\ databases \in SUBSET Databases
  /\ bound \in [Clients -> Databases \cup {NoDatabase}]
  /\ overruled \in SUBSET Clients

Live == {"queued", "serving"}

\* Between two calls, Client.database is what the server has bound to this
\* Client's session, whatever other Clients have done meanwhile, with a single
\* exception: another Client has reset the server since (Client::reset_server,
\* Client::use_database, Client::database).
DatabaseKnown ==
  \A c \in Clients :
    stage[c] = "idle" /\ thread[c] \in Live /\ c \notin overruled
      => database[c] = bound[c]

-----------------------------------------------------------------------------
(* What makes this inductive.                                              *)

\* The request of the call, or its answer, or neither and the server gone.
UnderWay(c) ==
  \/ request[c] = call[c] /\ reply[c] = NoReply /\ thread[c] \in Live
  \/ request[c] = NoCall /\ reply[c] # NoReply
  \/ request[c] = NoCall /\ reply[c] = NoReply /\ thread[c] = "gone"

\* What a Client and its connection hold at each stage.
StepOf(c) ==
  /\ stage[c] \in Busy => call[c] # NoCall /\ thread[c] # "none" /\ UnderWay(c)
  /\ stage[c] = "building" => call[c].op = "use_database"
  /\ stage[c] = "waking" => /\ call[c].op = "shutdown_server" /\ request[c] = NoCall
                            /\ reply[c] # NoReply
                            /\ Result("shutdown_server", reply[c].resp) = "Ok"
  /\ stage[c] \notin Busy \cup {"waking"} => call[c] = NoCall /\ reply[c] = NoReply
  /\ stage[c] = "idle" => request[c] = NoCall
  /\ stage[c] \in {"new", "connecting"} => thread[c] = "none" /\ database[c] = NoDatabase
  /\ stage[c] \in {"idle", "waking"} => thread[c] # "none"
  /\ thread[c] \in {"none", "gone"} => request[c] = NoCall
  /\ thread[c] # "serving" => bound[c] = NoDatabase

InStep == \A c \in Clients : StepOf(c)

\* The backlog holds the connections that wait for a thread, each once.
InQueue ==
  /\ \A i \in 1 .. Len(backlog) : backlog[i] # Throwaway => thread[backlog[i]] = "queued"
  /\ \A i, j \in 1 .. Len(backlog) :
       i # j /\ backlog[i] = backlog[j] => backlog[i] = Throwaway

\* An answer says what is missing between the Client's database and the bound one.
TracksOf(c) ==
  thread[c] \in Live /\ c \notin overruled /\ stage[c] # "dropped" =>
    bound[c] = IF reply[c] = NoReply THEN database[c]
               ELSE DatabaseAfter(call[c], Result(call[c].op, reply[c].resp), database[c])

Tracks == \A c \in Clients : TracksOf(c)

\* A Client's connection carries its own current call and nothing else, unless
\* its builder has given that call up; the backlog and the threads agree on who
\* waits; and a Client's database is ahead of or behind the server's by exactly
\* the answer under way (Client::round_trip, ClientBuilder::connect).
Consistent == InStep /\ InQueue /\ Tracks

-----------------------------------------------------------------------------
\* Every call and every connect returns, whatever the other Clients do and
\* even when the backlog is full or the accept loop has stopped meanwhile.
CallsReturn ==
  \A c \in Clients :
    stage[c] \in Busy \cup {"connecting", "waking"} ~> stage[c] \in {"idle", "dropped"}

\* A shutdown the server has accepted stops its accept loop, also when several
\* Clients ask for it at once or fill the backlog, unless the Client that asked
\* has lost the answer (Client::shutdown_server).
ShutdownStops ==
  stopping ~> \/ listener = "stopped"
              \/ \E c \in Clients : /\ stage[c] = "dropped"
                                    /\ ended[c].result \in {"ConnectionClosed", "BrokenPipe"}

\* A Client that has been closed, has asked for a shutdown or could not be built
\* leaves no session behind, however its last call ended (Client::close,
\* ClientBuilder::connect).
SessionReleased ==
  \A c \in Clients :
    stage[c] = "dropped" \/ call[c].op \in Consuming ~> thread[c] \notin Live
=============================================================================
