--------------------------- MODULE SessionsProofs ---------------------------
(* Proofs about several Clients of one server, for any number of Clients,  *)
(* any backlog and any number of calls.                                    *)
EXTENDS SessionsService, TLAPS

-----------------------------------------------------------------------------
(* Type correctness.                                                       *)

\* What a call can return is a Result (client.rs check, expect_message).
LEMMA ResultType ==
  ASSUME NEW op \in Methods \cup {"none"}, NEW resp \in Responses \cup {"none"}
  PROVE  Result(op, resp) \in Results
  BY DEF Result, Checked, Check, Accepted, Results, Errors

\* What the server answers is a response.
LEMMA ReplyType ==
  ASSUME NEW op, NEW connected \in BOOLEAN
  PROVE  Replies(op, connected) \subseteq Responses
  BY DEF Replies, Acknowledgements, Refusals, Responses, Messages, Counts

LEMMA DatabaseAfterType ==
  ASSUME NEW o \in Calls, Suits(o), NEW result,
         NEW name \in Databases \cup {NoDatabase}
  PROVE  DatabaseAfter(o, result, name) \in Databases \cup {NoDatabase}
  BY DEF DatabaseAfter, Suits, NameMethods

LEMMA NoneType ==
  /\ NoCall \in Calls /\ Suits(NoCall)
  /\ NoReply \in Answers
  /\ NoOptions \in Options \cup {NoOptions}
  /\ NotYet \in [result : Results \cup {"none", "Refused", "InvalidInput"},
                 reply : Answers]
  BY DEF NoCall, NoReply, NotYet, Calls, Answers, Suits, NameMethods

LEMMA TypeInit == Init => TypeOK
  <1> SUFFICES ASSUME Init PROVE TypeOK
    OBVIOUS
  <1>1. /\ stage \in [Clients -> Stages] /\ thread \in [Clients -> Threads]
        /\ made \in Nat /\ overruled \in SUBSET Clients
        /\ listener \in {"accepting", "stopped"} /\ stopping \in BOOLEAN
    BY DEF Init, Stages, Threads
  <1>2. /\ address \in [Clients -> {NoAddress} \cup {Head(r) : r \in Resolutions \ {<<>>}}]
        /\ options \in [Clients -> Options \cup {NoOptions}]
    BY DEF Init
  <1>3. /\ call \in [Clients -> Calls] /\ \A c \in Clients : Suits(call[c])
        /\ request \in [Clients -> Calls] /\ \A c \in Clients : Suits(request[c])
    BY NoneType DEF Init
  <1>4. /\ ended \in [Clients -> [result : Results \cup {"none", "Refused", "InvalidInput"},
                                  reply : Answers]]
        /\ reply \in [Clients -> Answers]
    BY NoneType DEF Init
  <1>5. /\ database \in [Clients -> Databases \cup {NoDatabase}]
        /\ bound \in [Clients -> Databases \cup {NoDatabase}]
        /\ databases \in SUBSET Databases
        /\ backlog \in Seq(Clients \cup {Throwaway})
    BY DEF Init
  <1> QED
    BY <1>1, <1>2, <1>3, <1>4, <1>5 DEF TypeOK

\* The variables of the Client that a call's end may change stay well typed.
LEMMA ReturnType ==
  ASSUME TypeOK, NEW c \in Clients, NEW result \in Results, Return(c, result)
  PROVE  /\ stage' \in [Clients -> Stages]
         /\ call' \in [Clients -> Calls] /\ \A d \in Clients : Suits(call'[d])
         /\ database' \in [Clients -> Databases \cup {NoDatabase}]
         /\ ended' \in [Clients -> [result : Results \cup {"none", "Refused", "InvalidInput"},
                                    reply : Answers]]
         /\ reply' \in [Clients -> Answers]
         /\ UNCHANGED local
  <1>1. stage' \in [Clients -> Stages]
    BY DEF TypeOK, Return, Stages
  <1>2. call' \in [Clients -> Calls] /\ \A d \in Clients : Suits(call'[d])
    BY NoneType DEF TypeOK, Return
  <1>3. database' \in [Clients -> Databases \cup {NoDatabase}]
    BY DatabaseAfterType DEF TypeOK, Return
  <1>4. /\ ended' \in [Clients -> [result : Results \cup {"none", "Refused", "InvalidInput"},
                                   reply : Answers]]
        /\ reply' \in [Clients -> Answers]
    BY NoneType DEF TypeOK, Return
  <1> QED
    BY <1>1, <1>2, <1>3, <1>4 DEF Return

\* A step that only returns keeps every type.
LEMMA ReturnStepType ==
  ASSUME TypeOK, NEW c \in Clients, NEW result \in Results, Return(c, result),
         UNCHANGED <<made, request, thread, bound, listener, stopping, databases, overruled>>,
         backlog' \in Seq(Clients \cup {Throwaway})
  PROVE  TypeOK'
  BY ReturnType DEF TypeOK, local

LEMMA RefuseType ==
  ASSUME TypeOK, NEW c \in Clients, NEW next \in {"dropped", "idle"},
         NEW err \in {"InvalidArgument", "InvalidInput", "Refused", "TimedOut"},
         Refuse(c, next, err)
  PROVE  /\ stage' \in [Clients -> Stages]
         /\ ended' \in [Clients -> [result : Results \cup {"none", "Refused", "InvalidInput"},
                                    reply : Answers]]
         /\ UNCHANGED <<call, database, reply>>
  BY NoneType DEF TypeOK, Refuse, Stages, Results, Errors

\* A request that is written names a database if it names any.
LEMMA StartType ==
  ASSUME TypeOK, NEW c \in Clients, NEW next \in Busy, NEW op \in Methods,
         NEW arg \in Args(op), op \in NameMethods => Trim[arg] # Blank,
         Start(c, next, op, arg)
  PROVE  /\ stage' \in [Clients -> Stages]
         /\ call' \in [Clients -> Calls] /\ \A d \in Clients : Suits(call'[d])
         /\ request' \in [Clients -> Calls] /\ \A d \in Clients : Suits(request'[d])
         /\ UNCHANGED <<database, ended, reply>>
  <1>1. [op |-> op, arg |-> arg] \in Calls /\ Suits([op |-> op, arg |-> arg])
    BY SessionsAssumption DEF Calls, Suits, Args
  <1>2. stage' \in [Clients -> Stages]
    BY DEF TypeOK, Start, Busy, Stages
  <1> QED
    BY <1>1, <1>2, NoneType DEF TypeOK, Start

LEMMA LeaveType ==
  ASSUME TypeOK, NEW ending \in SUBSET Clients, Leave(ending),
         thread' \in [Clients -> Threads], backlog' \in Seq(Clients \cup {Throwaway}),
         listener' \in {"accepting", "stopped"}
  PROVE  TypeOK'
  <1>1. bound' \in [Clients -> Databases \cup {NoDatabase}]
    BY DEF TypeOK, Leave
  <1>2. request' \in [Clients -> Calls] /\ \A c \in Clients : Suits(request'[c])
    BY NoneType DEF TypeOK, Leave
  <1>3. reply' \in [Clients -> Answers]
    BY NoneType DEF TypeOK, Leave
  <1> QED
    BY <1>1, <1>2, <1>3 DEF TypeOK, Leave, local

LEMMA ConnectType == ASSUME TypeOK, NEW c \in Clients, Connect(c) PROVE TypeOK'
  <1> PICK chosen \in Options, addresses \in Resolutions :
        IF addresses = <<>> THEN Refuse(c, "dropped", "InvalidArgument") /\ UNCHANGED local
        ELSE IF chosen.connect_timeout = "zero"
        THEN Refuse(c, "dropped", "InvalidInput") /\ UNCHANGED local
        ELSE /\ stage' = [stage EXCEPT ![c] = "connecting"]
             /\ options' = [options EXCEPT ![c] = chosen]
             /\ address' = [address EXCEPT ![c] = Head(addresses)]
             /\ UNCHANGED <<call, database, ended, reply>>
    BY DEF Connect
  <1>0. UNCHANGED <<made, request, thread, server, bound>>
    BY DEF Connect
  <1>1. CASE \E err \in {"InvalidArgument", "InvalidInput"} :
                Refuse(c, "dropped", err) /\ UNCHANGED local
    BY <1>0, <1>1, RefuseType DEF TypeOK, local, server
  <1>2. CASE /\ addresses # <<>>
             /\ stage' = [stage EXCEPT ![c] = "connecting"]
             /\ options' = [options EXCEPT ![c] = chosen]
             /\ address' = [address EXCEPT ![c] = Head(addresses)]
             /\ UNCHANGED <<call, database, ended, reply>>
    <2>1. stage' \in [Clients -> Stages] /\ options' \in [Clients -> Options \cup {NoOptions}]
      BY <1>2 DEF TypeOK, Stages
    <2>2. address' \in [Clients -> {NoAddress} \cup {Head(r) : r \in Resolutions \ {<<>>}}]
      <3>1. Head(addresses) \in {Head(r) : r \in Resolutions \ {<<>>}}
        BY <1>2
      <3> QED
        BY <1>2, <3>1 DEF TypeOK
    <2> QED
      BY <1>0, <1>2, <2>1, <2>2 DEF TypeOK, server
  <1> QED
    BY <1>1, <1>2

LEMMA EstablishType == ASSUME TypeOK, NEW c \in Clients, Establish(c) PROVE TypeOK'
  <1>1. /\ backlog' \in Seq(Clients \cup {Throwaway})
        /\ thread' \in [Clients -> Threads]
    BY DEF TypeOK, Establish, Threads
  <1>2. UNCHANGED <<made, options, address, listener, stopping, databases, bound, overruled>>
    BY DEF Establish
  <1>3. CASE \E err \in {"InvalidArgument", "InvalidInput"} :
                Refuse(c, "dropped", err) /\ UNCHANGED request
    BY <1>1, <1>2, <1>3, RefuseType DEF TypeOK
  <1>4. CASE /\ stage' = [stage EXCEPT ![c] = "idle"]
             /\ UNCHANGED <<call, database, ended, request, reply>>
    <2>1. stage' \in [Clients -> Stages]
      BY <1>4 DEF TypeOK, Stages
    <2> QED
      BY <1>1, <1>2, <1>4, <2>1 DEF TypeOK
  <1>5. CASE /\ options[c].database # NoDatabase
             /\ Trim[options[c].database] # Blank
             /\ Start(c, "building", "use_database", options[c].database)
    <2>1. options[c].database \in Args("use_database")
      BY <1>5, SessionsAssumption DEF TypeOK, Args, NameMethods, NoOptions
    <2>2. "building" \in Busy /\ "use_database" \in Methods
      BY DEF Busy, Methods, SystemMethods
    <2> QED
      BY <1>1, <1>2, <1>5, <2>1, <2>2, StartType DEF TypeOK
  <1> QED
    BY <1>3, <1>4, <1>5 DEF Establish

LEMMA CallType ==
  ASSUME TypeOK, NEW c \in Clients, NEW op \in Offered, NEW arg \in Args(op), Call(c, op, arg)
  PROVE  TypeOK'
  <1>1. made' \in Nat /\ UNCHANGED <<options, address, thread, server, bound>>
    BY DEF Call, TypeOK
  <1>2. CASE Refuse(c, "idle", "InvalidArgument") /\ UNCHANGED request
    BY <1>1, <1>2, RefuseType DEF TypeOK, server
  <1>3. CASE (op \in NameMethods => Trim[arg] # Blank) /\ Start(c, "calling", op, arg)
    <2>1. op \in Methods /\ "calling" \in Busy
      BY SessionsAssumption DEF Busy
    <2> QED
      BY <1>1, <1>3, <2>1, StartType DEF TypeOK, server
  <1> QED
    BY <1>2, <1>3 DEF Call

LEMMA AnswerType == ASSUME TypeOK, NEW c \in Clients, Answer(c) PROVE TypeOK'
  <1>1. Result(call[c].op, reply[c].resp) \in Results
    BY ResultType DEF TypeOK, Calls, Answers
  <1>2. CASE Return(c, Result(call[c].op, reply[c].resp))
    BY <1>1, <1>2, ReturnStepType DEF Answer, TypeOK, server
  <1>3. CASE /\ stage' = [stage EXCEPT ![c] = "waking"]
             /\ UNCHANGED <<local, call, database, ended, reply>>
    <2>1. stage' \in [Clients -> Stages]
      BY <1>3 DEF TypeOK, Stages
    <2> QED
      BY <1>3, <2>1 DEF Answer, TypeOK, local, server
  <1> QED
    BY <1>2, <1>3 DEF Answer

LEMMA ServeType == ASSUME TypeOK, NEW c \in Clients, Serve(c) PROVE TypeOK'
  <1>1. PICK resp \in Replies(request[c].op, bound[c] # NoDatabase) \cap Spoken :
          /\ reply' = [reply EXCEPT ![c] =
                         IF stage[c] \notin Busy THEN NoReply
                         ELSE [resp |-> resp,
                               list |-> IF request[c].op = "databases" /\ Check(resp) = "Ok"
                                        THEN databases ELSE {}]]
          /\ databases' = DatabasesAfter(request[c], resp)
          /\ bound' = BoundAfter(c, request[c], resp)
          /\ overruled' = OverruledAfter(c, request[c], resp)
          /\ stopping' = (stopping \/ (request[c].op = "shutdown_server"
                                       /\ resp \in Acknowledgements("shutdown_server")))
    BY DEF Serve
  <1>2. resp \in Responses
    BY ReplyType
  <1>3. request[c] \in Calls /\ Suits(request[c])
    BY DEF TypeOK
  <1>4. reply' \in [Clients -> Answers]
    BY <1>1, <1>2, NoneType DEF TypeOK, Answers
  <1>5. databases' \in SUBSET Databases
    BY <1>1, <1>3 DEF TypeOK, DatabasesAfter, Suits, NameMethods
  <1>6. bound' \in [Clients -> Databases \cup {NoDatabase}]
    BY <1>1, <1>3 DEF TypeOK, BoundAfter, Suits, NameMethods
  <1>7. overruled' \in SUBSET Clients
    BY <1>1 DEF TypeOK, OverruledAfter
  <1>8. request' \in [Clients -> Calls] /\ \A d \in Clients : Suits(request'[d])
    BY NoneType DEF TypeOK, Serve
  <1>9. stopping' \in BOOLEAN
    BY <1>1 DEF TypeOK
  <1> QED
    BY <1>4, <1>5, <1>6, <1>7, <1>8, <1>9 DEF Serve, TypeOK, local

LEMMA AcceptType == ASSUME TypeOK, Accept PROVE TypeOK'
  <1>1. CASE stopping
    <2>1. /\ thread' \in [Clients -> Threads] /\ backlog' \in Seq(Clients \cup {Throwaway})
          /\ listener' \in {"accepting", "stopped"}
      BY <1>1 DEF Accept, TypeOK, Threads
    <2> QED
      BY <1>1, <2>1, LeaveType DEF Accept, Queued
  <1>2. CASE ~stopping
    <2>1. backlog \in Seq(Clients \cup {Throwaway}) /\ backlog # <<>>
      BY DEF Accept, TypeOK
    <2>2. Tail(backlog) \in Seq(Clients \cup {Throwaway})
      BY <2>1
    <2>3. thread' \in [Clients -> Threads]
      BY <1>2 DEF Accept, TypeOK, Threads
    <2> QED
      BY <1>2, <2>2, <2>3 DEF Accept, TypeOK, local
  <1> QED
    BY <1>1, <1>2

LEMMA TypeNext == TypeOK /\ [Next]_vars => TypeOK'
  <1> SUFFICES ASSUME TypeOK, [Next]_vars PROVE TypeOK'
    OBVIOUS
  <1>1. ASSUME NEW c \in Clients, ConnectRefused(c) \/ ConnectTimesOut(c) PROVE TypeOK'
    BY <1>1, RefuseType DEF TypeOK, ConnectRefused, ConnectTimesOut, local, server
  <1>2. ASSUME NEW c \in Clients, BuildTimesOut(c) PROVE TypeOK'
    <2>1. stage' \in [Clients -> Stages]
      BY <1>2 DEF TypeOK, BuildTimesOut, Stages
    <2>2. /\ ended' \in [Clients -> [result : Results \cup {"none", "Refused", "InvalidInput"},
                                     reply : Answers]]
          /\ reply' \in [Clients -> Answers]
      BY <1>2, NoneType DEF TypeOK, BuildTimesOut, Results, Errors
    <2>3. call' \in [Clients -> Calls] /\ \A d \in Clients : Suits(call'[d])
      BY <1>2, NoneType DEF TypeOK, BuildTimesOut
    <2> QED
      BY <1>2, <2>1, <2>2, <2>3 DEF TypeOK, BuildTimesOut, local, server
  <1>3. ASSUME NEW c \in Clients, Lost(c) \/ WakeUp(c) \/ WakeFails(c) PROVE TypeOK'
    <2>1. {"Ok", "ConnectionClosed", "BrokenPipe"} \subseteq Results
      BY DEF Results, Errors
    <2>2. PICK result \in Results : Return(c, result)
      BY <1>3, <2>1 DEF Lost, WakeUp, WakeFails
    <2>3. UNCHANGED <<made, request, thread, bound, listener, stopping, databases, overruled>>
      BY <1>3 DEF Lost, WakeUp, WakeFails, server
    <2>4. backlog' \in Seq(Clients \cup {Throwaway})
      BY <1>3 DEF TypeOK, Lost, WakeUp, WakeFails, server
    <2> QED
      BY <2>2, <2>3, <2>4, ReturnStepType
  <1>4. ASSUME NEW c \in Clients, Drop(c) PROVE TypeOK'
    <2>1. stage' \in [Clients -> Stages]
      BY <1>4 DEF TypeOK, Drop, Stages
    <2> QED
      BY <1>4, <2>1 DEF TypeOK, Drop, local, server
  <1>5. ASSUME NEW c \in Clients, SessionEnds(c) \/ HangUp(c) PROVE TypeOK'
    <2>1. thread' \in [Clients -> Threads] /\ UNCHANGED <<backlog, listener>>
      BY <1>5 DEF TypeOK, SessionEnds, HangUp, Threads
    <2> QED
      BY <1>5, <2>1, LeaveType DEF TypeOK, SessionEnds, HangUp
  <1>6. CASE UNCHANGED vars
    BY <1>6 DEF TypeOK, vars, local, server
  <1> QED
    BY <1>1, <1>2, <1>3, <1>4, <1>5, <1>6, ConnectType, EstablishType, CallType,
       AnswerType, ServeType, AcceptType DEF Next

\* Every variable keeps its type, and every request names a database if it names
\* any, for any number of Clients and of calls (require_name).
THEOREM TypeCorrect == Spec => []TypeOK
  BY TypeInit, TypeNext, PTL DEF Spec

-----------------------------------------------------------------------------
(* A connection carries its Client's current call and nothing else.        *)

LEMMA StepInit == Init => InStep
  BY DEF Init, InStep, StepOf, Busy

\* InStep speaks of each Client by itself; a step of one leaves the others be.
LEMMA StepOther ==
  ASSUME NEW d \in Clients, StepOf(d),
         stage'[d] = stage[d], call'[d] = call[d], request'[d] = request[d],
         reply'[d] = reply[d], thread'[d] = thread[d], database'[d] = database[d],
         bound'[d] \in {bound[d], NoDatabase}
  PROVE  StepOf(d)'
  BY DEF StepOf, UnderWay

LEMMA ReturnStep ==
  ASSUME TypeOK, InStep, NEW c \in Clients, NEW result, Return(c, result),
         stage[c] \in Busy \cup {"waking"}, request[c] = NoCall,
         UNCHANGED <<request, thread, bound>>
  PROVE  InStep'
  <1> SUFFICES ASSUME NEW d \in Clients PROVE StepOf(d)'
    BY DEF InStep
  <1>1. CASE d # c
    BY <1>1, StepOther DEF InStep, Return, TypeOK
  <1>2. CASE d = c
    BY <1>2 DEF InStep, StepOf, Return, TypeOK, Busy
  <1> QED
    BY <1>1, <1>2

LEMMA RefuseStep ==
  ASSUME TypeOK, InStep, NEW c \in Clients, NEW next \in {"dropped", "idle"}, NEW err,
         Refuse(c, next, err),
         stage[c] \in {"new", "connecting", "idle"}, next = "idle" => stage[c] = "idle",
         UNCHANGED <<request, bound>>,
         \/ UNCHANGED thread
         \/ next = "dropped" /\ thread[c] = "none" /\ thread' = [thread EXCEPT ![c] = "queued"]
  PROVE  InStep'
  <1> SUFFICES ASSUME NEW d \in Clients PROVE StepOf(d)'
    BY DEF InStep
  <1>1. CASE d # c
    BY <1>1, StepOther DEF InStep, Refuse, TypeOK
  <1>2. CASE d = c
    BY <1>2 DEF InStep, StepOf, Refuse, TypeOK, Busy
  <1> QED
    BY <1>1, <1>2

LEMMA StartStep ==
  ASSUME TypeOK, InStep, NEW c \in Clients, NEW next \in Busy, NEW op \in Methods, NEW arg,
         Start(c, next, op, arg), next = "building" => op = "use_database",
         UNCHANGED bound, stage[c] \in {"connecting", "idle"},
         \/ UNCHANGED thread /\ thread[c] # "none"
         \/ thread[c] = "none" /\ thread' = [thread EXCEPT ![c] = "queued"]
  PROVE  InStep'
  <1> SUFFICES ASSUME NEW d \in Clients PROVE StepOf(d)'
    BY DEF InStep
  <1>1. CASE d # c
    BY <1>1, StepOther DEF InStep, Start, TypeOK
  <1>2. CASE d = c
    <2>1. [op |-> op, arg |-> arg] # NoCall
      BY DEF NoCall, Methods, SystemMethods, DbMethods
    <2> QED
      BY <1>2, <2>1 DEF InStep, StepOf, UnderWay, Start, TypeOK, Busy, Live, Threads
  <1> QED
    BY <1>1, <1>2

\* The connections the server leaves take their requests with them.
LEMMA LeaveStep ==
  ASSUME TypeOK, InStep, NEW ending \in SUBSET Clients, Leave(ending),
         \A d \in ending : thread[d] # "none" /\ thread'[d] = "gone",
         \A d \in Clients \ ending : thread'[d] = thread[d]
  PROVE  InStep'
  <1> SUFFICES ASSUME NEW d \in Clients PROVE StepOf(d)'
    BY DEF InStep
  <1>1. CASE d \notin ending
    BY <1>1, StepOther DEF InStep, Leave, TypeOK
  <1>2. CASE d \in ending
    BY <1>2 DEF InStep, StepOf, UnderWay, Leave, TypeOK, Busy
  <1> QED
    BY <1>1, <1>2

LEMMA ConnectStep ==
  ASSUME TypeOK, InStep, NEW c \in Clients, Connect(c) PROVE InStep'
  <1>1. CASE \E err \in {"InvalidArgument", "InvalidInput"} : Refuse(c, "dropped", err)
    BY <1>1, RefuseStep DEF Connect, server
  <1>2. CASE stage' = [stage EXCEPT ![c] = "connecting"]
             /\ UNCHANGED <<call, database, ended, reply>>
    BY <1>2 DEF Connect, InStep, StepOf, UnderWay, TypeOK, Busy
  <1> QED
    BY <1>1, <1>2 DEF Connect

LEMMA EstablishStep ==
  ASSUME TypeOK, InStep, NEW c \in Clients, Establish(c) PROVE InStep'
  <1>1. stage[c] = "connecting" /\ thread[c] = "none" /\ UNCHANGED bound
        /\ thread' = [thread EXCEPT ![c] = "queued"]
    BY DEF Establish, InStep, StepOf
  <1>2. CASE \E err \in {"InvalidArgument", "InvalidInput"} :
                Refuse(c, "dropped", err) /\ UNCHANGED request
    BY <1>1, <1>2, RefuseStep
  <1>3. CASE /\ stage' = [stage EXCEPT ![c] = "idle"]
             /\ UNCHANGED <<call, database, ended, request, reply>>
    BY <1>1, <1>3 DEF InStep, StepOf, UnderWay, TypeOK, Busy
  <1>4. CASE Start(c, "building", "use_database", options[c].database)
    <2>1. "building" \in Busy /\ "use_database" \in Methods
      BY DEF Busy, Methods, SystemMethods
    <2> QED
      BY <1>1, <1>4, <2>1, StartStep
  <1> QED
    BY <1>2, <1>3, <1>4 DEF Establish

LEMMA CallStep ==
  ASSUME TypeOK, InStep, NEW c \in Clients, NEW op \in Offered, NEW arg \in Args(op),
         Call(c, op, arg)
  PROVE  InStep'
  <1>1. stage[c] = "idle" /\ thread[c] # "none" /\ UNCHANGED <<bound, thread>>
    BY DEF Call, InStep, StepOf
  <1>2. CASE Refuse(c, "idle", "InvalidArgument") /\ UNCHANGED request
    BY <1>1, <1>2, RefuseStep
  <1>3. CASE Start(c, "calling", op, arg)
    <2>1. "calling" \in Busy /\ op \in Methods
      BY SessionsAssumption DEF Busy
    <2> QED
      BY <1>1, <1>3, <2>1, StartStep
  <1> QED
    BY <1>2, <1>3 DEF Call

LEMMA AnswerStep ==
  ASSUME TypeOK, InStep, NEW c \in Clients, Answer(c) PROVE InStep'
  <1>1. stage[c] \in Busy /\ reply[c] # NoReply /\ request[c] = NoCall
        /\ UNCHANGED <<request, thread, bound>>
    BY DEF Answer, InStep, StepOf, UnderWay
  <1>2. CASE Return(c, Result(call[c].op, reply[c].resp))
    BY <1>1, <1>2, ReturnStep
  <1>3. CASE /\ call[c].op = "shutdown_server" /\ Result(call[c].op, reply[c].resp) = "Ok"
             /\ stage' = [stage EXCEPT ![c] = "waking"]
             /\ UNCHANGED <<local, call, database, ended, reply>>
    BY <1>1, <1>3 DEF InStep, StepOf, UnderWay, TypeOK, Busy
  <1> QED
    BY <1>2, <1>3 DEF Answer

LEMMA ServeStep ==
  ASSUME TypeOK, InStep, NEW c \in Clients, Serve(c) PROVE InStep'
  <1> SUFFICES ASSUME NEW d \in Clients PROVE StepOf(d)'
    BY DEF InStep
  <1>1. PICK resp \in Replies(request[c].op, bound[c] # NoDatabase) \cap Spoken :
          /\ reply' = [reply EXCEPT ![c] =
                         IF stage[c] \notin Busy THEN NoReply
                         ELSE [resp |-> resp,
                               list |-> IF request[c].op = "databases" /\ Check(resp) = "Ok"
                                        THEN databases ELSE {}]]
          /\ bound' = BoundAfter(c, request[c], resp)
    BY DEF Serve
  <1>2. request' = [request EXCEPT ![c] = NoCall]
        /\ UNCHANGED <<stage, call, database, thread>>
        /\ thread[c] = "serving" /\ request[c] # NoCall
    BY DEF Serve
  <1>3. CASE d # c
    <2>1. bound'[d] \in {bound[d], NoDatabase}
      BY <1>1, <1>3 DEF BoundAfter, TypeOK
    <2> QED
      BY <1>1, <1>2, <1>3, <2>1, StepOther DEF InStep, TypeOK
  <1>4. CASE d = c
    <2>1. resp # "none"
      BY ReplyType DEF Responses, Messages, Counts
    <2>2. reply'[c] = NoReply <=> stage[c] \notin Busy
      BY <1>1, <2>1 DEF NoReply, TypeOK
    <2>3. request'[c] = NoCall
      BY <1>2 DEF TypeOK
    <2> QED
      BY <1>2, <1>4, <2>2, <2>3 DEF InStep, StepOf, UnderWay
  <1> QED
    BY <1>3, <1>4

LEMMA AcceptStep ==
  ASSUME TypeOK, InStep, InQueue, Accept PROVE InStep'
  <1>1. CASE stopping
    <2>1. /\ \A d \in Queued : thread[d] # "none" /\ thread'[d] = "gone"
          /\ \A d \in Clients \ Queued : thread'[d] = thread[d]
      BY <1>1 DEF Accept, Queued
    <2> QED
      BY <1>1, <2>1, LeaveStep DEF Accept, Queued
  <1>2. CASE ~stopping
    <2>1. backlog \in Seq(Clients \cup {Throwaway}) /\ backlog # <<>>
      BY DEF Accept, TypeOK
    <2>2. 1 \in 1 .. Len(backlog) /\ Head(backlog) = backlog[1]
      BY <2>1
    <2>3. \A d \in Clients : d = Head(backlog) => thread[d] = "queued"
      BY <2>2, SessionsAssumption DEF InQueue
    <2>4. UNCHANGED <<stage, call, database, request, reply, bound>>
          /\ thread' = [d \in Clients |-> IF d = Head(backlog) THEN "serving" ELSE thread[d]]
      BY <1>2 DEF Accept
    <2> SUFFICES ASSUME NEW d \in Clients PROVE StepOf(d)'
      BY DEF InStep
    <2> QED
      BY <2>3, <2>4 DEF InStep, StepOf, UnderWay, TypeOK, Live
  <1> QED
    BY <1>1, <1>2

LEMMA StepNext == TypeOK /\ InStep /\ InQueue /\ [Next]_vars => InStep'
  <1> SUFFICES ASSUME TypeOK, InStep, InQueue, [Next]_vars PROVE InStep'
    OBVIOUS
  <1>1. ASSUME NEW c \in Clients, ConnectRefused(c) \/ ConnectTimesOut(c) PROVE InStep'
    BY <1>1, RefuseStep DEF ConnectRefused, ConnectTimesOut
  <1>2. ASSUME NEW c \in Clients, BuildTimesOut(c) PROVE InStep'
    BY <1>2 DEF BuildTimesOut, InStep, StepOf, UnderWay, TypeOK, Busy
  <1>3. ASSUME NEW c \in Clients, Lost(c) \/ WakeUp(c) \/ WakeFails(c) PROVE InStep'
    <2>1. PICK result : Return(c, result)
      BY <1>3 DEF Lost, WakeUp, WakeFails
    <2>2. stage[c] \in Busy \cup {"waking"} /\ request[c] = NoCall
          /\ UNCHANGED <<request, thread, bound>>
      BY <1>3 DEF Lost, WakeUp, WakeFails, InStep, StepOf, UnderWay
    <2> QED
      BY <2>1, <2>2, ReturnStep
  <1>4. ASSUME NEW c \in Clients, Drop(c) PROVE InStep'
    BY <1>4 DEF Drop, InStep, StepOf, UnderWay, TypeOK, Busy
  <1>5. ASSUME NEW c \in Clients, SessionEnds(c) \/ HangUp(c) PROVE InStep'
    <2>1. /\ \A d \in {c} : thread[d] # "none" /\ thread'[d] = "gone"
          /\ \A d \in Clients \ {c} : thread'[d] = thread[d]
          /\ Leave({c})
      BY <1>5 DEF SessionEnds, HangUp, TypeOK
    <2> QED
      BY <2>1, LeaveStep
  <1>6. CASE UNCHANGED vars
    BY <1>6 DEF vars, InStep, StepOf, UnderWay
  <1> QED
    BY <1>1, <1>2, <1>3, <1>4, <1>5, <1>6, ConnectStep, EstablishStep, CallStep,
       AnswerStep, ServeStep, AcceptStep DEF Next

-----------------------------------------------------------------------------
(* The backlog and the threads agree on who waits.                         *)

LEMMA QueueInit == Init => InQueue
  BY DEF Init, InQueue

\* A connection that is queued keeps the backlog in order.
LEMMA AppendQueue ==
  ASSUME TypeOK, InQueue, NEW x \in Clients \cup {Throwaway},
         backlog' = Append(backlog, x),
         x = Throwaway \/ thread[x] # "queued",
         thread' = IF x = Throwaway THEN thread ELSE [thread EXCEPT ![x] = "queued"]
  PROVE  InQueue'
  <1> DEFINE n == Len(backlog)
  <1>1. /\ backlog \in Seq(Clients \cup {Throwaway}) /\ n \in Nat
        /\ Len(backlog') = n + 1 /\ backlog'[n + 1] = x
        /\ \A i \in 1 .. n : backlog'[i] = backlog[i] /\ backlog[i] \in Clients \cup {Throwaway}
    BY DEF TypeOK
  <1>2. \A i \in 1 .. n + 1 : i = n + 1 \/ i \in 1 .. n
    BY <1>1
  <1>3. \A i \in 1 .. n : backlog[i] # Throwaway => thread[backlog[i]] = "queued"
    BY DEF InQueue
  <1>4. \A i \in 1 .. n : x = Throwaway \/ backlog[i] # x
    BY <1>3
  <1>5. \A i \in 1 .. n + 1 : backlog'[i] # Throwaway => thread'[backlog'[i]] = "queued"
    BY <1>1, <1>2, <1>3, SessionsAssumption DEF TypeOK
  <1>6. \A i, j \in 1 .. n + 1 :
          i # j /\ backlog'[i] = backlog'[j] => backlog'[i] = Throwaway
    BY <1>1, <1>2, <1>4 DEF InQueue
  <1> QED
    BY <1>1, <1>5, <1>6 DEF InQueue

\* A step that leaves the backlog and those who wait in it alone.
LEMMA SameQueue ==
  ASSUME TypeOK, InQueue, UNCHANGED backlog,
         \A d \in Clients : thread[d] = "queued" => thread'[d] = "queued"
  PROVE  InQueue'
  <1>1. \A i \in 1 .. Len(backlog) : backlog[i] \in Clients \cup {Throwaway}
    BY DEF TypeOK
  <1> QED
    BY <1>1 DEF InQueue

LEMMA AcceptQueue == ASSUME TypeOK, InQueue, Accept PROVE InQueue'
  <1>1. CASE stopping
    BY <1>1 DEF Accept, InQueue
  <1>2. CASE ~stopping
    <2> DEFINE n == Len(backlog)
    <2>1. /\ backlog \in Seq(Clients \cup {Throwaway}) /\ backlog # <<>>
          /\ backlog' = Tail(backlog)
          /\ thread' = [c \in Clients |-> IF c = Head(backlog) THEN "serving" ELSE thread[c]]
      BY <1>2 DEF Accept, TypeOK
    <2>2. /\ n \in Nat /\ n > 0 /\ Len(backlog') = n - 1 /\ Head(backlog) = backlog[1]
          /\ \A i \in 1 .. n - 1 : backlog'[i] = backlog[i + 1]
          /\ \A i \in 1 .. n : backlog[i] \in Clients \cup {Throwaway}
      BY <2>1
    <2>3. \A i \in 1 .. n - 1 : i + 1 \in 1 .. n /\ i + 1 # 1 /\ 1 \in 1 .. n
      BY <2>2
    <2>4. \A i \in 1 .. n - 1 : backlog'[i] # Throwaway => backlog'[i] # Head(backlog)
      BY <2>2, <2>3 DEF InQueue
    <2>5. \A i \in 1 .. n - 1 : backlog'[i] # Throwaway => thread[backlog'[i]] = "queued"
      BY <2>2, <2>3 DEF InQueue
    <2>6. \A i \in 1 .. n - 1 : backlog'[i] # Throwaway => thread'[backlog'[i]] = "queued"
      BY <2>1, <2>2, <2>3, <2>4, <2>5
    <2>7. \A i, j \in 1 .. n - 1 :
            i # j /\ backlog'[i] = backlog'[j] => backlog'[i] = Throwaway
      <3> SUFFICES ASSUME NEW i \in 1 .. n - 1, NEW j \in 1 .. n - 1, i # j,
                          backlog'[i] = backlog'[j]
                   PROVE  backlog'[i] = Throwaway
        OBVIOUS
      <3>1. i + 1 # j + 1
        BY <2>2
      <3> QED
        BY <2>2, <2>3, <3>1 DEF InQueue
    <2> QED
      BY <2>2, <2>6, <2>7 DEF InQueue
  <1> QED
    BY <1>1, <1>2

LEMMA QueueNext == TypeOK /\ InStep /\ InQueue /\ [Next]_vars => InQueue'
  <1> SUFFICES ASSUME TypeOK, InStep, InQueue, [Next]_vars PROVE InQueue'
    OBVIOUS
  <1>1. ASSUME NEW c \in Clients, Establish(c) PROVE InQueue'
    <2>1. thread[c] = "none" /\ c # Throwaway
      BY <1>1, SessionsAssumption DEF Establish, InStep, StepOf
    <2> QED
      BY <1>1, <2>1, AppendQueue DEF Establish
  <1>2. ASSUME NEW c \in Clients, WakeUp(c) PROVE InQueue'
    BY <1>2, AppendQueue DEF WakeUp
  <1>3. ASSUME NEW c \in Clients,
               \/ Connect(c) \/ ConnectRefused(c) \/ ConnectTimesOut(c) \/ BuildTimesOut(c)
               \/ \E op \in Offered : \E arg \in Args(op) : Call(c, op, arg)
               \/ Answer(c) \/ Lost(c) \/ WakeFails(c) \/ Drop(c) \/ Serve(c)
        PROVE  InQueue'
    <2>1. UNCHANGED <<backlog, thread>>
      BY <1>3 DEF Connect, ConnectRefused, ConnectTimesOut, BuildTimesOut, Call, Answer,
                  Lost, WakeFails, Drop, Serve, server
    <2> QED
      BY <2>1, SameQueue
  <1>4. ASSUME NEW c \in Clients, SessionEnds(c) \/ HangUp(c) PROVE InQueue'
    <2>1. UNCHANGED backlog /\ thread[c] = "serving" /\ thread' = [thread EXCEPT ![c] = "gone"]
      BY <1>4 DEF SessionEnds, HangUp
    <2> QED
      BY <2>1, SameQueue DEF TypeOK
  <1>5. CASE UNCHANGED vars
    BY <1>5, SameQueue DEF vars, server
  <1> QED
    BY <1>1, <1>2, <1>3, <1>4, <1>5, AcceptQueue DEF Next

-----------------------------------------------------------------------------
(* What each Client knows of its session.                                  *)

LEMMA TracksInit == Init => Tracks
  BY DEF Init, Tracks, TracksOf, Live

\* A step that changes neither what c knows nor its session, and takes no name
\* off the overruled.
LEMMA TracksSame ==
  ASSUME NEW c \in Clients, TracksOf(c),
         stage[c] = "dropped" => stage'[c] = "dropped",
         thread'[c] \in Live => thread[c] \in Live,
         call'[c] = call[c], reply'[c] = reply[c], database'[c] = database[c],
         bound'[c] = bound[c], c \in overruled => c \in overruled'
  PROVE  TracksOf(c)'
  BY DEF TracksOf, DatabaseAfter

LEMMA TracksReturn ==
  ASSUME TypeOK, Tracks, NEW c \in Clients, NEW result, Return(c, result),
         UNCHANGED <<thread, bound, overruled>>, stage[c] # "dropped",
         \/ reply[c] # NoReply /\ result = Result(call[c].op, reply[c].resp)
         \/ thread[c] = "gone"
  PROVE  Tracks'
  <1> SUFFICES ASSUME NEW d \in Clients PROVE TracksOf(d)'
    BY DEF Tracks
  <1>1. CASE d # c
    BY <1>1, TracksSame DEF Tracks, Return, TypeOK
  <1>2. CASE d = c /\ thread[c] = "gone"
    BY <1>2 DEF TracksOf, Live
  <1>3. CASE d = c /\ reply[c] # NoReply /\ result = Result(call[c].op, reply[c].resp)
    <2>1. /\ reply'[c] = NoReply
          /\ database'[c] = DatabaseAfter(call[c], result, database[c])
      BY DEF Return, TypeOK
    <2> QED
      BY <1>3, <2>1 DEF Tracks, TracksOf
  <1> QED
    BY <1>1, <1>2, <1>3

\* A step after which c is dropped, and that is none of the others' concern.
LEMMA TracksDropped ==
  ASSUME Tracks, NEW c \in Clients, stage'[c] = "dropped",
         UNCHANGED <<database, bound, overruled>>,
         \A d \in Clients \ {c} :
           /\ stage'[d] = stage[d] /\ call'[d] = call[d] /\ reply'[d] = reply[d]
           /\ thread'[d] = thread[d]
  PROVE  Tracks'
  <1> SUFFICES ASSUME NEW d \in Clients PROVE TracksOf(d)'
    BY DEF Tracks
  <1>1. CASE d = c
    BY <1>1 DEF TracksOf
  <1>2. CASE d # c
    BY <1>2, TracksSame DEF Tracks
  <1> QED
    BY <1>1, <1>2

LEMMA TracksLeave ==
  ASSUME TypeOK, Tracks, NEW ending \in SUBSET Clients, Leave(ending),
         \A d \in ending : thread'[d] = "gone",
         \A d \in Clients \ ending : thread'[d] = thread[d]
  PROVE  Tracks'
  <1> SUFFICES ASSUME NEW d \in Clients PROVE TracksOf(d)'
    BY DEF Tracks
  <1>1. CASE d \in ending
    BY <1>1 DEF TracksOf, Live
  <1>2. CASE d \notin ending
    BY <1>2, TracksSame DEF Tracks, Leave, TypeOK
  <1> QED
    BY <1>1, <1>2

LEMMA TracksEstablish ==
  ASSUME TypeOK, InStep, Tracks, NEW c \in Clients, Establish(c) PROVE Tracks'
  <1>1. /\ bound[c] = NoDatabase /\ database[c] = NoDatabase /\ reply[c] = NoReply
        /\ UNCHANGED <<bound, overruled>>
        /\ thread' = [thread EXCEPT ![c] = "queued"]
    BY DEF Establish, InStep, StepOf, Busy
  <1>2. /\ UNCHANGED <<database, reply>>
        /\ \A d \in Clients \ {c} : stage'[d] = stage[d] /\ call'[d] = call[d]
    BY DEF Establish, Refuse, Start, TypeOK
  <1> SUFFICES ASSUME NEW d \in Clients PROVE TracksOf(d)'
    BY DEF Tracks
  <1>3. CASE d = c
    BY <1>1, <1>2, <1>3 DEF TracksOf
  <1>4. CASE d # c
    BY <1>1, <1>2, <1>4, TracksSame DEF Tracks, TypeOK
  <1> QED
    BY <1>3, <1>4

LEMMA TracksCall ==
  ASSUME TypeOK, InStep, Tracks, NEW c \in Clients, NEW op, NEW arg, Call(c, op, arg)
  PROVE  Tracks'
  <1>1. /\ stage[c] = "idle" /\ reply[c] = NoReply /\ UNCHANGED <<thread, bound, overruled>>
    BY DEF Call, InStep, StepOf, Busy, server
  <1>2. /\ UNCHANGED <<database, reply>>
        /\ \A d \in Clients \ {c} : stage'[d] = stage[d] /\ call'[d] = call[d]
    BY DEF Call, Refuse, Start, TypeOK
  <1> SUFFICES ASSUME NEW d \in Clients PROVE TracksOf(d)'
    BY DEF Tracks
  <1>3. CASE d = c
    BY <1>1, <1>2, <1>3 DEF Tracks, TracksOf
  <1>4. CASE d # c
    BY <1>1, <1>2, <1>4, TracksSame DEF Tracks
  <1> QED
    BY <1>3, <1>4

\* The step where the server's databases and sessions change.
LEMMA TracksServe ==
  ASSUME TypeOK, InStep, Tracks, NEW c \in Clients, Serve(c) PROVE Tracks'
  <1>1. PICK resp \in Replies(request[c].op, bound[c] # NoDatabase) \cap Spoken :
          /\ reply' = [reply EXCEPT ![c] =
                         IF stage[c] \notin Busy THEN NoReply
                         ELSE [resp |-> resp,
                               list |-> IF request[c].op = "databases" /\ Check(resp) = "Ok"
                                        THEN databases ELSE {}]]
          /\ bound' = BoundAfter(c, request[c], resp)
          /\ overruled' = OverruledAfter(c, request[c], resp)
    BY DEF Serve
  <1>2. /\ UNCHANGED <<stage, call, database, thread>>
        /\ thread[c] = "serving" /\ request[c] # NoCall
    BY DEF Serve
  <1>3. resp \in Responses /\ resp # "none"
    BY ReplyType DEF Responses, Messages, Counts
  <1> SUFFICES ASSUME NEW d \in Clients PROVE TracksOf(d)'
    BY DEF Tracks
  <1>4. CASE d # c
    <2>1. reply'[d] = reply[d]
      BY <1>1, <1>4 DEF TypeOK
    <2>2. \/ bound'[d] = bound[d] /\ (d \in overruled => d \in overruled')
          \/ d \in overruled'
      BY <1>1, <1>4 DEF BoundAfter, OverruledAfter, TypeOK
    <2>3. CASE d \in overruled'
      BY <2>3 DEF TracksOf
    <2>4. CASE bound'[d] = bound[d] /\ (d \in overruled => d \in overruled')
      BY <1>2, <2>1, <2>4, TracksSame DEF Tracks
    <2> QED
      BY <2>2, <2>3, <2>4
  <1>5. CASE d = c /\ stage[c] \notin Busy
    <2>1. stage[c] = "dropped"
      BY <1>2, <1>5 DEF InStep, StepOf, TypeOK, Stages, Busy
    <2> QED
      BY <1>2, <1>5, <2>1 DEF TracksOf
  <1>6. CASE d = c /\ stage[c] \in Busy
    <2>1. request[c] = call[c] /\ reply[c] = NoReply
      BY <1>2, <1>6 DEF InStep, StepOf, UnderWay
    <2>2. reply'[c].resp = resp /\ reply'[c] # NoReply
      BY <1>1, <1>3, <1>6 DEF TypeOK, NoReply
    <2> DEFINE op     == call[c].op
               result == Result(op, resp)
    <2>3. op \in {"use_database", "reset_server"} => result = Check(resp)
      BY <1>3 DEF Check, Result, Checked, Accepted, Responses, Messages
    <2>4. CASE op = "use_database" /\ Check(resp) = "Ok"
      <3>1. bound'[c] = Trim[call[c].arg]
        BY <1>1, <2>1, <2>4 DEF BoundAfter, TypeOK
      <3>2. DatabaseAfter(call[c], result, database[c]) = Trim[call[c].arg]
        BY <2>3, <2>4 DEF DatabaseAfter
      <3> QED
        BY <1>2, <1>6, <2>2, <3>1, <3>2 DEF TracksOf
    <2>5. CASE op = "reset_server" /\ Check(resp) = "Ok"
      <3>1. bound'[c] = NoDatabase
        BY <1>1, <2>1, <2>5 DEF BoundAfter, TypeOK
      <3>2. DatabaseAfter(call[c], result, database[c]) = NoDatabase
        BY <2>3, <2>5 DEF DatabaseAfter
      <3> QED
        BY <1>2, <1>6, <2>2, <3>1, <3>2 DEF TracksOf
    <2>6. CASE op \notin {"use_database", "reset_server"} \/ Check(resp) # "Ok"
      <3>1. bound' = bound /\ overruled' = overruled
        BY <1>1, <2>1, <2>6 DEF BoundAfter, OverruledAfter
      <3>2. DatabaseAfter(call[c], result, database[c]) = database[c]
        BY <2>3, <2>6 DEF DatabaseAfter
      <3> QED
        BY <1>2, <1>6, <2>1, <2>2, <3>1, <3>2 DEF Tracks, TracksOf
    <2> QED
      BY <2>4, <2>5, <2>6
  <1> QED
    BY <1>4, <1>5, <1>6

LEMMA TracksAccept == ASSUME TypeOK, InQueue, Tracks, Accept PROVE Tracks'
  <1>1. CASE stopping
    <2>1. /\ \A d \in Queued : thread'[d] = "gone"
          /\ \A d \in Clients \ Queued : thread'[d] = thread[d]
      BY <1>1 DEF Accept, Queued
    <2> QED
      BY <1>1, <2>1, TracksLeave DEF Accept, Queued
  <1>2. CASE ~stopping
    <2>1. backlog \in Seq(Clients \cup {Throwaway}) /\ backlog # <<>>
      BY DEF Accept, TypeOK
    <2>2. 1 \in 1 .. Len(backlog) /\ Head(backlog) = backlog[1]
      BY <2>1
    <2>3. \A d \in Clients : d = Head(backlog) => thread[d] = "queued"
      BY <2>2, SessionsAssumption DEF InQueue
    <2>4. /\ UNCHANGED <<stage, call, database, reply, bound, overruled>>
          /\ thread' = [d \in Clients |-> IF d = Head(backlog) THEN "serving" ELSE thread[d]]
      BY <1>2 DEF Accept
    <2>5. \A d \in Clients : thread'[d] \in Live => thread[d] \in Live
      BY <2>3, <2>4 DEF Live
    <2> SUFFICES ASSUME NEW d \in Clients PROVE TracksOf(d)'
      BY DEF Tracks
    <2> QED
      BY <2>4, <2>5, TracksSame DEF Tracks
  <1> QED
    BY <1>1, <1>2

LEMMA TracksNext == TypeOK /\ Consistent /\ [Next]_vars => Tracks'
  <1> SUFFICES ASSUME TypeOK, InStep, InQueue, Tracks, [Next]_vars PROVE Tracks'
    BY DEF Consistent
  <1>1. ASSUME NEW c \in Clients,
               ConnectRefused(c) \/ ConnectTimesOut(c) \/ BuildTimesOut(c) \/ Drop(c)
        PROVE  Tracks'
    <2>1. /\ stage'[c] = "dropped" /\ UNCHANGED <<database, bound, overruled, thread>>
          /\ \A d \in Clients \ {c} :
               stage'[d] = stage[d] /\ call'[d] = call[d] /\ reply'[d] = reply[d]
      BY <1>1 DEF ConnectRefused, ConnectTimesOut, BuildTimesOut, Drop, Refuse, TypeOK, server
    <2> QED
      BY <2>1, TracksDropped
  <1>2. ASSUME NEW c \in Clients, Connect(c) PROVE Tracks'
    <2>1. /\ UNCHANGED <<call, database, reply, thread, bound, overruled>>
          /\ stage[c] = "new" /\ \A d \in Clients \ {c} : stage'[d] = stage[d]
      BY <1>2 DEF Connect, Refuse, TypeOK, server
    <2> SUFFICES ASSUME NEW d \in Clients PROVE TracksOf(d)'
      BY DEF Tracks
    <2> QED
      BY <2>1, TracksSame DEF Tracks
  <1>3. ASSUME NEW c \in Clients, Answer(c) PROVE Tracks'
    <2>1. stage[c] \in Busy /\ reply[c] # NoReply /\ UNCHANGED <<thread, bound, overruled>>
      BY <1>3 DEF Answer, server
    <2>2. CASE Return(c, Result(call[c].op, reply[c].resp))
      BY <2>1, <2>2, TracksReturn DEF Busy
    <2>3. CASE /\ stage' = [stage EXCEPT ![c] = "waking"]
               /\ UNCHANGED <<local, call, database, ended, reply>>
      <3> SUFFICES ASSUME NEW d \in Clients PROVE TracksOf(d)'
        BY DEF Tracks
      <3>1. stage[d] = "dropped" => stage'[d] = "dropped"
        BY <2>1, <2>3 DEF Busy, TypeOK
      <3> QED
        BY <2>1, <2>3, <3>1, TracksSame DEF Tracks
    <2> QED
      BY <1>3, <2>2, <2>3 DEF Answer
  <1>4. ASSUME NEW c \in Clients, Lost(c) PROVE Tracks'
    <2>1. PICK result : Return(c, result)
      BY <1>4 DEF Lost
    <2> QED
      BY <1>4, <2>1, TracksReturn DEF Lost, server, Busy
  <1>5. ASSUME NEW c \in Clients, WakeUp(c) \/ WakeFails(c) PROVE Tracks'
    <2>1. /\ stage[c] = "waking" /\ Return(c, "Ok")
          /\ UNCHANGED <<thread, bound, overruled>>
      BY <1>5 DEF WakeUp, WakeFails, server
    <2>2. reply[c] # NoReply /\ Result(call[c].op, reply[c].resp) = "Ok"
      BY <2>1 DEF InStep, StepOf
    <2> QED
      BY <2>1, <2>2, TracksReturn
  <1>6. ASSUME NEW c \in Clients, SessionEnds(c) \/ HangUp(c) PROVE Tracks'
    <2>1. /\ \A d \in {c} : thread'[d] = "gone"
          /\ \A d \in Clients \ {c} : thread'[d] = thread[d]
          /\ Leave({c})
      BY <1>6 DEF SessionEnds, HangUp, TypeOK
    <2> QED
      BY <2>1, TracksLeave
  <1>7. CASE UNCHANGED vars
    <2> SUFFICES ASSUME NEW d \in Clients PROVE TracksOf(d)'
      BY DEF Tracks
    <2> QED
      BY <1>7, TracksSame DEF Tracks, vars, server
  <1> QED
    BY <1>1, <1>2, <1>3, <1>4, <1>5, <1>6, <1>7, TracksEstablish, TracksCall, TracksServe,
       TracksAccept DEF Next

-----------------------------------------------------------------------------
(* The theorems.                                                           *)

\* A Client's connection carries its own current call and nothing else, unless
\* its builder has given that call up, and what its database lacks is in the
\* answer under way: with any number of other Clients resetting, shutting down
\* and filling the backlog (Client::round_trip, ClientBuilder::connect).
THEOREM AlwaysConsistent == Spec => []Consistent
  <1>1. Init => Consistent
    BY StepInit, QueueInit, TracksInit DEF Consistent
  <1>2. TypeOK /\ Consistent /\ [Next]_vars => Consistent'
    BY StepNext, QueueNext, TracksNext DEF Consistent
  <1> QED
    BY <1>1, <1>2, TypeCorrect, PTL DEF Spec

\* Client::database is what the server has bound to the session, unless another
\* Client has reset the server since (Client::use_database, reset_server).
THEOREM KnowsItsDatabase == Spec => []DatabaseKnown
  <1>1. TypeOK /\ Consistent => DatabaseKnown
    BY DEF Consistent, InStep, StepOf, Tracks, TracksOf, DatabaseKnown, Busy
  <1> QED
    BY <1>1, TypeCorrect, AlwaysConsistent, PTL

-----------------------------------------------------------------------------
(* The Clients of Sessions implement those of Service.                     *)

LEMMA ServiceInit == Init => Promise!Init
  BY DEF Init, Promise!Init, Link, NotYet

\* Both modules take the meaning of a response from Protocol.
LEMMA SameProtocol ==
  ASSUME NEW op, NEW resp, NEW connected
  PROVE  /\ Promise!Check(resp) = Check(resp)
         /\ Promise!Result(op, resp) = Result(op, resp)
         /\ Promise!Replies(op, connected) = Replies(op, connected)
  <1>1. Promise!Check(resp) = Check(resp)
    BY DEF Check, Promise!Check
  <1>2. Promise!Accepted(op) = Accepted(op)
    BY DEF Accepted, Promise!Accepted, Counts, Promise!Counts,
       Messages, Promise!Messages, Responses, Promise!Responses
  <1>3. Promise!Acknowledgements(op) = Acknowledgements(op)
    BY DEF Acknowledgements, Promise!Acknowledgements
  <1>4. Promise!DbMethods = DbMethods /\ Promise!SqlMethods = SqlMethods
        /\ Promise!Refusals = Refusals
    BY DEF DbMethods, Promise!DbMethods, SqlMethods, Promise!SqlMethods, Refusals,
           Promise!Refusals
  <1> QED
    BY <1>1, <1>2, <1>3, <1>4 DEF Result, Promise!Result, Checked, Promise!Checked,
       Replies, Promise!Replies

\* The calls of Service that Sessions has.
Operations == UNION {[op : {op}, arg : Args(op)] : op \in Methods}

LEMMA IsOperation ==
  ASSUME NEW op \in Methods, NEW arg \in Args(op)
  PROVE  [op |-> op, arg |-> arg] \in Operations
  <1>1. [op |-> op, arg |-> arg] \in [op : {op}, arg : Args(op)]
    OBVIOUS
  <1> QED
    BY <1>1 DEF Operations

\* A call that returns with its answer is one that ends there.
LEMMA ReturnEnds ==
  ASSUME NEW c \in Clients, call[c] # NoCall, reply[c] # NoReply,
         Return(c, Result(call[c].op, reply[c].resp)),
         UNCHANGED <<request, thread, databases, bound>>
  PROVE  Promise!End(c)
  BY SameProtocol
     DEF Promise!End, Promise!Finish, Promise!Recorded, Return, DatabaseAfter, Link

LEMMA RefuseRefuses ==
  ASSUME NEW c \in Clients, NEW next, call[c] = NoCall,
         NEW err \in {"InvalidArgument", "InvalidInput", "Refused", "TimedOut"},
         Refuse(c, next, err), UNCHANGED <<request, thread, databases, bound>>
  PROVE  Promise!Refuse(c)
  BY DEF Promise!Refuse, Refuse, Link

\* A connection that comes into being opens, with or without a first call.
LEMMA EstablishOpens ==
  ASSUME TypeOK, InStep, NEW c \in Clients, Establish(c) PROVE Promise!Open(c)
  <1>1. /\ thread[c] = "none" /\ thread' = [thread EXCEPT ![c] = "queued"]
        /\ call[c] = NoCall /\ request[c] = NoCall
        /\ UNCHANGED <<databases, bound>>
    BY DEF Establish, InStep, StepOf, Busy
  <1>2. Link[c] = "none" /\ Link' = [Link EXCEPT ![c] = "up"]
    BY <1>1 DEF Link, TypeOK
  <1>3. CASE \E err \in {"InvalidArgument", "InvalidInput"} :
                Refuse(c, "dropped", err) /\ UNCHANGED request
    <2>1. call' = [call EXCEPT ![c] = NoCall] /\ request' = [request EXCEPT ![c] = NoCall]
      BY <1>1, <1>3 DEF Refuse, TypeOK
    <2> QED
      BY <1>1, <1>2, <1>3, <2>1 DEF Promise!Open, Refuse
  <1>4. CASE UNCHANGED <<call, database, ended, request, reply>>
    <2>1. /\ call' = [call EXCEPT ![c] = NoCall] /\ request' = [request EXCEPT ![c] = NoCall]
          /\ ended' = [ended EXCEPT ![c] = ended[c]]
      BY <1>1, <1>4 DEF TypeOK
    <2> QED
      BY <1>1, <1>2, <1>4, <2>1 DEF Promise!Open
  <1>5. CASE /\ options[c].database # NoDatabase
             /\ Start(c, "building", "use_database", options[c].database)
    <2> DEFINE o == [op |-> "use_database", arg |-> options[c].database]
    <2>1. options[c].database \in Args("use_database") /\ "use_database" \in Methods
      BY <1>5, SessionsAssumption
         DEF TypeOK, Args, NameMethods, NoOptions, Methods, SystemMethods
    <2>2. o \in {p \in Operations : p.op = "use_database"}
      BY <2>1, IsOperation
    <2>3. /\ call' = [call EXCEPT ![c] = o] /\ request' = [request EXCEPT ![c] = o]
          /\ ended' = [ended EXCEPT ![c] = ended[c]] /\ UNCHANGED <<database, reply>>
      BY <1>1, <1>5 DEF Start, TypeOK
    <2> QED
      BY <1>1, <1>2, <2>2, <2>3 DEF Promise!Open, Operations
  <1> QED
    BY <1>3, <1>4, <1>5 DEF Establish

LEMMA CallBegins ==
  ASSUME TypeOK, InStep, NEW c \in Clients, NEW op \in Offered, NEW arg \in Args(op),
         Call(c, op, arg)
  PROVE  Promise!Begin(c) \/ Promise!Refuse(c)
  <1>1. /\ call[c] = NoCall /\ thread[c] # "none"
        /\ UNCHANGED <<thread, bound, databases>>
    BY DEF Call, InStep, StepOf, Busy, server
  <1>2. CASE Refuse(c, "idle", "InvalidArgument") /\ UNCHANGED request
    BY <1>1, <1>2, RefuseRefuses
  <1>3. CASE Start(c, "calling", op, arg)
    <2>1. [op |-> op, arg |-> arg] \in Operations
      BY SessionsAssumption, IsOperation
    <2>2. /\ Link[c] # "none" /\ Link' = Link
          /\ (thread[c] = "gone") <=> (Link[c] # "up")
      BY <1>1 DEF Link
    <2>3. request' = [request EXCEPT ![c] = IF Link[c] = "up" THEN [op |-> op, arg |-> arg]
                                            ELSE NoCall]
      BY <1>3, <2>2 DEF Start
    <2> QED
      BY <1>1, <1>3, <2>1, <2>2, <2>3 DEF Start, Promise!Begin, Operations
  <1> QED
    BY <1>2, <1>3 DEF Call

LEMMA ServePerforms ==
  ASSUME TypeOK, InStep, NEW c \in Clients, Serve(c) PROVE Promise!Perform(c)
  <1>1. PICK resp \in Replies(request[c].op, bound[c] # NoDatabase) \cap Spoken :
          /\ reply' = [reply EXCEPT ![c] =
                         IF stage[c] \notin Busy THEN NoReply
                         ELSE [resp |-> resp,
                               list |-> IF request[c].op = "databases" /\ Check(resp) = "Ok"
                                        THEN databases ELSE {}]]
          /\ databases' = DatabasesAfter(request[c], resp)
          /\ bound' = BoundAfter(c, request[c], resp)
    BY DEF Serve
  <1>2. /\ thread[c] = "serving" /\ request[c] # NoCall
        /\ request' = [request EXCEPT ![c] = NoCall]
        /\ UNCHANGED <<call, database, ended, thread>>
    BY DEF Serve
  <1>3. stage[c] \in Busy <=> call[c] # NoCall
    BY <1>2 DEF InStep, StepOf
  <1>4. Link[c] = "up" /\ Link' = Link
    BY <1>2 DEF Link
  <1>5. resp \in Promise!Replies(request[c].op, bound[c] # NoDatabase)
    BY <1>1, SameProtocol
  <1>6. reply' = [reply EXCEPT ![c] = IF call[c] = NoCall THEN NoReply
                                      ELSE Promise!Says(request[c], resp)]
    BY <1>1, <1>3, SameProtocol DEF Promise!Says
  <1>7. databases' = Promise!DatabasesAfter(request[c], resp)
    BY <1>1, SameProtocol DEF DatabasesAfter, Promise!DatabasesAfter
  <1>8. bound' = Promise!BoundAfter(c, request[c], resp)
    BY <1>1, SameProtocol DEF BoundAfter, Promise!BoundAfter
  <1> QED
    BY <1>2, <1>4, <1>5, <1>6, <1>7, <1>8 DEF Promise!Perform

\* Connections the server leaves break, some with the answer on its way.
LEMMA LeaveBreaks ==
  ASSUME TypeOK, NEW ending \in SUBSET Clients, Leave(ending),
         UNCHANGED made,
         \A d \in ending : thread[d] \in Live,
         thread' = [d \in Clients |-> IF d \in ending THEN "gone" ELSE thread[d]]
  PROVE  Promise!Break
  <1>1. PICK taken \in SUBSET {d \in ending : stage[d] \in Busy} :
          reply' = [d \in Clients |-> IF d \in taken THEN NoReply ELSE reply[d]]
    BY DEF Leave
  <1>2. /\ \A d \in ending : Link[d] = "up"
        /\ Link' = [d \in Clients |-> IF d \in ending THEN "down" ELSE Link[d]]
    BY DEF Link, Live
  <1>3. ending \ taken \in SUBSET ending
        /\ \A d \in Clients : d \in ending \ (ending \ taken) <=> d \in taken
    BY <1>1
  <1>4. reply' = [d \in Clients |-> IF d \in ending \ (ending \ taken) THEN NoReply
                                    ELSE reply[d]]
    BY <1>1, <1>3
  <1> QED
    BY <1>2, <1>3, <1>4 DEF Promise!Break, Leave

LEMMA ServiceNext == TypeOK /\ Consistent /\ [Next]_vars => [Promise!Next]_(Promise!vars)
  <1> SUFFICES ASSUME TypeOK, InStep, InQueue, [Next]_vars
               PROVE  Promise!Next \/ UNCHANGED Promise!vars
    BY DEF Consistent
  <1>1. ASSUME NEW c \in Clients, Connect(c) \/ ConnectRefused(c) \/ ConnectTimesOut(c)
        PROVE  Promise!Next \/ UNCHANGED Promise!vars
    <2>1. call[c] = NoCall /\ UNCHANGED <<request, thread, databases, bound>>
      BY <1>1 DEF Connect, ConnectRefused, ConnectTimesOut, InStep, StepOf, Busy, server
    <2>2. CASE \E err \in {"InvalidArgument", "InvalidInput", "Refused", "TimedOut"} :
                  Refuse(c, "dropped", err)
      BY <2>1, <2>2, RefuseRefuses DEF Promise!Next
    <2>3. CASE UNCHANGED <<call, database, ended, reply>>
      BY <2>1, <2>3 DEF Promise!vars, Link
    <2> QED
      BY <1>1, <2>2, <2>3 DEF Connect, ConnectRefused, ConnectTimesOut
  <1>2. ASSUME NEW c \in Clients, BuildTimesOut(c) PROVE Promise!GiveUp(c)
    BY <1>2 DEF BuildTimesOut, Promise!GiveUp, InStep, StepOf, Busy, Link, server
  <1>3. ASSUME NEW c \in Clients, Answer(c) PROVE Promise!End(c) \/ UNCHANGED Promise!vars
    <2>1. call[c] # NoCall /\ reply[c] # NoReply /\ UNCHANGED <<request, thread, databases, bound>>
      BY <1>3 DEF Answer, InStep, StepOf, server
    <2>2. CASE Return(c, Result(call[c].op, reply[c].resp))
      BY <2>1, <2>2, ReturnEnds
    <2>3. CASE UNCHANGED <<local, call, database, ended, reply>>
      BY <2>1, <2>3 DEF Promise!vars, Link
    <2> QED
      BY <1>3, <2>2, <2>3 DEF Answer
  <1>4. ASSUME NEW c \in Clients, Lost(c) PROVE Promise!Lost(c)
    <2>1. PICK err \in {"ConnectionClosed", "BrokenPipe"} : Return(c, err)
      BY <1>4 DEF Lost
    <2>2. /\ call[c] # NoCall /\ reply[c] = NoReply /\ Link[c] = "down"
          /\ UNCHANGED <<request, thread, databases, bound>>
      BY <1>4 DEF Lost, InStep, StepOf, Link, server
    <2>3. Promise!Finish(c, err)
      BY <2>1, <2>2 DEF Promise!Finish, Promise!Recorded, Return, DatabaseAfter, Link
    <2> QED
      BY <2>2, <2>3 DEF Promise!Lost
  <1>5. ASSUME NEW c \in Clients, WakeUp(c) \/ WakeFails(c) PROVE Promise!End(c)
    <2>1. /\ stage[c] = "waking" /\ Return(c, "Ok")
          /\ UNCHANGED <<request, thread, databases, bound>>
      BY <1>5 DEF WakeUp, WakeFails, server
    <2>2. /\ call[c] # NoCall /\ reply[c] # NoReply
          /\ Result(call[c].op, reply[c].resp) = "Ok"
      BY <2>1 DEF InStep, StepOf, NoCall
    <2> QED
      BY <2>1, <2>2, ReturnEnds
  <1>6. ASSUME NEW c \in Clients, Drop(c) PROVE UNCHANGED Promise!vars
    BY <1>6 DEF Drop, Promise!vars, Link, server
  <1>7. ASSUME NEW c \in Clients, SessionEnds(c) \/ HangUp(c) PROVE Promise!Break
    <2>1. /\ thread[c] \in Live /\ Leave({c}) /\ UNCHANGED made
          /\ thread' = [d \in Clients |-> IF d \in {c} THEN "gone" ELSE thread[d]]
      BY <1>7 DEF SessionEnds, HangUp, Live, TypeOK, Leave
    <2> QED
      BY <2>1, LeaveBreaks
  <1>8. CASE Accept /\ stopping
    <2>1. /\ \A d \in Queued : thread[d] \in Live
          /\ Leave(Queued) /\ UNCHANGED made
          /\ thread' = [d \in Clients |-> IF d \in Queued THEN "gone" ELSE thread[d]]
      BY <1>8 DEF Accept, Queued, Live, Leave
    <2>2. Queued \in SUBSET Clients
      BY DEF Queued
    <2>3. Promise!Break
      BY <2>1, <2>2, LeaveBreaks
    <2> QED
      BY <2>3 DEF Promise!Next
  <1>9. CASE Accept /\ ~stopping
    <2>1. backlog \in Seq(Clients \cup {Throwaway}) /\ backlog # <<>>
      BY <1>9 DEF Accept, TypeOK
    <2>2. 1 \in 1 .. Len(backlog) /\ Head(backlog) = backlog[1]
      BY <2>1
    <2>3. \A d \in Clients : d = Head(backlog) => thread[d] = "queued"
      BY <2>2, SessionsAssumption DEF InQueue
    <2>4. /\ UNCHANGED <<call, database, ended, request, reply, databases, bound>>
          /\ thread' = [d \in Clients |-> IF d = Head(backlog) THEN "serving" ELSE thread[d]]
      BY <1>9 DEF Accept
    <2>5. Link' = Link
      BY <2>3, <2>4 DEF Link
    <2> QED
      BY <2>4, <2>5 DEF Promise!vars
  <1>10. CASE UNCHANGED vars
    BY <1>10 DEF vars, Promise!vars, Link, server
  <1> QED
    BY <1>1, <1>2, <1>3, <1>4, <1>5, <1>6, <1>7, <1>8, <1>9, <1>10, EstablishOpens,
       CallBegins, ServePerforms DEF Next, Promise!Next

\* Any number of Clients of one server, through any backlog, any interleaving of
\* threads, hang-ups and shutdowns: each call takes effect at one instant or not
\* at all, on the shared databases and its own session (Client::round_trip).
THEOREM Linearizable == Spec => IsService
  BY ServiceInit, ServiceNext, TypeCorrect, AlwaysConsistent, PTL
     DEF Spec, IsService, Promise!Spec
=============================================================================
