---------------------------- MODULE ClientProofs ----------------------------
(* Proofs of the invariants of Client, for every value of its constants,   *)
(* and of its refinement of Rpc in the default configuration.              *)
EXTENDS ClientRpc, TLAPS

-----------------------------------------------------------------------------
(* Type correctness.                                                       *)

\* What a call can return is a Result (client.rs check, expect_message,
\* into_rows).
LEMMA ResultType ==
  ASSUME NEW op \in Methods \cup {"none"}, NEW resp \in Bodies
  PROVE  Result(op, resp) \in Results
  BY DEF Result, Checked, Check, Accepted, Results, Errors

\* Client.database stays a name or None, whatever a well-formed call returns.
LEMMA DatabaseAfterType ==
  ASSUME NEW op, NEW arg \in Args(op), NEW result,
         database \in Databases \cup {Blank, NoDatabase}
  PROVE  DatabaseAfter(op, arg, result) \in Databases \cup {Blank, NoDatabase}
  BY ConstantsAssumption DEF DatabaseAfter, Args, NameMethods

\* The end of a call leaves the client's own variables well typed.
LEMMA ReturnType ==
  ASSUME TypeOK, NEW result \in Results, NEW to \in Nat, Return(result, to)
  PROVE  /\ stage' \in Stages
         /\ call' = NoCall /\ frame' = NoFrame /\ building' = FALSE
         /\ database' \in Databases \cup {Blank, NoDatabase}
         /\ UNCHANGED <<config, sent>>
         /\ waking' \in BOOLEAN
         /\ last' \in [id : Nat, result : Results, to : Nat]
         /\ abandoned' \in SUBSET Unknown
  <1>1. stage' \in Stages /\ waking' \in BOOLEAN
    BY DEF Return, Stages, TypeOK
  <1>2. database' \in Databases \cup {Blank, NoDatabase}
    BY DatabaseAfterType DEF Return, TypeOK, Suits
  <1>3. last' \in [id : Nat, result : Results, to : Nat]
    BY DEF Return, TypeOK
  <1>4. abandoned' \in SUBSET Unknown
    BY DEF Return, TypeOK
  <1> QED
    BY <1>1, <1>2, <1>3, <1>4 DEF Return

LEMMA NoneType ==
  /\ NoCall \in [op : Methods \cup {"none"},
                 arg : RawNames \cup Statements \cup {NoArg}, id : Nat]
  /\ Suits(NoCall)
  /\ NoRequest \in Requests /\ Suits(NoRequest)
  /\ NoFrame \in Frames
  BY DEF NoCall, NoRequest, NoFrame, Suits, Args, Requests, Frames, Bodies,
         NameMethods, SqlMethods

LEMMA TypeInit == Init => TypeOK
<1> SUFFICES ASSUME Init PROVE TypeOK
  OBVIOUS
<1>1. outbox \in Seq(Requests) /\ \A i \in 1 .. Len(outbox) : Suits(outbox[i])
  BY DEF Init
<1>2. last \in [id : Nat, result : Results, to : Nat]
  BY DEF Init, Results
<1>3. /\ stage \in Stages /\ tcp \in {"none", "open"} \cup Gone
      /\ listener \in {"blocked", "stopped"}
  BY DEF Init, Stages
<1>4. /\ building \in BOOLEAN /\ waking \in BOOLEAN /\ stopping \in BOOLEAN
      /\ statement_guard \in BOOLEAN /\ read_timeout \in BOOLEAN
      /\ write_timeout \in BOOLEAN
  BY DEF Init
<1>5. /\ frames \in SUBSET Frames /\ rpos \in Nat /\ wpos \in Nat /\ rpos <= wpos
      /\ sent \in Nat /\ abandoned \in SUBSET Unknown
  BY DEF Init
<1>6. /\ database \in Databases \cup {Blank, NoDatabase}
      /\ bound \in Databases \cup {Blank, NoDatabase}
  BY DEF Init
<1>7. /\ call = NoCall /\ frame = NoFrame /\ serving = NoRequest
  BY DEF Init
<1> QED
  BY <1>1, <1>2, <1>3, <1>4, <1>5, <1>6, <1>7, NoneType DEF TypeOK

\* Taking n bytes that have arrived off the stream leaves a stream.
LEMMA ConsumeType ==
  ASSUME TypeOK, NEW n \in Nat, rpos + n <= wpos, Consume(n)
  PROVE  frames' \in SUBSET Frames /\ rpos' \in Nat /\ wpos' \in Nat /\ rpos' <= wpos'
  BY DEF TypeOK, Consume

\* What Return leaves alone is left alone by a step that only returns.
LEMMA ReturnStepType ==
  ASSUME TypeOK, NEW result \in Results, NEW to \in Nat, Return(result, to),
         outbox' \in Seq(Requests) /\ \A i \in 1 .. Len(outbox') : Suits(outbox'[i]),
         frames' \in SUBSET Frames /\ rpos' \in Nat /\ wpos' \in Nat /\ rpos' <= wpos',
         tcp' \in {"none", "open"} \cup Gone,
         UNCHANGED session
  PROVE  TypeOK'
  BY ReturnType, NoneType DEF TypeOK, config, session

\* A call that begins is well formed.
LEMMA StartType ==
  ASSUME TypeOK, NEW op \in Methods, NEW arg \in Args(op), Start(op, arg)
  PROVE  /\ stage' \in Stages /\ sent' \in Nat
         /\ call' \in [op : Methods \cup {"none"},
                       arg : RawNames \cup Statements \cup {NoArg}, id : Nat]
         /\ Suits(call')
  BY DEF TypeOK, Start, Stages, Args, Suits

LEMMA RequestType ==
  ASSUME TypeOK
  PROVE  /\ Request \in Requests /\ Suits(Request)
         /\ [Request EXCEPT !.whole = FALSE] \in Requests
         /\ Suits([Request EXCEPT !.whole = FALSE])
  BY DEF TypeOK, Request, Requests, Suits

\* A queue of well-formed requests takes another one.
LEMMA AppendType ==
  ASSUME NEW s \in Seq(Requests), \A i \in 1 .. Len(s) : Suits(s[i]),
         NEW r \in Requests, Suits(r)
  PROVE  /\ Append(s, r) \in Seq(Requests)
         /\ \A i \in 1 .. Len(Append(s, r)) : Suits(Append(s, r)[i])
  <1>1. Append(s, r) \in Seq(Requests) /\ Len(Append(s, r)) = Len(s) + 1
    OBVIOUS
  <1>2. \A i \in 1 .. Len(s) + 1 : Append(s, r)[i] = IF i = Len(s) + 1 THEN r ELSE s[i]
    OBVIOUS
  <1>3. \A i \in 1 .. Len(s) + 1 : i # Len(s) + 1 => i \in 1 .. Len(s)
    OBVIOUS
  <1> QED
    BY <1>1, <1>2, <1>3

LEMMA TailType ==
  ASSUME NEW s \in Seq(Requests), s # <<>>, \A i \in 1 .. Len(s) : Suits(s[i])
  PROVE  /\ s[1] \in Requests /\ Suits(s[1])
         /\ Tail(s) \in Seq(Requests)
         /\ \A i \in 1 .. Len(Tail(s)) : Suits(Tail(s)[i])
  <1>1. Len(s) \in Nat /\ Len(s) > 0 /\ 1 \in 1 .. Len(s)
    OBVIOUS
  <1>2. Tail(s) \in Seq(Requests) /\ Len(Tail(s)) = Len(s) - 1
    BY <1>1
  <1>3. \A i \in 1 .. Len(s) - 1 : Tail(s)[i] = s[i + 1] /\ i + 1 \in 1 .. Len(s)
    BY <1>1
  <1> QED
    BY <1>1, <1>2, <1>3

LEMMA AnnouncedType ==
  ASSUME TypeOK, NEW f \in Announced
  PROVE  f \in Frames
  <1>1. Phantoms \subseteq Frames
    <2>1. rpos \in Nat /\ BodySizes \cup {0} \subseteq Nat
      BY ConstantsAssumption DEF TypeOK
    <2>2. Spoken \cup {"Undecodable"} \subseteq Bodies
      BY ConstantsAssumption DEF Bodies
    <2> QED
      BY <2>1, <2>2 DEF Phantoms, Frames
  <1> QED
    BY <1>1 DEF Announced, TypeOK

\* A reply starts where the stream ends, is addressed to the request being
\* served, and is empty only for a quiet acknowledgement.
LEMMA ReplyFramesAre ==
  ASSUME NEW r, NEW resp, NEW f \in ReplyFrames(r, resp)
  PROVE  /\ f = [at |-> wpos, size |-> f.size, resp |-> f.resp, to |-> r.id]
         /\ f.size \in BodySizes \cup {0} /\ f.resp \in {resp, "Undecodable"}
         /\ f.size = 0 => f.resp = "QuietOk"
  <1> DEFINE bodies == IF "undecodable" \in Faults THEN {resp, "Undecodable"} ELSE {resp}
             empty  == IF resp = "QuietOk" THEN {0} ELSE {}
             A == [at : {wpos}, size : BodySizes, resp : bodies, to : {r.id}]
             B == [at : {wpos}, size : empty, resp : {resp}, to : {r.id}]
  <1>1. f \in A \/ f \in B
    BY DEF ReplyFrames
  <1>2. 0 \notin BodySizes
    BY ConstantsAssumption
  <1>3. bodies \subseteq {resp, "Undecodable"} /\ empty \subseteq {0}
    OBVIOUS
  <1>4. empty # {} => resp = "QuietOk"
    OBVIOUS
  <1> HIDE DEF bodies, empty
  <1>5. CASE f \in A
    BY <1>5, <1>2, <1>3
  <1>6. CASE f \in B
    BY <1>6, <1>3, <1>4
  <1> QED
    BY <1>1, <1>5, <1>6

LEMMA ReplyFramesType ==
  ASSUME TypeOK, NEW resp \in Responses, NEW f \in ReplyFrames(serving, resp)
  PROVE  f \in Frames
  <1>1. wpos \in Nat /\ serving.id \in Nat
    BY DEF TypeOK, Requests
  <1>2. BodySizes \cup {0} \subseteq Nat
    BY ConstantsAssumption
  <1>3. {resp, "Undecodable"} \subseteq Bodies
    BY DEF Bodies
  <1>4. f.size \in Nat /\ f.resp \in Bodies
    BY <1>2, <1>3, ReplyFramesAre
  <1> QED
    BY <1>1, <1>4, ReplyFramesAre DEF Frames

LEMMA BoundAfterType ==
  ASSUME NEW r, Suits(r), NEW resp, bound \in Databases \cup {Blank, NoDatabase}
  PROVE  BoundAfter(r, resp) \in Databases \cup {Blank, NoDatabase}
  BY ConstantsAssumption DEF BoundAfter, Suits, Args, NameMethods

\* Every action keeps every variable in its type.
LEMMA TypeStep == TypeOK /\ [Next]_vars => TypeOK'
<1> SUFFICES ASSUME TypeOK, [Next]_vars PROVE TypeOK'
  OBVIOUS
<1> USE DEF config, stream, session
<1>1. CASE Connect
  <2>1. CASE stage' = "idle" /\ UNCHANGED <<call, building, sent>>
    BY <1>1, <2>1, ConstantsAssumption DEF Connect, TypeOK, Stages, Gone
  <2>2. CASE stage' = "dropped" /\ UNCHANGED <<call, building, sent>>
    BY <1>1, <2>2, ConstantsAssumption DEF Connect, TypeOK, Stages, Gone
  <2>3. ASSUME NEW raw \in RawNames, Start("use_database", raw), building' = TRUE
        PROVE  TypeOK'
    <3>1. "use_database" \in Methods /\ raw \in Args("use_database")
      BY DEF Methods, SystemMethods, Args, NameMethods
    <3>2. /\ stage' \in Stages /\ sent' \in Nat
          /\ call' \in [op : Methods \cup {"none"},
                        arg : RawNames \cup Statements \cup {NoArg}, id : Nat]
          /\ Suits(call')
      BY <3>1, <2>3, StartType
    <3> QED
      BY <1>1, <2>3, <3>2, ConstantsAssumption DEF Connect, TypeOK, Gone
  <2> QED
    BY <1>1, <2>1, <2>2, <2>3 DEF Connect
<1>2. CASE ConnectFails
  BY <1>2 DEF ConnectFails, TypeOK, Stages
<1>3. CASE SetReadTimeout
  BY <1>3, ConstantsAssumption DEF SetReadTimeout, TypeOK
<1>4. CASE SetWriteTimeout
  BY <1>4, ConstantsAssumption DEF SetWriteTimeout, TypeOK
<1>5. CASE SetStatementGuard
  BY <1>5 DEF SetStatementGuard, TypeOK
<1>6. ASSUME NEW op \in Offered, NEW arg \in Args(op), Call(op, arg)
      PROVE  TypeOK'
  <2>1. op \in Methods
    BY ConstantsAssumption
  <2>2. CASE Start(op, arg) /\ UNCHANGED last
    BY <1>6, <2>1, <2>2, StartType DEF Call, TypeOK
  <2>3. LocalError(op, arg) \in Results
    BY DEF LocalError, NameError, SizeError, StatementError, Inspect, Results, Errors
  <2>4. CASE /\ last' = [id |-> 0, result |-> LocalError(op, arg), to |-> 0]
             /\ UNCHANGED <<stage, call, sent>>
    BY <1>6, <2>3, <2>4 DEF Call, TypeOK
  <2> QED
    BY <1>6, <2>2, <2>4 DEF Call
<1>7. CASE WriteRequest
  <2>1. outbox' \in Seq(Requests) /\ \A i \in 1 .. Len(outbox') : Suits(outbox'[i])
    BY <1>7, AppendType, RequestType DEF WriteRequest, TypeOK
  <2> QED
    BY <1>7, <2>1 DEF WriteRequest, TypeOK, Stages, Gone
<1>8. CASE WriteTimesOut
  <2>1. outbox' \in Seq(Requests) /\ \A i \in 1 .. Len(outbox') : Suits(outbox'[i])
    BY <1>8, AppendType, RequestType DEF WriteTimesOut, TypeOK
  <2>2. "TimedOut" \in Results
    BY DEF Results, Errors
  <2>3. tcp' \in {"none", "open"} \cup Gone /\ Return("TimedOut", 0)
    BY <1>8 DEF WriteTimesOut, TypeOK
  <2> QED
    BY <1>8, <2>1, <2>2, <2>3, ReturnStepType DEF WriteTimesOut, TypeOK
<1>9. CASE WriteFails
  <2>1. PICK error \in {"BrokenPipe", "ConnectionClosed"} : Return(error, 0)
    BY <1>9 DEF WriteFails
  <2>2. error \in Results
    BY DEF Results, Errors
  <2>3. outbox' \in Seq(Requests) /\ \A i \in 1 .. Len(outbox') : Suits(outbox'[i])
    BY <1>9 DEF WriteFails, TypeOK
  <2> QED
    BY <1>9, <2>1, <2>2, <2>3, ReturnStepType DEF WriteFails, TypeOK, Gone
<1>10. CASE ReadLength
  <2>1. PICK f \in Announced :
          \/ f.size = 0 /\ Return(Result(call.op, "QuietOk"), f.to)
          \/ f.size > MaxResponse /\ Return("ResponseTooLarge", f.to)
          \/ /\ stage' = "body" /\ frame' = f
             /\ UNCHANGED <<call, building, database, config, waking, sent, last,
                            abandoned>>
    BY <1>10 DEF ReadLength
  <2>2. f \in Frames /\ f.to \in Nat
    BY AnnouncedType DEF Frames
  <2>3. frames' \in SUBSET Frames /\ rpos' \in Nat /\ wpos' \in Nat /\ rpos' <= wpos'
    BY <1>10, ConsumeType, ConstantsAssumption DEF ReadLength
  <2>4. outbox' \in Seq(Requests) /\ \A i \in 1 .. Len(outbox') : Suits(outbox'[i])
    BY <1>10 DEF ReadLength, TypeOK
  <2>5. ASSUME NEW result \in Results, Return(result, f.to)
        PROVE  TypeOK'
    BY <1>10, <2>2, <2>3, <2>4, <2>5, ReturnStepType DEF ReadLength, TypeOK
  <2>6. Result(call.op, "QuietOk") \in Results /\ "ResponseTooLarge" \in Results
    BY ResultType DEF TypeOK, Bodies, Responses, Results, Errors
  <2>7. CASE /\ stage' = "body" /\ frame' = f
             /\ UNCHANGED <<call, building, database, config, waking, sent, last,
                            abandoned>>
    BY <1>10, <2>2, <2>3, <2>7 DEF ReadLength, TypeOK, Stages
  <2> QED
    BY <2>1, <2>5, <2>6, <2>7
<1>11. CASE ReadBody
  <2>1. PICK result \in Results : Return(result, frame.to)
    <3>1. Result(call.op, frame.resp) \in Results /\ "Decode" \in Results
      BY ResultType DEF TypeOK, Frames, Results, Errors
    <3> QED
      BY <1>11, <3>1 DEF ReadBody
  <2>2. frame.to \in Nat /\ frame.size \in Nat
    BY DEF TypeOK, Frames
  <2>3. frames' \in SUBSET Frames /\ rpos' \in Nat /\ wpos' \in Nat /\ rpos' <= wpos'
    BY <1>11, <2>2, ConsumeType DEF ReadBody
  <2>4. outbox' \in Seq(Requests) /\ \A i \in 1 .. Len(outbox') : Suits(outbox'[i])
    BY <1>11 DEF ReadBody, TypeOK
  <2> QED
    BY <1>11, <2>1, <2>2, <2>3, <2>4, ReturnStepType DEF ReadBody, TypeOK
<1>12. CASE ReadTimesOut
  <2>1. Wanted \in Nat
    BY ConstantsAssumption DEF Wanted, TypeOK, Frames
  <2>2. PICK n \in 0 .. Wanted - 1 : rpos + n <= wpos /\ Consume(n)
    BY <1>12 DEF ReadTimesOut
  <2>3. frames' \in SUBSET Frames /\ rpos' \in Nat /\ wpos' \in Nat /\ rpos' <= wpos'
    BY <2>1, <2>2, ConsumeType
  <2>4. outbox' \in Seq(Requests) /\ \A i \in 1 .. Len(outbox') : Suits(outbox'[i])
    BY <1>12 DEF ReadTimesOut, TypeOK
  <2>5. "TimedOut" \in Results
    BY DEF Results, Errors
  <2> QED
    BY <1>12, <2>3, <2>4, <2>5, ReturnStepType DEF ReadTimesOut, TypeOK
<1>13. CASE ReadEof
  <2>1. wpos - rpos \in Nat /\ rpos + (wpos - rpos) <= wpos
    BY DEF TypeOK
  <2>2. frames' \in SUBSET Frames /\ rpos' \in Nat /\ wpos' \in Nat /\ rpos' <= wpos'
    BY <1>13, <2>1, ConsumeType DEF ReadEof
  <2>3. outbox' \in Seq(Requests) /\ \A i \in 1 .. Len(outbox') : Suits(outbox'[i])
    BY <1>13 DEF ReadEof, TypeOK
  <2>4. "ConnectionClosed" \in Results /\ tcp' \in Gone
    BY <1>13 DEF ReadEof, Results, Errors, Gone
  <2> QED
    BY <1>13, <2>2, <2>3, <2>4, ReturnStepType DEF ReadEof, TypeOK
<1>14. CASE ServerRead
  <2>1. CASE /\ serving' = outbox[1] /\ outbox' = Tail(outbox)
             /\ UNCHANGED <<stream, tcp, bound, stopping, listener>>
    BY <1>14, <2>1, TailType DEF ServerRead, TypeOK
  <2>2. CASE HungUp /\ UNCHANGED stream
    BY <1>14, <2>2, NoneType DEF ServerRead, HungUp, TypeOK, Gone
  <2> QED
    BY <1>14, <2>1, <2>2 DEF ServerRead
<1>15. CASE ServerReply
  <2> PICK resp \in Responses :
          /\ \E f \in ReplyFrames(serving, resp) :
               frames' = frames \cup {f} /\ wpos' = wpos + LengthBytes + f.size
          /\ bound' = BoundAfter(serving, resp)
    BY <1>15, ConstantsAssumption DEF ServerReply
  <2>1. PICK f \in ReplyFrames(serving, resp) :
          frames' = frames \cup {f} /\ wpos' = wpos + LengthBytes + f.size
    OBVIOUS
  <2>2. f \in Frames
    BY ReplyFramesType
  <2>3. frames' \in SUBSET Frames /\ wpos' \in Nat /\ rpos' \in Nat /\ rpos' <= wpos'
    <3>1. f.size \in Nat /\ LengthBytes \in Nat /\ wpos \in Nat /\ rpos \in Nat
      BY <2>2, ConstantsAssumption DEF TypeOK, Frames
    <3>2. rpos' = rpos /\ rpos <= wpos
      BY <1>15 DEF ServerReply, TypeOK
    <3>3. wpos' \in Nat /\ rpos' \in Nat /\ rpos' <= wpos'
      BY <2>1, <3>1, <3>2
    <3> QED
      BY <2>1, <2>2, <3>3 DEF TypeOK
  <2>4. bound' \in Databases \cup {Blank, NoDatabase}
    BY BoundAfterType DEF TypeOK
  <2>5. stopping' \in BOOLEAN /\ serving' = NoRequest
    BY <1>15 DEF ServerReply, TypeOK
  <2> QED
    BY <1>15, <2>3, <2>4, <2>5, NoneType DEF ServerReply, TypeOK
<1>16. CASE ServerHangsUp
  <2>1. frames' \in SUBSET Frames /\ wpos' \in Nat /\ rpos' \in Nat /\ rpos' <= wpos'
    <3>1. CASE UNCHANGED stream
      BY <3>1 DEF TypeOK
    <3>2. CASE wpos' \in rpos .. wpos /\ UNCHANGED <<frames, rpos>>
      BY <3>2 DEF TypeOK
    <3>3. ASSUME NEW size \in BodySizes, NEW resp \in Spoken,
                 NEW n \in 1 .. LengthBytes + size - 1,
                 frames' = frames \cup {[at |-> wpos, size |-> size,
                                         resp |-> resp, to |-> serving.id]},
                 wpos' = wpos + n, rpos' = rpos
          PROVE  frames' \in SUBSET Frames /\ wpos' \in Nat /\ rpos' \in Nat
                   /\ rpos' <= wpos'
      <4>1. wpos \in Nat /\ size \in Nat /\ serving.id \in Nat
        BY ConstantsAssumption DEF TypeOK, Requests
      <4>2. resp \in Bodies
        BY ConstantsAssumption DEF Bodies
      <4>3. [at |-> wpos, size |-> size, resp |-> resp, to |-> serving.id] \in Frames
        BY <4>1, <4>2 DEF Frames
      <4>4. wpos' \in Nat /\ rpos' \in Nat /\ rpos' <= wpos'
        BY <3>3, <4>1, ConstantsAssumption DEF TypeOK
      <4> QED
        BY <3>3, <4>3, <4>4 DEF TypeOK
    <3> QED
      BY <1>16, <3>1, <3>2, <3>3 DEF ServerHangsUp
  <2> QED
    BY <1>16, <2>1, NoneType DEF ServerHangsUp, HungUp, TypeOK, Gone
<1>17. CASE Accept
  <2>1. waking' \in BOOLEAN /\ listener' \in {"blocked", "stopped"}
    BY <1>17 DEF Accept
  <2> QED
    BY <1>17, <2>1 DEF Accept, TypeOK
<1>18. CASE UNCHANGED vars
  BY <1>18 DEF vars, TypeOK, Suits, Args
<1> QED
  BY <1>1, <1>2, <1>3, <1>4, <1>5, <1>6, <1>7, <1>8, <1>9, <1>10, <1>11, <1>12,
     <1>13, <1>14, <1>15, <1>16, <1>17, <1>18 DEF Next

\* Every variable keeps its type, and the client never reads past the stream.
THEOREM TypeCorrect == Spec => []TypeOK
  BY TypeInit, TypeStep, PTL DEF Spec

-----------------------------------------------------------------------------
(* One exchange at a time.                                                 *)

\* Every step's effect on `abandoned` is to add to it: a history in which no
\* reply was left unread was so before.
LEMMA AbandonedGrows == [Next]_vars => abandoned \subseteq abandoned'
<1> SUFFICES ASSUME [Next]_vars PROVE abandoned \subseteq abandoned'
  OBVIOUS
<1>1. ASSUME NEW result, NEW to, Return(result, to) PROVE abandoned \subseteq abandoned'
  BY <1>1 DEF Return
<1>2. CASE Connect \/ ConnectFails \/ SetReadTimeout \/ SetWriteTimeout \/ SetStatementGuard
  BY <1>2 DEF Connect, ConnectFails, SetReadTimeout, SetWriteTimeout, SetStatementGuard
<1>3. CASE \E op \in Offered : \E arg \in Args(op) : Call(op, arg)
  BY <1>3 DEF Call
<1>4. CASE WriteRequest \/ WriteTimesOut \/ WriteFails
  BY <1>4, <1>1 DEF WriteRequest, WriteTimesOut, WriteFails
<1>5. CASE ReadLength
  BY <1>5, <1>1 DEF ReadLength
<1>6. CASE ReadBody \/ ReadTimesOut \/ ReadEof
  BY <1>6, <1>1 DEF ReadBody, ReadTimesOut, ReadEof
<1>7. CASE ServerRead \/ ServerReply \/ ServerHangsUp \/ Accept
  BY <1>7 DEF ServerRead, ServerReply, ServerHangsUp, Accept
<1>8. CASE UNCHANGED vars
  BY <1>8 DEF vars
<1> QED
  BY <1>2, <1>3, <1>4, <1>5, <1>6, <1>7, <1>8 DEF Next

LEMMA CleanStep == [Next]_vars /\ Clean' => Clean
  BY AbandonedGrows DEF Clean

\* A call that returns without abandoning its reply leaves the client idle or
\* dropped, and owes nothing to the exchange but quiet.
LEMMA ReturnQuiet ==
  ASSUME NEW result, NEW to, Return(result, to)
  PROVE  /\ Quiet' => Exchange'
         /\ result \in Unread => ~Clean'
  <1>1. stage' \in {"idle", "dropped"}
    BY DEF Return
  <1>2. result \in Unread => ~Clean'
    BY DEF Return, Clean, Unread, Unknown
  <1> QED
    BY <1>1, <1>2 DEF Exchange

\* During a call its own request or its own reply is under way and nothing
\* else, and between two calls nothing is, whatever step is taken.
LEMMA ExchangeStep ==
  ASSUME TypeOK, TypeOK', Exchange, [Next]_vars
  PROVE  Exchange'
<1> SUFFICES ASSUME Clean' PROVE Exchange'
  BY DEF Exchange
<1> USE DEF config, stream, session
<1>0. Clean
  BY CleanStep
<1>1. CASE Connect
  <2>1. Quiet /\ tcp = "none"
    BY <1>0, <1>1 DEF Connect, Exchange
  <2>2. stage' \in {"idle", "write", "dropped"}
    BY <1>1 DEF Connect, Start
  <2> QED
    BY <1>1, <2>1, <2>2 DEF Connect, Exchange, Quiet
<1>2. CASE ConnectFails \/ SetReadTimeout \/ SetWriteTimeout \/ SetStatementGuard
  <2>1. stage' \in {"idle", "dropped"} /\ (stage' = "idle" => stage = "idle")
    BY <1>2 DEF ConnectFails, SetReadTimeout, SetWriteTimeout, SetStatementGuard
  <2>2. UNCHANGED <<outbox, stream, tcp, session>>
    BY <1>2 DEF ConnectFails, SetReadTimeout, SetWriteTimeout, SetStatementGuard
  <2> QED
    BY <1>0, <2>1, <2>2 DEF Exchange, Quiet
<1>3. ASSUME NEW op \in Offered, NEW arg \in Args(op), Call(op, arg)
      PROVE  Exchange'
  <2>1. stage = "idle" /\ stage' \in {"idle", "write"}
    BY <1>3 DEF Call, Start
  <2> QED
    BY <1>0, <1>3, <2>1 DEF Call, Exchange, Quiet
<1>4. CASE WriteRequest
  <2>1. Quiet /\ stage' = "length" /\ Request' = Request
    BY <1>0, <1>4 DEF WriteRequest, Exchange, Request
  <2>2. CASE tcp = "open" /\ outbox' = Append(outbox, Request) /\ tcp' = tcp
    BY <1>4, <2>1, <2>2 DEF WriteRequest, Exchange, Quiet, InFlight
  <2>3. CASE tcp = "fin" /\ tcp' \in {"fin", "broken"} /\ outbox' = outbox
    BY <1>4, <2>1, <2>3 DEF WriteRequest, Exchange, Quiet, InFlight
  <2> QED
    BY <1>4, <2>2, <2>3 DEF WriteRequest
<1>5. CASE WriteTimesOut \/ ReadTimesOut
  BY <1>5, ReturnQuiet DEF WriteTimesOut, ReadTimesOut, Unread
<1>6. CASE WriteFails
  <2>1. PICK error : Return(error, 0)
    BY <1>6 DEF WriteFails
  <2>2. Quiet
    BY <1>0, <1>6 DEF WriteFails, Exchange
  <2>3. Quiet'
    BY <1>6, <2>2 DEF WriteFails, Quiet
  <2> QED
    BY <2>1, <2>3, ReturnQuiet
<1>7. CASE ReadLength
  <2>1. InFlight /\ rpos + LengthBytes <= wpos /\ stage = "length"
    BY <1>0, <1>7 DEF ReadLength, Exchange
  <2>2. LengthBytes \in Nat /\ LengthBytes > 0 /\ rpos \in Nat /\ wpos \in Nat
    BY ConstantsAssumption DEF TypeOK
  <2>3. outbox = <<>> /\ serving = NoRequest
    BY <2>1, <2>2 DEF InFlight, Quiet
  <2>4. PICK g \in frames : /\ frames = {g} /\ g.at = rpos /\ g.to = call.id
                            /\ wpos <= rpos + LengthBytes + g.size
    BY <2>1, <2>2 DEF InFlight, Quiet
  <2>5. Announced = {g} /\ g.size \in Nat
    BY <2>4 DEF Announced, TypeOK, Frames
  <2>6. /\ rpos' = rpos + LengthBytes /\ wpos' = wpos /\ frames' = {}
        /\ UNCHANGED <<outbox, tcp, session>>
    BY <1>7, <2>2, <2>4 DEF ReadLength, Consume
  <2>7. CASE g.size = 0 /\ Return(Result(call.op, "QuietOk"), g.to)
    <3>1. Quiet'
      BY <2>1, <2>2, <2>3, <2>4, <2>6, <2>7 DEF Quiet
    <3> QED
      BY <2>7, <3>1, ReturnQuiet
  <2>8. CASE Return("ResponseTooLarge", g.to)
    BY <2>8, ReturnQuiet DEF Unread
  <2>9. CASE stage' = "body" /\ frame' = g /\ UNCHANGED call
    <3>1. HalfRead'
      BY <2>2, <2>3, <2>4, <2>5, <2>6, <2>9 DEF HalfRead
    <3> QED
      BY <2>9, <3>1 DEF Exchange
  <2> QED
    BY <1>7, <2>5, <2>7, <2>8, <2>9 DEF ReadLength
<1>8. CASE ReadBody
  <2>1. HalfRead /\ frame.size \in Nat
    BY <1>0, <1>8 DEF ReadBody, Exchange, TypeOK, Frames
  <2>2. rpos' = wpos' /\ frames' = {}
    BY <1>8, <2>1 DEF ReadBody, Consume, HalfRead, TypeOK
  <2>3. Quiet'
    BY <1>8, <2>1, <2>2 DEF ReadBody, HalfRead, Quiet
  <2> QED
    BY <1>8, <2>3, ReturnQuiet DEF ReadBody
<1>9. CASE ReadEof
  <2>1. (stage = "length" /\ InFlight) \/ (stage = "body" /\ HalfRead)
    <3>1. stage = "length" \/ stage = "body"
      BY <1>9 DEF ReadEof
    <3> QED
      BY <1>0, <3>1 DEF Exchange
  <2>2. outbox = <<>> /\ serving = NoRequest
    BY <1>9, <2>1 DEF ReadEof, InFlight, HalfRead, Quiet, Gone
  <2>3. rpos' = wpos /\ wpos' = wpos
    BY <1>9 DEF ReadEof, Consume, TypeOK
  <2>4. ASSUME tcp' \notin {"rst", "broken"} PROVE frames' = {}
    <3>1. tcp = "fin"
      BY <1>9, <2>4 DEF ReadEof, Gone
    <3>2. \A f \in frames : f.at < wpos
      BY <2>1, <3>1 DEF InFlight, HalfRead, Quiet, TypeOK
    <3>3. frames' = {f \in frames : f.at >= wpos}
      BY <1>9 DEF ReadEof, Consume, TypeOK
    <3>4. \A f \in frames : f.at \in Nat
      BY DEF TypeOK, Frames
    <3> QED
      BY <3>2, <3>3, <3>4 DEF TypeOK
  <2>5. Quiet'
    BY <1>9, <2>2, <2>3, <2>4 DEF ReadEof, Quiet
  <2> QED
    BY <1>9, <2>5, ReturnQuiet DEF ReadEof
<1>10. CASE ServerRead
  <2>1. UNCHANGED <<stage, call, frame>> /\ tcp = "open" /\ outbox # <<>>
    BY <1>10 DEF ServerRead
  <2>2. CASE stage = "length"
    <3>1. outbox = <<Request>> /\ frames = {} /\ rpos = wpos
      BY <1>0, <2>1, <2>2 DEF Exchange, InFlight, Quiet
    <3>2. outbox[1] = Request /\ Tail(outbox) = <<>> /\ ~(Len(outbox) > 1)
            /\ Request.whole
      BY <3>1 DEF Request
    <3>3. serving' = Request /\ outbox' = <<>> /\ UNCHANGED <<stream, tcp>>
      BY <1>10, <3>2 DEF ServerRead
    <3> QED
      BY <2>1, <2>2, <3>1, <3>3 DEF Exchange, InFlight, Request
  <2>3. CASE stage # "length"
    <3>1. stage = "dropped"
      BY <1>0, <2>1, <2>3 DEF Exchange, Quiet, HalfRead, TypeOK, Stages
    <3> QED
      BY <2>1, <3>1 DEF Exchange
  <2> QED
    BY <2>2, <2>3
<1>11. CASE ServerReply
  <2>1. UNCHANGED <<stage, call, frame, outbox, rpos, tcp>> /\ serving # NoRequest
          /\ serving' = NoRequest
    BY <1>11 DEF ServerReply
  <2>2. CASE stage = "length"
    <3>1. outbox = <<>> /\ serving = Request /\ frames = {} /\ rpos = wpos
      BY <1>0, <2>1, <2>2 DEF Exchange, InFlight, Quiet
    <3> PICK resp : \E f \in ReplyFrames(serving, resp) :
               frames' = frames \cup {f} /\ wpos' = wpos + LengthBytes + f.size
      BY <1>11 DEF ServerReply
    <3>2. PICK f \in ReplyFrames(serving, resp) :
            frames' = frames \cup {f} /\ wpos' = wpos + LengthBytes + f.size
      OBVIOUS
    <3>3. f.at = wpos /\ f.to = call.id /\ f.size \in Nat
      BY <3>1, ReplyFramesAre, ConstantsAssumption DEF Request
    <3>4. frames' = {f} /\ rpos' < wpos' /\ wpos' <= rpos' + LengthBytes + f.size
      <4>1. rpos' = rpos /\ wpos' = rpos + LengthBytes + f.size /\ frames' = {f}
        BY <2>1, <3>1, <3>2
      <4>2. rpos \in Nat /\ LengthBytes \in Nat /\ LengthBytes > 0
        BY ConstantsAssumption DEF TypeOK
      <4> QED
        BY <3>3, <4>1, <4>2
    <3>5. InFlight'
      BY <2>1, <3>1, <3>3, <3>4 DEF InFlight
    <3> QED
      BY <2>1, <2>2, <3>5 DEF Exchange
  <2>3. CASE stage # "length"
    <3>1. stage = "dropped"
      BY <1>0, <2>1, <2>3 DEF Exchange, Quiet, HalfRead, TypeOK, Stages
    <3> QED
      BY <2>1, <3>1 DEF Exchange
  <2> QED
    BY <2>2, <2>3
<1>12. CASE ServerHangsUp
  <2>1. /\ UNCHANGED <<stage, call, frame, rpos>> /\ tcp = "open"
        /\ tcp' \in {"fin", "rst"} /\ outbox' = <<>> /\ serving' = NoRequest
    BY <1>12 DEF ServerHangsUp, HungUp
  <2>2. \/ UNCHANGED stream
        \/ tcp' = "rst" /\ wpos' \in rpos .. wpos /\ frames' = frames
        \/ /\ serving # NoRequest
           /\ \E f \in Frames : /\ frames' = frames \cup {f} /\ f.at = wpos
                                /\ f.to = serving.id /\ wpos < wpos'
                                /\ wpos' <= wpos + LengthBytes + f.size
    <3>1. ASSUME NEW size \in BodySizes, NEW resp \in Spoken,
                 NEW n \in 1 .. LengthBytes + size - 1, serving # NoRequest,
                 frames' = frames \cup {[at |-> wpos, size |-> size,
                                         resp |-> resp, to |-> serving.id]},
                 wpos' = wpos + n
          PROVE  \E f \in Frames : /\ frames' = frames \cup {f} /\ f.at = wpos
                                   /\ f.to = serving.id /\ wpos < wpos'
                                   /\ wpos' <= wpos + LengthBytes + f.size
      <4> DEFINE f == [at |-> wpos, size |-> size, resp |-> resp, to |-> serving.id]
      <4>1. wpos \in Nat /\ size \in Nat /\ serving.id \in Nat /\ resp \in Bodies
        BY ConstantsAssumption DEF TypeOK, Requests, Bodies
      <4>2. f \in Frames
        BY <4>1 DEF Frames
      <4>3. wpos < wpos' /\ wpos' <= wpos + LengthBytes + size
        BY <3>1, <4>1, ConstantsAssumption
      <4> QED
        BY <3>1, <4>2, <4>3
    <3> QED
      BY <1>12, <3>1 DEF ServerHangsUp
  <2>3. CASE stage \in {"idle", "write"}
    <3>1. Quiet
      BY <1>0, <2>3 DEF Exchange
    <3>2. Quiet'
      BY <2>1, <2>2, <3>1 DEF Quiet, TypeOK
    <3> QED
      BY <2>1, <2>3, <3>2 DEF Exchange
  <2>4. CASE stage = "length"
    <3>1. InFlight
      BY <1>0, <2>4 DEF Exchange
    <3>2. CASE serving = NoRequest
      <4>1. UNCHANGED stream \/ (tcp' = "rst" /\ wpos' \in rpos .. wpos /\ frames' = frames)
        BY <2>2, <3>2
      <4>2. CASE frames = {} /\ rpos = wpos
        <5>1. frames' = {} /\ rpos' = wpos' /\ tcp' # "open"
          BY <2>1, <4>1, <4>2 DEF TypeOK
        <5> QED
          BY <2>1, <2>4, <5>1 DEF Exchange, InFlight, Quiet
      <4>3. CASE ~(frames = {} /\ rpos = wpos)
        <5> PICK f \in frames : /\ frames = {f} /\ f.at = rpos /\ f.to = call.id
                                 /\ wpos <= rpos + LengthBytes + f.size /\ rpos < wpos
          BY <2>1, <3>1, <4>3 DEF InFlight, Quiet
        <5>1. f.size \in Nat /\ LengthBytes \in Nat /\ rpos \in Nat /\ wpos \in Nat
          BY ConstantsAssumption DEF TypeOK, Frames
        <5>2. /\ frames' = {f} /\ wpos' <= rpos' + LengthBytes + f.size
              /\ tcp' # "rst" => rpos' < wpos'
          BY <2>1, <4>1, <5>1
        <5> QED
          BY <2>1, <2>4, <5>2 DEF Exchange, InFlight
      <4> QED
        BY <4>2, <4>3
    <3>3. CASE serving # NoRequest
      <4>1. serving = Request /\ frames = {} /\ rpos = wpos
        BY <3>1, <3>3 DEF InFlight, Quiet
      <4>2. serving.id = call.id
        BY <4>1 DEF Request
      <4> QED
        BY <2>1, <2>2, <2>4, <4>1, <4>2 DEF Exchange, InFlight, Quiet, TypeOK
    <3> QED
      BY <3>2, <3>3
  <2>5. CASE stage = "body"
    <3>1. HalfRead
      BY <1>0, <2>5 DEF Exchange
    <3>2. frames' = frames /\ wpos' <= wpos /\ wpos' \in Nat
      BY <2>2, <3>1 DEF HalfRead, TypeOK
    <3>3. frame.size \in Nat /\ rpos \in Nat /\ wpos \in Nat
      BY DEF TypeOK, Frames
    <3>4. HalfRead'
      BY <2>1, <3>1, <3>2, <3>3 DEF HalfRead
    <3> QED
      BY <2>1, <2>5, <3>4 DEF Exchange
  <2>6. CASE stage = "unconnected"
    BY <1>0, <2>1, <2>6 DEF Exchange
  <2>7. CASE stage = "dropped"
    BY <2>1, <2>7 DEF Exchange
  <2> QED
    BY <2>3, <2>4, <2>5, <2>6, <2>7 DEF TypeOK, Stages
<1>13. CASE Accept
  BY <1>0, <1>13 DEF Accept, Exchange, Quiet, InFlight, HalfRead, Request
<1>14. CASE UNCHANGED vars
  BY <1>0, <1>14 DEF vars, Exchange, Quiet, InFlight, HalfRead, Request
<1> QED
  BY <1>1, <1>2, <1>3, <1>4, <1>5, <1>6, <1>7, <1>8, <1>9, <1>10, <1>11, <1>12,
     <1>13, <1>14 DEF Next

\* A call and its one request or reply, for ever.
THEOREM OneExchange == Spec => []Exchange
<1>1. Init => Exchange
  BY DEF Init, Exchange, Quiet
<1>2. TypeOK /\ TypeOK' /\ Exchange /\ [Next]_vars => Exchange'
  BY ExchangeStep
<1> QED
  BY <1>1, <1>2, TypeCorrect, PTL DEF Spec

\* Between calls nothing of an earlier call is left on the connection, as long
\* as no call has abandoned its reply (round_trip, read_response).
THEOREM StaysInSync == Spec => []InSync
<1>1. Exchange => InSync
  BY DEF Exchange, InSync, Quiet
<1> QED
  BY <1>1, OneExchange, PTL

-----------------------------------------------------------------------------
(* Every answer goes to its own call.                                      *)

\* When a length has arrived, what follows is the reply to the current call.
LEMMA AnnouncesItsReply ==
  ASSUME TypeOK, InFlight, rpos + LengthBytes <= wpos
  PROVE  \E g \in frames : frames = {g} /\ Announced = {g} /\ g.to = call.id
  <1>1. LengthBytes \in Nat /\ LengthBytes > 0 /\ rpos \in Nat /\ wpos \in Nat
    BY ConstantsAssumption DEF TypeOK
  <1> QED
    BY <1>1 DEF InFlight, Quiet, Announced

\* Whatever step is taken, a call that reports an answer reports its own.
LEMMA AnswersStep ==
  ASSUME TypeOK, Exchange, AnswersItsRequest, [Next]_vars
  PROVE  AnswersItsRequest'
<1> SUFFICES ASSUME Clean' PROVE last'.result \in Answered => last'.to = last'.id
  BY DEF AnswersItsRequest
<1>0. Clean
  BY CleanStep
<1>1. ASSUME NEW result, NEW to, Return(result, to), result \in Answered => to = call.id
      PROVE  last'.result \in Answered => last'.to = last'.id
  BY <1>1 DEF Return
<1>2. CASE UNCHANGED last
  BY <1>0, <1>2 DEF AnswersItsRequest
<1>3. CASE Connect \/ ConnectFails \/ SetReadTimeout \/ SetWriteTimeout \/ SetStatementGuard
  BY <1>2, <1>3 DEF Connect, ConnectFails, SetReadTimeout, SetWriteTimeout, SetStatementGuard
<1>4. ASSUME NEW op \in Offered, NEW arg \in Args(op), Call(op, arg)
      PROVE  last'.result \in Answered => last'.to = last'.id
  BY <1>2, <1>4 DEF Call
<1>5. CASE WriteRequest \/ ServerRead \/ ServerReply \/ ServerHangsUp \/ Accept
  BY <1>2, <1>5 DEF WriteRequest, ServerRead, ServerReply, ServerHangsUp, Accept
<1>6. CASE WriteTimesOut \/ WriteFails
  BY <1>1, <1>6 DEF WriteTimesOut, WriteFails, Answered
<1>7. CASE ReadLength
  <2>1. PICK g \in frames : Announced = {g} /\ g.to = call.id
    BY <1>0, <1>7, AnnouncesItsReply DEF ReadLength, Exchange
  <2> QED
    BY <1>1, <1>2, <1>7, <2>1 DEF ReadLength
<1>8. CASE ReadBody
  <2>1. frame.to = call.id
    BY <1>0, <1>8 DEF ReadBody, Exchange, HalfRead
  <2> QED
    BY <1>1, <1>8, <2>1 DEF ReadBody
<1>9. CASE ReadTimesOut \/ ReadEof
  BY <1>1, <1>9 DEF ReadTimesOut, ReadEof, Answered
<1>10. CASE UNCHANGED vars
  BY <1>2, <1>10 DEF vars
<1> QED
  BY <1>3, <1>4, <1>5, <1>6, <1>7, <1>8, <1>9, <1>10 DEF Next

\* As long as no call has abandoned its reply, a call that reports what the
\* server said reports what it said to that call (round_trip).
THEOREM OwnAnswers == Spec => []AnswersItsRequest
<1>1. Init => AnswersItsRequest
  BY DEF Init, AnswersItsRequest
<1>2. TypeOK /\ Exchange /\ AnswersItsRequest /\ [Next]_vars => AnswersItsRequest'
  BY AnswersStep
<1> QED
  BY <1>1, <1>2, TypeCorrect, OneExchange, PTL DEF Spec

-----------------------------------------------------------------------------
(* What the client knows of the server.                                    *)

\* Of the two methods that change the session, the client takes exactly those
\* answers for a success that the server gives when it has carried them out.
LEMMA SameEffect ==
  ASSUME NEW resp \in Responses, database = bound
  PROVE  BoundAfter(Request, resp)
           = DatabaseAfter(call.op, call.arg, Result(call.op, resp))
  <1>1. CASE call.op \in {"use_database", "reset_server"}
    <2>1. Result(call.op, resp) = "Ok" <=> Check(resp) = "Ok"
      BY <1>1 DEF Result, Checked, Accepted, Check
    <2> QED
      BY <1>1, <2>1 DEF BoundAfter, DatabaseAfter, Request
  <1>2. CASE call.op \notin {"use_database", "reset_server"}
    BY <1>2 DEF BoundAfter, DatabaseAfter, Request
  <1> QED
    BY <1>1, <1>2

LEMMA SureStep == [Next]_vars /\ Sure' => Sure
  BY AbandonedGrows DEF Sure

LEMMA TrackingStep ==
  ASSUME TypeOK, TypeOK', Exchange, Exchange', Tracking, [Next]_vars
  PROVE  Tracking'
<1> USE DEF config, stream, session
<1> DEFINE Known ==
      Sure /\ tcp \in {"none", "open"} /\ stage # "dropped" =>
        /\ Pending = {} => database = bound
        /\ \A f \in Pending : f.resp # "Undecodable" =>
             bound = DatabaseAfter(call.op, call.arg, Result(call.op, f.resp))
    Flagged == 
      Clean => \A f \in Pending :
        /\ f.size = 0 => f.resp = "QuietOk"
        /\ call.op = "shutdown_server" /\ f.resp \in Accepted("shutdown_server")
             /\ f.at + LengthBytes + f.size <= wpos => stopping
<1>1. SUFFICES ASSUME Clean' PROVE Known' /\ Flagged'
  BY DEF Tracking, Sure, Clean
<1>2. Clean /\ (Sure' => Sure) /\ Known /\ Flagged
  BY <1>1, CleanStep, SureStep DEF Tracking
<1>3. CASE UNCHANGED <<stage, call, frame, database, frames, wpos, tcp, bound, stopping>>
  BY <1>2, <1>3 DEF Pending, DatabaseAfter
<1>4. ASSUME stage' \notin {"length", "body"},
             Sure' /\ tcp' \in {"none", "open"} /\ stage' # "dropped"
               => database' = bound'
      PROVE  Known' /\ Flagged'
  BY <1>4 DEF Pending
<1>5. CASE Connect
  <2>1. stage = "unconnected" /\ tcp = "none" /\ Pending = {}
    BY <1>2, <1>5 DEF Connect, Exchange, Pending
  <2>2. stage' \in {"idle", "write", "dropped"} /\ UNCHANGED <<database, bound, abandoned>>
    BY <1>5 DEF Connect, Start
  <2> QED
    BY <1>2, <1>4, <2>1, <2>2 DEF Sure
<1>6. CASE ConnectFails
  BY <1>4, <1>6 DEF ConnectFails
<1>7. CASE SetReadTimeout \/ SetWriteTimeout \/ SetStatementGuard \/ Accept
  BY <1>3, <1>7 DEF SetReadTimeout, SetWriteTimeout, SetStatementGuard, Accept
<1>8. ASSUME NEW op \in Offered, NEW arg \in Args(op), Call(op, arg)
      PROVE  Known' /\ Flagged'
  BY <1>2, <1>4, <1>8 DEF Call, Start, Pending
<1>9. CASE WriteRequest
  <2>1. stage' = "length" /\ frames = {} /\ frames' = {}
    BY <1>2, <1>9 DEF WriteRequest, Exchange, Quiet
  <2>2. Pending = {} /\ Pending' = {}
    BY <1>9, <2>1 DEF WriteRequest, Pending
  <2>3. tcp' = "open" => tcp = "open"
    BY <1>9 DEF WriteRequest
  <2>4. tcp' # "none"
    BY <1>9 DEF WriteRequest
  <2> QED
    BY <1>2, <1>9, <2>2, <2>3, <2>4 DEF WriteRequest
<1>10. CASE WriteTimesOut \/ ReadTimesOut
  BY <1>1, <1>10, ReturnQuiet DEF WriteTimesOut, ReadTimesOut, Unread
<1>11. CASE WriteFails
  BY <1>4, <1>11 DEF WriteFails, Return
<1>12. CASE ReadEof
  BY <1>4, <1>12 DEF ReadEof, Return, Gone
<1>13. CASE ReadLength
  <2>1. stage = "length" /\ rpos + LengthBytes <= wpos /\ InFlight
    BY <1>2, <1>13 DEF ReadLength, Exchange
  <2>2. PICK g \in frames : frames = {g} /\ Announced = {g}
    BY <2>1, AnnouncesItsReply
  <2>3. Pending = {g}
    BY <2>1, <2>2 DEF Pending
  <2>4. CASE g.size = 0 /\ Return(Result(call.op, "QuietOk"), g.to)
    <3>1. g.resp = "QuietOk"
      BY <1>2, <2>3, <2>4
    <3>2. stage' \notin {"length", "body"} /\ UNCHANGED <<tcp, bound>>
      BY <1>13, <2>4 DEF ReadLength, Return
    <3>3. database' = DatabaseAfter(call.op, call.arg, Result(call.op, g.resp))
      BY <2>4, <3>1 DEF Return
    <3> QED
      BY <1>2, <1>4, <2>1, <2>3, <3>1, <3>2, <3>3
  <2>5. CASE Return("ResponseTooLarge", g.to)
    BY <1>1, <2>5, ReturnQuiet DEF Unread
  <2>6. CASE stage' = "body" /\ frame' = g /\ UNCHANGED <<call, database, abandoned>>
    <3>1. Pending' = {g}
      BY <2>6 DEF Pending
    <3>2. UNCHANGED <<call, database, wpos, tcp, bound, stopping, abandoned>>
      BY <1>13, <2>6 DEF ReadLength, Consume
    <3> QED
      BY <1>2, <2>1, <2>3, <2>6, <3>1, <3>2 DEF DatabaseAfter
  <2> QED
    BY <1>13, <2>2, <2>4, <2>5, <2>6 DEF ReadLength
<1>14. CASE ReadBody
  <2>1. Pending = {frame} /\ stage = "body"
    BY <1>14 DEF ReadBody, Pending
  <2>2. stage' \notin {"length", "body"} /\ UNCHANGED <<tcp, bound>>
    BY <1>14 DEF ReadBody, Return
  <2>3. CASE frame.resp = "Undecodable"
    <3>1. ~Sure'
      BY <1>14, <2>3 DEF ReadBody, Return, Sure, Unknown
    <3> QED
      BY <1>4, <2>2, <3>1
  <2>4. CASE frame.resp # "Undecodable"
    <3>1. database' = DatabaseAfter(call.op, call.arg, Result(call.op, frame.resp))
      BY <1>14, <2>4 DEF ReadBody, Return
    <3> QED
      BY <1>2, <1>4, <2>1, <2>2, <2>4, <3>1
  <2> QED
    BY <2>3, <2>4
<1>15. CASE ServerRead
  <2>1. CASE UNCHANGED <<stream, tcp, bound, stopping>>
    BY <1>3, <1>15, <2>1 DEF ServerRead
  <2>2. CASE HungUp /\ UNCHANGED stream
    BY <1>2, <1>15, <2>2 DEF ServerRead, HungUp, Pending
  <2> QED
    BY <1>15, <2>1, <2>2 DEF ServerRead
<1>16. CASE ServerReply
  <2>1. UNCHANGED <<stage, call, frame, database, tcp>> /\ serving # NoRequest /\ tcp = "open"
    BY <1>16 DEF ServerReply
  <2>2. CASE stage = "length"
    <3>1. serving = Request /\ frames = {}
      BY <1>2, <2>1, <2>2 DEF Exchange, InFlight, Quiet
    <3>2. PICK resp \in Responses :
            /\ \E f \in ReplyFrames(serving, resp) : frames' = frames \cup {f}
            /\ bound' = BoundAfter(serving, resp)
            /\ stopping' = (stopping \/ (serving.op = "shutdown_server"
                                         /\ resp \in Acknowledgements("shutdown_server")))
      BY <1>16, ConstantsAssumption DEF ServerReply
    <3>3. PICK f \in ReplyFrames(serving, resp) : frames' = frames \cup {f}
      BY <3>2
    <3>4. Pending' = {f} /\ Pending = {}
      BY <2>1, <2>2, <3>1, <3>3 DEF Pending
    <3>5. f.resp \in {resp, "Undecodable"} /\ (f.size = 0 => f.resp = "QuietOk")
      BY ReplyFramesAre
    <3>6. Sure' => bound' = DatabaseAfter(call.op, call.arg, Result(call.op, resp))
      BY <1>2, <2>1, <2>2, <3>1, <3>2, <3>4, SameEffect
    <3>7. Known'
      BY <2>1, <3>4, <3>5, <3>6 DEF DatabaseAfter
    <3>8. call.op = "shutdown_server" /\ f.resp \in Accepted("shutdown_server") => stopping'
      BY <3>1, <3>2, <3>5 DEF Request, Accepted, Acknowledgements
    <3> QED
      BY <2>1, <3>4, <3>5, <3>7, <3>8
  <2>3. CASE stage # "length"
    <3>1. stage = "dropped"
      BY <1>2, <2>1, <2>3 DEF Exchange, Quiet, HalfRead, TypeOK, Stages
    <3> QED
      BY <1>4, <2>1, <3>1
  <2> QED
    BY <2>2, <2>3
<1>17. CASE ServerHangsUp
  <2>1. UNCHANGED <<stage, call, frame, stopping>> /\ tcp' \in {"fin", "rst"}
    BY <1>17 DEF ServerHangsUp, HungUp
  <2>2. Known'
    BY <2>1
  <2>3. CASE wpos' <= wpos /\ frames' = frames
    <3>1. Pending' = Pending
      BY <2>1, <2>3 DEF Pending
    <3>2. \A f \in Pending : f.at + LengthBytes + f.size <= wpos'
                               => f.at + LengthBytes + f.size <= wpos
      <4>1. Pending \subseteq Frames
        BY DEF Pending, TypeOK
      <4>2. ASSUME NEW f \in Pending, f.at + LengthBytes + f.size <= wpos'
            PROVE  f.at + LengthBytes + f.size <= wpos
        <5>1. f.at \in Nat /\ f.size \in Nat /\ LengthBytes \in Nat
          BY <4>1, ConstantsAssumption DEF Frames
        <5>2. wpos \in Nat /\ wpos' \in Nat /\ wpos' <= wpos
          BY <2>3 DEF TypeOK
        <5> QED
          BY <4>2, <5>1, <5>2
      <4> QED
        BY <4>2
    <3> QED
      BY <1>2, <2>1, <2>2, <3>1, <3>2
  <2>4. ASSUME NEW size \in BodySizes, NEW resp \in Spoken,
               NEW n \in 1 .. LengthBytes + size - 1, serving # NoRequest,
               frames' = frames \cup {[at |-> wpos, size |-> size,
                                       resp |-> resp, to |-> serving.id]},
               wpos' = wpos + n
        PROVE  Known' /\ Flagged'
    <3>1. CASE stage \notin {"length", "body"}
      BY <1>4, <2>1, <3>1
    <3>2. CASE stage = "body"
      BY <1>2, <2>4, <3>2 DEF Exchange, HalfRead
    <3>3. CASE stage = "length"
      <4> DEFINE f == [at |-> wpos, size |-> size, resp |-> resp, to |-> serving.id]
      <4>1. frames = {}
        BY <1>2, <2>4, <3>3 DEF Exchange, InFlight, Quiet
      <4>2. Pending' = {f}
        BY <2>1, <2>4, <3>3, <4>1 DEF Pending
      <4>3. f.size # 0 /\ ~(f.at + LengthBytes + f.size <= wpos')
        <5>1. wpos \in Nat /\ size \in Nat \ {0} /\ LengthBytes \in Nat
          BY ConstantsAssumption DEF TypeOK
        <5>2. n < LengthBytes + size /\ n \in Int /\ wpos' = wpos + n
          BY <2>4, <5>1
        <5>3. ~(wpos + LengthBytes + size <= wpos')
          BY <5>1, <5>2
        <5>4. f.at = wpos /\ f.size = size
          OBVIOUS
        <5> HIDE DEF f
        <5> QED
          BY <5>1, <5>3, <5>4
      <4> QED
        BY <2>2, <4>2, <4>3
    <3> QED
      BY <3>1, <3>2, <3>3
  <2>5. \/ wpos' <= wpos /\ frames' = frames
        \/ /\ serving # NoRequest
           /\ \E size \in BodySizes, resp \in Spoken :
                \E n \in 1 .. LengthBytes + size - 1 :
                  /\ frames' = frames \cup {[at |-> wpos, size |-> size,
                                             resp |-> resp, to |-> serving.id]}
                  /\ wpos' = wpos + n
    BY <1>17 DEF ServerHangsUp, TypeOK
  <2> QED
    BY <2>3, <2>4, <2>5
<1>18. CASE UNCHANGED vars
  BY <1>3, <1>18 DEF vars
<1> QED
  BY <1>5, <1>6, <1>7, <1>8, <1>9, <1>10, <1>11, <1>12, <1>13, <1>14, <1>15,
     <1>16, <1>17, <1>18 DEF Next

\* What is known of the server while a call is under way (round_trip, check).
THEOREM Tracks == Spec => []Tracking
<1>1. Init => Tracking
  BY DEF Init, Tracking, Pending
<1>2. TypeOK /\ TypeOK' /\ Exchange /\ Exchange' /\ Tracking /\ [Next]_vars => Tracking'
  BY TrackingStep
<1> QED
  BY <1>1, <1>2, TypeCorrect, OneExchange, PTL DEF Spec

\* Client::database is the database of the server's session, as long as every
\* call has had an answer it could decode (use_database, reset_server).
THEOREM DatabaseTracked == Spec => []DatabaseIsBound
<1>1. Tracking => DatabaseIsBound
  BY DEF Tracking, DatabaseIsBound, Pending
<1> QED
  BY <1>1, Tracks, PTL

-----------------------------------------------------------------------------
(* Requests and replies keep the order of the calls, whatever has been lost*)
(* or left behind on the way.                                              *)


\* The numbers that Addressed compares are natural numbers.
LEMMA NumbersAre ==
  ASSUME TypeOK
  PROVE  /\ LengthBytes \in Nat \ {0} /\ rpos \in Nat /\ wpos \in Nat
         /\ sent \in Nat /\ last.to \in Nat /\ frame \in Frames
         /\ \A f \in frames \cup {frame} : f.at \in Nat /\ f.size \in Nat /\ f.to \in Nat
         /\ \A r \in Waiting : r.id \in Nat
  <1>1. LengthBytes \in Nat \ {0} /\ rpos \in Nat /\ wpos \in Nat /\ sent \in Nat
    BY ConstantsAssumption DEF TypeOK
  <1>2. last.to \in Nat /\ frame \in Frames /\ frames \subseteq Frames
    BY DEF TypeOK
  <1>3. \A f \in Frames : f.at \in Nat /\ f.size \in Nat /\ f.to \in Nat
    BY DEF Frames
  <1>4. \A i \in 1 .. Len(outbox) : outbox[i] \in Requests
    BY DEF TypeOK
  <1>5. serving \in Requests
    BY DEF TypeOK
  <1>6. \A r \in Requests : r.id \in Nat
    BY DEF Requests
  <1>7. \A r \in Waiting : r.id \in Nat
    BY <1>4, <1>5, <1>6 DEF Waiting
  <1> QED
    BY <1>1, <1>2, <1>3, <1>7

\* Appending to a queue in order leaves it in order.
LEMMA AppendsInOrder ==
  ASSUME TypeOK, InOrder, NEW q \in Requests, outbox' = Append(outbox, q),
         serving' = serving, \A r \in Waiting : r.id < q.id
  PROVE  /\ Waiting' \subseteq Waiting \cup {q}
         /\ \A i, j \in 1 .. Len(outbox') : i < j => outbox'[i].id < outbox'[j].id
         /\ serving' # NoRequest =>
              \A i \in 1 .. Len(outbox') : serving'.id < outbox'[i].id
  <1> DEFINE n == Len(outbox)
  <1>1. outbox \in Seq(Requests) /\ n \in Nat
    BY DEF TypeOK
  <1>2. Len(outbox') = n + 1 /\ outbox'[n + 1] = q
        /\ \A i \in 1 .. n : outbox'[i] = outbox[i]
    BY <1>1
  <1>3. \A i \in 1 .. n + 1 : i = n + 1 \/ i \in 1 .. n
    BY <1>1
  <1>4. \A i \in 1 .. n : outbox[i].id < q.id
    BY DEF Waiting
  <1>5. serving # NoRequest => serving.id < q.id
    BY DEF Waiting
  <1>6. Waiting' \subseteq Waiting \cup {q}
    BY <1>1, <1>2, <1>3 DEF Waiting
  <1>7. ASSUME NEW i \in 1 .. n + 1, NEW j \in 1 .. n + 1, i < j
        PROVE  outbox'[i].id < outbox'[j].id
    <2>1. i \in 1 .. n
      BY <1>1, <1>7
    <2> QED
      BY <1>2, <1>3, <1>4, <1>7, <2>1 DEF InOrder
  <1>8. ASSUME serving' # NoRequest, NEW i \in 1 .. n + 1
        PROVE  serving'.id < outbox'[i].id
    BY <1>2, <1>3, <1>5, <1>8 DEF InOrder
  <1> QED
    BY <1>2, <1>6, <1>7, <1>8

\* What the server has done stays done, until the connection goes.
LEMMA DoneStays ==
  ASSUME NEW resp, call' = call, stopping => stopping',
         tcp' = "open" => tcp = "open" /\ bound' = bound, Done(resp)
  PROVE  Done(resp)'
  BY DEF Done, DatabaseAfter

\* A call that returns: what is left on its way is of later calls than the reply
\* it has used, and of none that is still under way.
LEMMA Returns ==
  ASSUME TypeOK, Addressed, NEW result, NEW to \in Nat, Return(result, to), Running,
         to <= sent, \A f \in frames' : to < f.to, \A r \in Waiting' : to < r.id,
         call.op = "shutdown_server" /\ result = "Ok" /\ to = call.id => stopping,
         frames' \subseteq frames, wpos' = wpos, tcp' = "open" => tcp = "open",
         UNCHANGED session,
         \A r \in Waiting' : r \in Waiting \/ r.id = sent,
         \A i, j \in 1 .. Len(outbox') : i < j => outbox'[i].id < outbox'[j].id,
         serving' # NoRequest => \A i \in 1 .. Len(outbox') : serving'.id < outbox'[i].id,
         \A r \in Waiting' : \A f \in frames' : f.to < r.id
  PROVE  Addressed'
<1> USE DEF session
<1>1. /\ call' = NoCall /\ frame' = NoFrame /\ stage' \in {"idle", "dropped"} /\ sent' = sent
      /\ last'.to = to /\ last'.id = call.id
      /\ waking' = (waking \/ (call.op = "shutdown_server" /\ result = "Ok"))
      /\ call.op = "shutdown_server" => stage' = "dropped"
  BY DEF Return, config, Consuming
<1>2. NoCall.id = 0 /\ NoFrame.to = 0
  BY DEF NoCall, NoFrame
<1>3. sent \in Nat /\ \A f \in frames : f.to \in Nat
  BY NumbersAre
<1>4. ~waking
  BY DEF Addressed, Placed, Running
<1>5. InOrder'
  <2>1. \A f \in frames' : to < f.to /\ 0 < f.to
    BY <1>3
  <2>2. \A r \in Waiting' : 0 < r.id
    <3>1. \A r \in Waiting : r.id \in Nat
      BY NumbersAre
    <3>2. \A r \in Waiting' : r.id \in Nat
      BY <1>3, <3>1
    <3> QED
      BY <3>2
  <2>3. \A f, g \in frames' : f.at < g.at => f.to < g.to
    BY DEF Addressed, InOrder
  <2> QED
    BY <1>1, <1>2, <2>1, <2>2, <2>3 DEF InOrder
<1>6. Numbered'
  <2>1. \A r \in Waiting' : r.id <= sent
    BY <1>3 DEF Addressed, Numbered
  <2>2. \A f \in frames' \cup {NoFrame} : f.to <= sent
    BY <1>2, <1>3 DEF Addressed, Numbered
  <2> QED
    BY <1>1, <1>2, <2>1, <2>2 DEF Numbered, Running
<1>7. Placed'
  <2>1. \A f \in frames' \cup {frame'} : f.to # 0 => f \in frames
    BY <1>1, <1>2
  <2>2. tcp' = "open" => \A f \in frames' \cup {frame'} : f.to # 0 => Complete(f)'
    BY <2>1 DEF Addressed, Placed, Complete
  <2> QED
    BY <1>1, <1>4, <2>2 DEF Placed
<1>8. Own'
  <2>1. \A r \in Waiting' : r.id # 0
    <3>1. \A r \in Waiting' : r.id \in Nat
      BY <1>3, NumbersAre
    <3> QED
      BY <3>1
  <2>2. \A f \in frames' \cup {frame'} : f.to # 0 => f.to # call'.id /\ f \in frames
    BY <1>1, <1>2
  <2>3. \A f \in frames' \cup {frame'} : f.to # 0 => (f.size = 0 => f.resp = "QuietOk")
    BY <2>2 DEF Addressed, Own
  <2> QED
    BY <1>1, <1>2, <2>1, <2>2, <2>3 DEF Own
<1>9. WakesAfterFlag'
  BY <1>1, <1>4 DEF WakesAfterFlag
<1> QED
  BY <1>5, <1>6, <1>7, <1>8, <1>9 DEF Addressed

\* A step that leaves requests, replies and the server's session alone.
LEMMA Undisturbed ==
  ASSUME TypeOK, Addressed,
         UNCHANGED <<frame, frames, rpos, wpos, outbox, serving, bound, stopping>>,
         stage' # "body", stage # "body", stage' # "unconnected",
         ~waking', tcp' = "open" => tcp = "open" \/ frames = {},
         \/ /\ call' = call /\ sent' = sent /\ stage' \notin {"write", "length"}
            /\ last' = last \/ last'.to = 0
         \/ /\ stage' = "write" /\ call'.id = sent' /\ sent' = sent + 1 /\ last' = last
  PROVE  Addressed'
<1>1. sent \in Nat /\ last.to \in Nat /\ frame = NoFrame /\ NoFrame.to = 0
      /\ (\A f \in frames : f.to \in Nat) /\ \A r \in Waiting : r.id \in Nat
  BY NumbersAre DEF Addressed, Placed, NoFrame
<1>2. Waiting' = Waiting
  BY DEF Waiting
<1>3. last'.to \in Nat /\ last'.to <= last.to
  BY <1>1
<1>4. InOrder'
  <2>1. \A f \in frames : last'.to < f.to
    BY <1>1, <1>3 DEF Addressed, InOrder
  <2>2. \A r \in Waiting : last'.to < r.id
    BY <1>1, <1>3 DEF Addressed, InOrder
  <2> QED
    BY <1>2, <2>1, <2>2 DEF Addressed, InOrder
<1>5. Numbered'
  <2>1. CASE call' = call /\ sent' = sent /\ stage' \notin {"write", "length"}
    BY <1>1, <1>2, <1>3, <2>1 DEF Addressed, Numbered, Running
  <2>2. CASE stage' = "write" /\ call'.id = sent' /\ sent' = sent + 1
    <3>1. \A r \in Waiting : r.id < sent + 1
      BY <1>1 DEF Addressed, Numbered
    <3>2. \A f \in frames \cup {frame} : f.to < sent + 1
      BY <1>1 DEF Addressed, Numbered
    <3>3. last'.to < sent + 1
      BY <1>1, <1>3 DEF Addressed, Numbered
    <3>4. (\A r \in Waiting : r.id <= sent + 1) /\ \A f \in frames \cup {frame} : f.to <= sent + 1
      BY <1>1, <3>1, <3>2
    <3> QED
      BY <1>2, <1>3, <1>1, <2>2, <3>1, <3>2, <3>3, <3>4 DEF Numbered
  <2> QED
    BY <2>1, <2>2
<1>6. Placed'
  BY <1>1 DEF Addressed, Placed, Complete
<1>7. Own'
  <2>1. CASE call' = call /\ sent' = sent /\ stage' \notin {"write", "length"}
    <3>1. \A f \in frames \cup {frame} : f.to # 0 /\ Done(f.resp) => Done(f.resp)'
      BY <1>1, <2>1, DoneStays
    <3> QED
      BY <1>2, <2>1, <3>1 DEF Addressed, Own, Complete
  <2>2. CASE stage' = "write" /\ call'.id = sent' /\ sent' = sent + 1
    <3>1. \A r \in Waiting : r.id # sent + 1
      BY <1>1 DEF Addressed, Numbered
    <3>2. \A f \in frames \cup {frame} : f.to # sent + 1
      BY <1>1 DEF Addressed, Numbered
    <3> QED
      BY <1>2, <2>2, <3>1, <3>2 DEF Addressed, Own
  <2> QED
    BY <2>1, <2>2
<1>8. WakesAfterFlag'
  BY DEF WakesAfterFlag
<1> QED
  BY <1>4, <1>5, <1>6, <1>7, <1>8 DEF Addressed

\* The client's steps.
LEMMA AddressedClient ==
  ASSUME TypeOK, TypeOK', Addressed, ClientStep
  PROVE  Addressed'
<1> USE DEF config, stream, session
<1>0. /\ LengthBytes \in Nat \ {0} /\ rpos \in Nat /\ wpos \in Nat /\ sent \in Nat
      /\ last.to \in Nat /\ (\A f \in frames : f.to \in Nat) /\ \A r \in Waiting : r.id \in Nat
  BY NumbersAre
<1>1. /\ \A i, j \in 1 .. Len(outbox) : i < j => outbox[i].id < outbox[j].id
      /\ serving # NoRequest => \A i \in 1 .. Len(outbox) : serving.id < outbox[i].id
      /\ \A r \in Waiting : \A f \in frames : f.to < r.id
  BY DEF Addressed, InOrder
<1>2. outbox' = outbox /\ serving' = serving => Waiting' = Waiting
  BY DEF Waiting
\* Returning without a reply.
<1>3. ASSUME NEW result, Return(result, 0), Running, frames' \subseteq frames, wpos' = wpos,
             tcp' = "open" => tcp = "open", UNCHANGED <<outbox, session>>
      PROVE  Addressed'
  <2>1. \A f \in frames' : 0 < f.to
    BY <1>0, <1>3 DEF Addressed, InOrder
  <2>2. \A r \in Waiting' : 0 < r.id
    BY <1>0, <1>2, <1>3 DEF Addressed, InOrder
  <2>3. call.id # 0
    BY <1>0, <1>3 DEF Addressed, Numbered
  <2> QED
    BY <1>0, <1>1, <1>2, <1>3, <2>1, <2>2, <2>3, Returns
\* Returning with the reply that starts, or whose body starts, where the client reads.
<1>4. ASSUME NEW result, NEW to \in Nat, Return(result, to), Running, to <= sent,
             \A f \in frames' : to < f.to, \A r \in Waiting : to < r.id,
             call.op = "shutdown_server" /\ result = "Ok" /\ to = call.id => stopping,
             frames' \subseteq frames, wpos' = wpos, UNCHANGED <<outbox, tcp, session>>
      PROVE  Addressed'
  BY <1>0, <1>1, <1>2, <1>4, Returns
<1>5. Request.id = call.id /\ Request.op = call.op /\ Request.arg = call.arg
      /\ Request \in Requests /\ [Request EXCEPT !.whole = FALSE] \in Requests
      /\ [Request EXCEPT !.whole = FALSE].id = call.id
  BY RequestType DEF Request
<1>6. stage = "write" => /\ call.id = sent /\ \A r \in Waiting : r.id < sent
                         /\ \A f \in frames \cup {frame} : f.to < sent
  BY DEF Addressed, Numbered, Running
<1>7. CASE WriteRequest
  <2>1. /\ stage = "write" /\ stage' = "length" /\ frame' = frame /\ frames' = frames
        /\ UNCHANGED <<call, rpos, wpos, serving, bound, stopping, waking, last, sent>>
        /\ (tcp' = "open" => tcp = "open")
        /\ outbox' = Append(outbox, Request) \/ outbox' = outbox
    BY <1>7 DEF WriteRequest
  <2>2. /\ Waiting' \subseteq Waiting \cup {Request}
        /\ \A i, j \in 1 .. Len(outbox') : i < j => outbox'[i].id < outbox'[j].id
        /\ serving' # NoRequest =>
             \A i \in 1 .. Len(outbox') : serving'.id < outbox'[i].id
    <3>1. CASE outbox' = Append(outbox, Request)
      BY <1>5, <1>6, <2>1, <3>1, AppendsInOrder DEF Addressed
    <3>2. CASE outbox' = outbox
      BY <1>1, <1>2, <2>1, <3>2
    <3> QED
      BY <2>1, <3>1, <3>2
  <2>3. frame = NoFrame /\ NoFrame.to = 0 /\ last.to < sent
    BY <2>1 DEF Addressed, Placed, Numbered, Running, NoFrame
  <2>4. InOrder'
    <3>1. \A r \in Waiting' : last.to < r.id /\ frame.to < r.id /\ \A f \in frames : f.to < r.id
      BY <1>5, <1>6, <2>1, <2>2, <2>3 DEF Addressed, InOrder
    <3> QED
      BY <2>1, <2>2, <3>1 DEF Addressed, InOrder
  <2>5. Numbered'
    <3>1. \A r \in Waiting' : r.id <= sent
      BY <1>0, <1>5, <1>6, <2>1, <2>2 DEF Addressed, Numbered
    <3> QED
      BY <2>1, <2>3, <3>1, <1>6 DEF Addressed, Numbered, Running
  <2>6. Placed'
    BY <2>1 DEF Addressed, Placed, Complete
  <2>7. Own'
    <3>1. \A f \in frames \cup {frame} : f.to # call.id
      BY <1>0, <1>6, <2>1, <2>3
    <3> QED
      BY <1>5, <2>1, <2>2, <3>1 DEF Addressed, Own
  <2>8. WakesAfterFlag'
    BY <2>1 DEF Addressed, WakesAfterFlag
  <2> QED
    BY <2>4, <2>5, <2>6, <2>7, <2>8 DEF Addressed
<1>8. CASE WriteTimesOut
  <2> DEFINE q == [Request EXCEPT !.whole = FALSE]
  <2>1. /\ stage = "write" /\ Return("TimedOut", 0) /\ UNCHANGED <<stream, tcp, session>>
        /\ outbox' = Append(outbox, q) \/ outbox' = outbox
    BY <1>8 DEF WriteTimesOut
  <2>2. CASE outbox' = outbox
    BY <1>3, <2>1, <2>2 DEF Running
  <2>3. CASE outbox' = Append(outbox, q)
    <3>1. q \in Requests /\ q.id = sent /\ \A r \in Waiting : r.id < q.id
      BY <1>5, <1>6, <2>1
    <3> HIDE DEF q
    <3>2. /\ Waiting' \subseteq Waiting \cup {q}
          /\ \A i, j \in 1 .. Len(outbox') : i < j => outbox'[i].id < outbox'[j].id
          /\ serving' # NoRequest =>
               \A i \in 1 .. Len(outbox') : serving'.id < outbox'[i].id
      BY <2>1, <2>3, <3>1, AppendsInOrder DEF Addressed
    <3>3. sent > 0 /\ call.id = sent
      BY <1>0, <1>6, <2>1 DEF Addressed, Numbered, Running
    <3>4. \A f \in frames : 0 < f.to
      BY <1>0 DEF Addressed, InOrder
    <3>5. \A r \in Waiting' : (r \in Waiting \/ r.id = sent) /\ 0 < r.id
      BY <1>0, <3>1, <3>2, <3>3 DEF Addressed, InOrder
    <3>6. \A r \in Waiting' : \A f \in frames' : f.to < r.id
      BY <1>1, <1>6, <2>1, <3>1, <3>2
    <3> QED
      BY <1>0, <2>1, <3>2, <3>3, <3>4, <3>5, <3>6, Returns DEF Running
  <2> QED
    BY <2>1, <2>2, <2>3
<1>9. CASE WriteFails
  BY <1>3, <1>9 DEF WriteFails, Running
<1>10. CASE ReadTimesOut
  <2>1. frames' \subseteq frames /\ wpos' = wpos
    BY <1>10 DEF ReadTimesOut, Consume
  <2> QED
    BY <1>3, <1>10, <2>1 DEF ReadTimesOut, Running
<1>11. CASE ReadEof
  <2>1. frames' \subseteq frames /\ wpos' = wpos /\ (tcp' = "open" => tcp = "open")
    BY <1>11 DEF ReadEof, Consume
  <2> QED
    BY <1>3, <1>11, <2>1 DEF ReadEof, Running
<1>12. CASE ReadBody
  <2>1. /\ stage = "body" /\ rpos + frame.size <= wpos /\ frames' \subseteq frames /\ wpos' = wpos
        /\ UNCHANGED <<outbox, tcp, session>>
    BY <1>12 DEF ReadBody, Consume
  <2>2. frame.to \in Nat /\ frame.at \in Nat /\ frame.size \in Nat
    BY NumbersAre
  <2>3. /\ \A f \in frames' : frame.to < f.to
        /\ \A r \in Waiting : frame.to < r.id
        /\ frame.to <= sent
    BY <2>1 DEF Addressed, InOrder, Numbered
  <2>4. CASE frame.resp = "Undecodable"
    BY <1>4, <1>12, <2>1, <2>2, <2>3, <2>4 DEF ReadBody, Running
  <2>5. CASE frame.resp # "Undecodable"
    <3>1. ASSUME call.op = "shutdown_server", Result(call.op, frame.resp) = "Ok",
                 frame.to = call.id
          PROVE  stopping
      <4>1. frame.to # 0
        BY <1>0, <2>1, <3>1 DEF Addressed, Numbered, Running
      <4>2. frame.at + LengthBytes = rpos
        BY <2>1, <4>1 DEF Addressed, Placed
      <4>3. Complete(frame)
        BY <1>0, <2>1, <2>2, <4>2 DEF Complete
      <4>4. Done(frame.resp)
        BY <2>5, <3>1, <4>1, <4>3 DEF Addressed, Own
      <4> QED
        BY <3>1, <4>4 DEF Done
    <3> QED
      BY <1>4, <1>12, <2>1, <2>2, <2>3, <2>5, <3>1 DEF ReadBody, Running
  <2> QED
    BY <2>4, <2>5
<1>13. CASE ReadLength
  <2>1. /\ stage = "length" /\ rpos + LengthBytes <= wpos /\ wpos' = wpos
        /\ rpos' = rpos + LengthBytes
        /\ frames' = {f \in frames : f.at >= rpos + LengthBytes}
        /\ UNCHANGED <<outbox, tcp, session>>
    BY <1>13 DEF ReadLength, Consume
  <2>2. PICK f \in Announced :
          \/ f.size = 0 /\ Return(Result(call.op, "QuietOk"), f.to)
          \/ f.size > MaxResponse /\ Return("ResponseTooLarge", f.to)
          \/ /\ f.size # 0 /\ f.size <= MaxResponse
             /\ stage' = "body" /\ frame' = f
             /\ UNCHANGED <<call, building, database, config, waking, sent, last, abandoned>>
    BY <1>13 DEF ReadLength
  <2>3. f \in Frames /\ f.to \in Nat /\ f.at \in Nat /\ f.size \in Nat
    BY AnnouncedType DEF Frames
  <2>4. f.to = 0 \/ (f \in frames /\ f.at = rpos)
    BY DEF Announced, Phantoms
  <2>5. \A g \in frames' : g \in frames /\ f.to < g.to
    <3>1. \A g \in frames' : g \in frames /\ rpos < g.at
      BY <1>0, <2>1, NumbersAre
    <3>2. \A g \in frames : 0 < g.to
      BY <1>0 DEF Addressed, InOrder
    <3> QED
      BY <2>4, <3>1, <3>2 DEF Addressed, InOrder
  <2>6. (\A r \in Waiting : f.to < r.id) /\ f.to <= sent
    <3>1. \A r \in Waiting : 0 < r.id
      BY <1>0 DEF Addressed, InOrder
    <3> QED
      BY <1>0, <2>4, <3>1 DEF Addressed, InOrder, Numbered
  <2>7. call.id # 0 /\ Running
    BY <1>0, <2>1 DEF Addressed, Numbered, Running
  <2>8. CASE f.size = 0 /\ Return(Result(call.op, "QuietOk"), f.to)
    <3>1. ASSUME call.op = "shutdown_server", f.to = call.id
          PROVE  stopping
      <4>1. f \in frames /\ f.at = rpos /\ f.to # 0
        BY <2>4, <2>7, <3>1
      <4>2. f.resp = "QuietOk"
        BY <2>8, <4>1 DEF Addressed, Own
      <4>3. Complete(f)
        BY <1>0, <2>1, <2>8, <4>1 DEF Complete
      <4>4. Done("QuietOk")
        BY <3>1, <4>1, <4>2, <4>3 DEF Addressed, Own
      <4>5. Result("shutdown_server", "QuietOk") = "Ok"
        BY DEF Result, Checked, Accepted
      <4> QED
        BY <3>1, <4>4, <4>5 DEF Done
    <3> QED
      BY <1>4, <2>1, <2>3, <2>5, <2>6, <2>7, <2>8, <3>1
  <2>9. CASE f.size > MaxResponse /\ Return("ResponseTooLarge", f.to)
    BY <1>4, <2>1, <2>3, <2>5, <2>6, <2>7, <2>9
  <2>10. CASE /\ stage' = "body" /\ frame' = f
              /\ UNCHANGED <<call, building, database, config, waking, sent, last, abandoned>>
    <3>1. Waiting' = Waiting
      BY <1>2, <2>1
    <3>2. last.to < sent /\ call.id = sent
      BY <2>7 DEF Addressed, Numbered
    <3>3. InOrder'
      BY <2>1, <2>5, <2>6, <2>10, <3>1 DEF Addressed, InOrder
    <3>4. Numbered'
      BY <2>5, <2>6, <2>10, <3>1, <3>2 DEF Addressed, Numbered, Running
    <3>5. Placed'
      <4>1. f.to # 0 => f.at + LengthBytes = rpos'
        BY <2>1, <2>4
      <4>2. tcp' = "open" => \A g \in frames' \cup {f} : g.to # 0 => Complete(g)'
        BY <2>1, <2>4, <2>5 DEF Addressed, Placed, Complete
      <4> QED
        BY <2>1, <2>10, <4>1, <4>2 DEF Addressed, Placed
    <3>6. Own'
      <4>1. \A g \in frames' \cup {f} : g.to # 0 => g \in frames
        BY <2>4, <2>5
      <4>2. \A g \in frames : Done(g.resp) => Done(g.resp)'
        BY <2>1, <2>10, DoneStays
      <4>3. \A g \in frames : Complete(g)' => Complete(g)
        BY <2>1 DEF Complete
      <4> QED
        BY <2>10, <3>1, <4>1, <4>2, <4>3 DEF Addressed, Own
    <3>7. WakesAfterFlag'
      BY <2>1, <2>10 DEF Addressed, WakesAfterFlag
    <3> QED
      BY <3>3, <3>4, <3>5, <3>6, <3>7 DEF Addressed
  <2> QED
    BY <2>2, <2>8, <2>9, <2>10
<1> QED
  BY <1>7, <1>8, <1>9, <1>10, <1>11, <1>12, <1>13 DEF ClientStep
\* The server answers no request: at most less is under way than before.
LEMMA LessUnderway ==
  ASSUME TypeOK, Addressed, tcp = "open", wpos' \in Nat, wpos' <= wpos, frames' = frames,
         UNCHANGED <<stage, call, frame, rpos, stopping, waking, sent, last>>,
         tcp' = "open" => bound' = bound /\ wpos' = wpos,
         Waiting' \subseteq Waiting,
         \A i, j \in 1 .. Len(outbox') : i < j => outbox'[i].id < outbox'[j].id,
         serving' # NoRequest => \A i \in 1 .. Len(outbox') : serving'.id < outbox'[i].id
  PROVE  Addressed'
<1>1. InOrder' /\ Numbered'
  BY DEF Addressed, InOrder, Numbered, Running
<1>2. Placed'
  BY DEF Addressed, Placed, Complete
<1>3. Own'
  <2>1. \A f \in frames \cup {frame} : Done(f.resp) => Done(f.resp)'
    BY DoneStays
  <2>2. \A f \in frames \cup {frame} : Complete(f)' => Complete(f)
    <3>1. \A f \in frames \cup {frame} : f.at + LengthBytes + f.size \in Nat
      BY NumbersAre
    <3>2. wpos \in Nat
      BY DEF TypeOK
    <3> QED
      BY <3>1, <3>2 DEF Complete
  <2> QED
    BY <2>1, <2>2 DEF Addressed, Own
<1>4. WakesAfterFlag'
  BY DEF Addressed, WakesAfterFlag
<1> QED
  BY <1>1, <1>2, <1>3, <1>4 DEF Addressed

\* The server answers, to the end or not, the request it works on.
LEMMA MoreUnderway ==
  ASSUME TypeOK, Addressed, tcp = "open", serving # NoRequest, NEW g \in Frames,
         g.at = wpos, g.to = serving.id, g.size = 0 => g.resp = "QuietOk",
         frames' = frames \cup {g}, wpos' \in Nat, wpos <= wpos',
         UNCHANGED <<stage, call, frame, rpos, waking, sent, last>>,
         stopping => stopping', outbox' \in {outbox, <<>>}, serving' = NoRequest,
         tcp' = "open" => Complete(g)',
         g.to = call.id /\ g.resp # "Undecodable" /\ Complete(g)' => Done(g.resp)'
  PROVE  Addressed'
<1>0. /\ LengthBytes \in Nat /\ wpos \in Nat /\ sent \in Nat /\ last.to \in Nat
      /\ \A f \in frames \cup {frame} : f.at \in Nat /\ f.size \in Nat /\ f.to \in Nat
      /\ \A r \in Waiting : r.id \in Nat
  BY NumbersAre
<1>1. serving \in Waiting /\ Waiting' \subseteq Waiting
  BY DEF Waiting
<1>2. /\ last.to < g.to /\ frame.to < g.to /\ \A f \in frames : f.to < g.to
      /\ g.to <= sent /\ (stage = "write" => g.to < sent)
  BY <1>1 DEF Addressed, InOrder, Numbered
<1>3. \A f \in frames : f.at < wpos
  <2>1. \A f \in frames : f.to # 0
    BY <1>0 DEF Addressed, InOrder
  <2>2. \A f \in frames : f.at + LengthBytes + f.size <= wpos
    BY <2>1 DEF Addressed, Placed, Complete
  <2>3. LengthBytes > 0
    BY ConstantsAssumption
  <2> QED
    BY <1>0, <2>2, <2>3
<1>4. \A i \in 1 .. Len(outbox') : outbox' = outbox /\ outbox[i] \in Waiting
  BY DEF Waiting
<1>5. InOrder'
  <2>1. \A f, h \in frames' : f.at < h.at => f.to < h.to
    BY <1>0, <1>2, <1>3 DEF Addressed, InOrder
  <2>2. \A f \in frames' : last.to < f.to /\ frame.to < f.to
    BY <1>2 DEF Addressed, InOrder
  <2>3. \A r \in Waiting' : r \in Waiting /\ g.to < r.id
    <3>1. \A r \in Waiting' : \E i \in 1 .. Len(outbox') : r = outbox'[i]
      BY DEF Waiting
    <3>2. \A i \in 1 .. Len(outbox') : serving.id < outbox'[i].id
      BY <1>4 DEF Addressed, InOrder
    <3> QED
      BY <1>1, <3>1, <3>2
  <2>4. \A i, j \in 1 .. Len(outbox') : i < j => outbox'[i].id < outbox'[j].id
    BY <1>4 DEF Addressed, InOrder
  <2>5. \A r \in Waiting' :
          last.to < r.id /\ frame.to < r.id /\ \A f \in frames' : f.to < r.id
    BY <2>3 DEF Addressed, InOrder
  <2> QED
    BY <2>1, <2>2, <2>4, <2>5 DEF InOrder
<1>6. Numbered'
  BY <1>1, <1>2 DEF Addressed, Numbered, Running
<1>7. Placed'
  <2>1. ASSUME tcp' = "open", NEW f \in frames \cup {frame}, f.to # 0
        PROVE  Complete(f)'
    <3>1. f.at + LengthBytes + f.size <= wpos /\ f.at + LengthBytes + f.size \in Nat
      BY <1>0, <2>1 DEF Addressed, Placed, Complete
    <3> QED
      BY <1>0, <3>1 DEF Complete
  <2> QED
    BY <2>1 DEF Addressed, Placed
<1>8. Own'
  <2>1. \A f \in frames \cup {frame} : f.to # 0 => f.to # call.id
    <3>1. \A f \in frames \cup {frame} : f.to < sent
      <4>1. g.to \in Nat
        BY DEF Frames
      <4> QED
        BY <1>0, <1>2, <4>1
    <3>2. call.id \in {0, sent}
      BY DEF Addressed, Numbered
    <3> QED
      BY <1>0, <3>1, <3>2
  <2> QED
    BY <1>1, <2>1 DEF Addressed, Own
<1>9. WakesAfterFlag'
  BY DEF Addressed, WakesAfterFlag
<1> QED
  BY <1>5, <1>6, <1>7, <1>8, <1>9 DEF Addressed

\* What the server does with a request by the time it has answered it.
LEMMA ServesWhatItSays ==
  ASSUME TypeOK, Addressed, tcp = "open", UNCHANGED <<call, database>>,
         NEW resp \in Replies(serving.op, bound # NoDatabase) \cap Spoken,
         serving.op = call.op, serving.arg = call.arg,
         bound' = BoundAfter(serving, resp),
         stopping' = (stopping \/ (serving.op = "shutdown_server"
                                   /\ resp \in Acknowledgements("shutdown_server")))
  PROVE  Done(resp)'
<1>1. CASE call.op = "shutdown_server"
  <2>1. Result(call.op, resp) = "Ok" => resp \in Acknowledgements("shutdown_server")
    BY <1>1 DEF Result, Checked, Accepted, Acknowledgements
  <2> QED
    BY <1>1, <2>1 DEF Done
<1>2. CASE call.op \in {"use_database", "reset_server"}
  <2>1. Result(call.op, resp) = "Ok" => Check(resp) = "Ok"
    BY <1>2 DEF Result, Checked
  <2>2. Check(resp) = "Ok" => bound' = DatabaseAfter(call.op, call.arg, "Ok")
    BY <1>2 DEF BoundAfter, DatabaseAfter
  <2>3. DatabaseAfter(call.op, call.arg, "Ok")' = DatabaseAfter(call.op, call.arg, "Ok")
    BY DEF DatabaseAfter
  <2> QED
    BY <1>2, <2>1, <2>2, <2>3 DEF Done
<1>3. CASE call.op \notin {"shutdown_server", "use_database", "reset_server"}
  BY <1>3 DEF Done
<1> QED
  BY <1>1, <1>2, <1>3

\* The server's steps.
LEMMA AddressedServer ==
  ASSUME TypeOK, TypeOK', Addressed, ServerRead \/ ServerReply \/ ServerHangsUp
  PROVE  Addressed'
<1> USE DEF config, stream, session
<1>0. /\ rpos \in Nat /\ wpos \in Nat /\ LengthBytes \in Nat
      /\ rpos' \in Nat /\ wpos' \in Nat
  BY ConstantsAssumption DEF TypeOK
<1>1. CASE ServerRead
  <2>1. tcp = "open" /\ UNCHANGED <<stage, call, frame, rpos, wpos, frames, stopping,
                                    waking, sent, last>>
    BY <1>1 DEF ServerRead, HungUp
  <2>2. CASE /\ serving' = outbox[1] /\ outbox' = Tail(outbox)
             /\ UNCHANGED <<stream, tcp, bound, stopping, listener>>
    <3>1. outbox \in Seq(Requests) /\ outbox # <<>>
      BY <1>1 DEF ServerRead, TypeOK
    <3>2. Len(outbox') = Len(outbox) - 1 /\ Len(outbox) \in Nat /\ Len(outbox) > 0
      BY <2>2, <3>1
    <3>3. \A i \in 1 .. Len(outbox') : outbox'[i] = outbox[i + 1] /\ i + 1 \in 1 .. Len(outbox)
      BY <2>2, <3>1, <3>2
    <3>4. 1 \in 1 .. Len(outbox)
      BY <3>2
    <3>5. Waiting' \subseteq Waiting
      BY <2>2, <3>3, <3>4 DEF Waiting
    <3>6. \A i, j \in 1 .. Len(outbox') : i < j => outbox'[i].id < outbox'[j].id
      BY <3>2, <3>3 DEF Addressed, InOrder
    <3>7. \A i \in 1 .. Len(outbox') : serving'.id < outbox'[i].id
      <4>1. \A i \in 1 .. Len(outbox') : 1 < i + 1
        BY <3>2
      <4>2. \A i \in 1 .. Len(outbox') : outbox[1].id < outbox[i + 1].id
        BY <3>3, <3>4, <4>1 DEF Addressed, InOrder
      <4>3. serving' = outbox[1]
        BY <2>2
      <4> QED
        BY <3>3, <4>2, <4>3
    <3>8. bound' = bound
      BY <2>2
    <3> QED
      BY <1>0, <2>1, <3>5, <3>6, <3>7, <3>8, LessUnderway
  <2>3. CASE HungUp
    <3>1. outbox' = <<>> /\ serving' = NoRequest /\ tcp' # "open"
      BY <2>3 DEF HungUp
    <3>2. Waiting' = {}
      BY <3>1 DEF Waiting
    <3> QED
      BY <1>0, <2>1, <3>1, <3>2, LessUnderway
  <2> QED
    BY <1>1, <2>2, <2>3 DEF ServerRead
<1>2. CASE ServerReply
  <2>1. /\ tcp = "open" /\ serving # NoRequest /\ serving' = NoRequest
        /\ UNCHANGED <<stage, call, frame, database, waking, outbox, rpos, tcp, sent, last>>
    BY <1>2 DEF ServerReply
  <2>2. PICK resp \in Replies(serving.op, bound # NoDatabase) \cap Spoken :
          /\ \E g \in ReplyFrames(serving, resp) :
               frames' = frames \cup {g} /\ wpos' = wpos + LengthBytes + g.size
          /\ bound' = BoundAfter(serving, resp)
          /\ stopping' = (stopping \/ (serving.op = "shutdown_server"
                                       /\ resp \in Acknowledgements("shutdown_server")))
    BY <1>2 DEF ServerReply
  <2>3. PICK g \in ReplyFrames(serving, resp) :
          frames' = frames \cup {g} /\ wpos' = wpos + LengthBytes + g.size
    BY <2>2
  <2>4. g \in Frames
    BY <2>2, ReplyFramesType, ConstantsAssumption
  <2>5. /\ g.at = wpos /\ g.to = serving.id /\ (g.size = 0 => g.resp = "QuietOk")
        /\ g.resp \in {resp, "Undecodable"}
    BY ReplyFramesAre
  <2>6. g.size \in Nat /\ g.to \in Nat
    BY <2>4 DEF Frames
  <2>7. wpos <= wpos' /\ Complete(g)'
    BY <1>0, <2>3, <2>5, <2>6 DEF Complete
  <2>8. ASSUME g.to = call.id, g.resp # "Undecodable"
        PROVE  Done(g.resp)'
    <3>1. serving \in Waiting /\ serving.id = call.id
      BY <2>1, <2>5, <2>8 DEF Waiting
    <3>2. serving.op = call.op /\ serving.arg = call.arg
      BY <3>1 DEF Addressed, Own
    <3>3. Done(resp)'
      BY <2>1, <2>2, <3>2, ServesWhatItSays
    <3> QED
      BY <2>5, <2>8, <3>3
  <2> QED
    BY <1>0, <2>1, <2>2, <2>3, <2>4, <2>5, <2>7, <2>8, MoreUnderway
<1>3. CASE ServerHangsUp
  <2>1. /\ tcp = "open" /\ tcp' # "open" /\ outbox' = <<>> /\ serving' = NoRequest
        /\ UNCHANGED <<stage, call, frame, rpos, stopping, waking, sent, last>>
    BY <1>3 DEF ServerHangsUp, HungUp
  <2>2. Waiting' = {}
    BY <2>1 DEF Waiting
  <2>3. CASE frames' = frames /\ wpos' <= wpos
    BY <1>0, <2>1, <2>2, <2>3, LessUnderway
  <2>4. ASSUME serving # NoRequest, NEW size \in BodySizes, NEW resp \in Spoken,
               NEW n \in 1 .. LengthBytes + size - 1,
               frames' = frames \cup {[at |-> wpos, size |-> size,
                                       resp |-> resp, to |-> serving.id]},
               wpos' = wpos + n
        PROVE  Addressed'
    <3>1. size \in Nat \ {0} /\ resp \in Bodies /\ serving.id \in Nat
      BY ConstantsAssumption DEF TypeOK, Requests, Bodies
    <3>2. PICK g \in Frames :
            g = [at |-> wpos, size |-> size, resp |-> resp, to |-> serving.id]
      BY <1>0, <3>1 DEF Frames
    <3>3. g.at = wpos /\ g.to = serving.id /\ g.size = size /\ frames' = frames \cup {g}
      BY <2>4, <3>2
    <3>4. ~Complete(g)' /\ wpos <= wpos'
      BY <1>0, <2>4, <3>1, <3>3 DEF Complete
    <3> QED
      BY <1>0, <2>1, <2>4, <3>1, <3>3, <3>4, MoreUnderway
  <2>5. \/ frames' = frames /\ wpos' <= wpos
        \/ /\ serving # NoRequest
           /\ \E size \in BodySizes, resp \in Spoken :
                \E n \in 1 .. LengthBytes + size - 1 :
                  /\ frames' = frames \cup {[at |-> wpos, size |-> size,
                                             resp |-> resp, to |-> serving.id]}
                  /\ wpos' = wpos + n
    BY <1>0, <1>3 DEF ServerHangsUp
  <2> QED
    BY <2>3, <2>4, <2>5
<1> QED
  BY <1>1, <1>2, <1>3

\* Every step keeps requests and replies in the order of the calls.
LEMMA AddressedStep ==
  ASSUME TypeOK, TypeOK', Addressed, [Next]_vars
  PROVE  Addressed'
<1> USE DEF config, stream, session
<1>0. sent \in Nat
  BY DEF TypeOK
<1>1. CASE Connect
  <2>1. /\ stage = "unconnected" /\ frames = {} /\ ~waking
        /\ UNCHANGED <<frame, frames, rpos, wpos, outbox, serving, bound, stopping,
                       waking, last>>
    BY <1>1 DEF Connect, Addressed, Placed
  <2>2. CASE stage' \in {"idle", "dropped"} /\ UNCHANGED <<call, sent>>
    BY <2>1, <2>2, Undisturbed
  <2>3. ASSUME NEW raw \in RawNames, Start("use_database", raw)
        PROVE  Addressed'
    <3>1. stage' = "write" /\ call'.id = sent' /\ sent' = sent + 1
      BY <2>3 DEF Start
    <3> QED
      BY <2>1, <3>1, Undisturbed
  <2> QED
    BY <1>1, <2>2, <2>3 DEF Connect
<1>2. CASE ConnectFails
  <2>1. ~waking
    BY <1>2 DEF ConnectFails, Addressed, Placed
  <2> QED
    BY <1>2, <2>1, Undisturbed DEF ConnectFails
<1>3. CASE SetReadTimeout \/ SetWriteTimeout \/ SetStatementGuard
  <2>1. /\ stage = "idle"
        /\ UNCHANGED <<stage, call, frame, frames, rpos, wpos, tcp, outbox, serving,
                       bound, stopping, waking, last, sent>>
    BY <1>3 DEF SetReadTimeout, SetWriteTimeout, SetStatementGuard
  <2>2. ~waking
    BY <2>1 DEF Addressed, Placed
  <2> QED
    BY <2>1, <2>2, Undisturbed
<1>4. ASSUME NEW op \in Offered, NEW arg \in Args(op), Call(op, arg)
      PROVE  Addressed'
  <2>1. /\ stage = "idle"
        /\ UNCHANGED <<frame, frames, rpos, wpos, tcp, outbox, serving, bound,
                       stopping, waking>>
    BY <1>4 DEF Call
  <2>2. ~waking
    BY <2>1 DEF Addressed, Placed
  <2>3. CASE Start(op, arg) /\ UNCHANGED last
    <3>1. stage' = "write" /\ call'.id = sent' /\ sent' = sent + 1
      BY <2>3 DEF Start
    <3> QED
      BY <2>1, <2>2, <2>3, <3>1, Undisturbed
  <2>4. CASE /\ last' = [id |-> 0, result |-> LocalError(op, arg), to |-> 0]
             /\ UNCHANGED <<stage, call, sent>>
    <3>1. last'.to = 0
      BY <2>4
    <3> QED
      BY <2>1, <2>2, <2>4, <3>1, Undisturbed
  <2> QED
    BY <1>4, <2>3, <2>4 DEF Call
<1>5. CASE ClientStep
  BY <1>5, AddressedClient
<1>6. CASE ServerRead \/ ServerReply \/ ServerHangsUp
  BY <1>6, AddressedServer
<1>7. CASE Accept \/ UNCHANGED vars
  <2>1. /\ UNCHANGED <<stage, call, frame, frames, rpos, wpos, tcp, outbox, serving,
                       bound, stopping, last, sent, database>>
        /\ waking' => waking
    BY <1>7 DEF Accept, vars
  <2>2. InOrder' /\ Numbered' /\ Placed' /\ WakesAfterFlag'
    BY <2>1 DEF Addressed, InOrder, Numbered, Placed, WakesAfterFlag, Waiting, Running,
                Complete
  <2>3. Own'
    BY <2>1 DEF Addressed, Own, Waiting, Complete, Done, DatabaseAfter
  <2> QED
    BY <2>2, <2>3 DEF Addressed
<1> QED
  BY <1>1, <1>2, <1>3, <1>4, <1>5, <1>6, <1>7 DEF Next, ClientStep

\* Requests and replies keep the order of the calls.
THEOREM AlwaysAddressed == Spec => []Addressed
<1>1. Init => Addressed
  <2> SUFFICES ASSUME Init PROVE Addressed
    OBVIOUS
  <2>1. Waiting = {} /\ frames = {} /\ NoFrame.to = 0 /\ NoCall.id = 0
    BY DEF Init, Waiting, NoFrame, NoCall
  <2> QED
    BY <2>1 DEF Init, Addressed, InOrder, Numbered, Placed, Own, WakesAfterFlag, Running
<1>2. TypeOK /\ TypeOK' /\ Addressed /\ [Next]_vars => Addressed'
  BY AddressedStep
<1> QED
  BY <1>1, <1>2, TypeCorrect, PTL DEF Spec

\* What is late is nothing worse: whatever has timed out, been too large or not
\* decoded before, no reply answers two calls, nor a call older than one answered,
\* and no request is carried out twice (write_request, read_response).
THEOREM ArrivesInOrder == Spec => []InOrder
<1>1. Addressed => InOrder
  BY DEF Addressed
<1> QED
  BY <1>1, AlwaysAddressed, PTL

\* Where shutdown_server has the answer to its own request, the server has raised
\* its flag by the time the wake-up connection waits in the backlog, whatever has
\* gone wrong in calls before it (shutdown_server).
THEOREM WakesInTime == Spec => []WakesAfterFlag
<1>1. Addressed => WakesAfterFlag
  BY DEF Addressed
<1> QED
  BY <1>1, AlwaysAddressed, PTL

\* A use_database or reset_server that returns Ok with its own reply has recorded
\* what the server has done.
LEMMA SettlesStep ==
  ASSUME TypeOK, TypeOK', Addressed, [Next]_vars,
         call.op \in {"use_database", "reset_server"}, call' = NoCall,
         last'.result = "Ok", last'.to = call.id, tcp = "open"
  PROVE  database' = bound'
<1> USE DEF config, stream, session
<1>0. LengthBytes \in Nat /\ rpos \in Nat /\ wpos \in Nat /\ call.id \in Nat
  BY ConstantsAssumption DEF TypeOK
<1>1. call # NoCall /\ call.op # "none"
  BY DEF NoCall
<1>2. ASSUME NEW f \in frames \cup {frame}, f.to = call.id, call.id # 0, Complete(f),
             f.resp # "Undecodable", Result(call.op, f.resp) = "Ok",
             Return("Ok", f.to), bound' = bound
      PROVE  database' = bound'
  <2>1. Done(f.resp)
    BY <1>2 DEF Addressed, Own
  <2> QED
    BY <1>2, <2>1 DEF Done, Return
<1>3. ASSUME NEW result, NEW to, result # "Ok", Return(result, to)
      PROVE  FALSE
  BY <1>3 DEF Return
<1>4. CASE ReadLength
  <2>1. stage = "length" /\ rpos + LengthBytes <= wpos /\ bound' = bound
    BY <1>4 DEF ReadLength
  <2>2. PICK f \in Announced :
          \/ f.size = 0 /\ Return(Result(call.op, "QuietOk"), f.to)
          \/ Return("ResponseTooLarge", f.to)
          \/ call' = call
    BY <1>4 DEF ReadLength
  <2>3. f.size = 0 /\ Return(Result(call.op, "QuietOk"), f.to)
    BY <1>1, <1>3, <2>2
  <2>4. Result(call.op, "QuietOk") = "Ok" /\ f.to = call.id
    BY <2>3 DEF Return
  <2>5. call.id # 0
    BY <1>0, <2>1, NumbersAre DEF Addressed, Numbered, Running
  <2>6. f \in frames /\ f.at = rpos
    BY <2>4, <2>5 DEF Announced, Phantoms
  <2>7. Complete(f) /\ f.resp = "QuietOk"
    BY <1>0, <2>1, <2>3, <2>4, <2>5, <2>6 DEF Complete, Addressed, Own
  <2> QED
    BY <1>2, <2>1, <2>3, <2>4, <2>5, <2>6, <2>7
<1>5. CASE ReadBody
  <2>1. /\ stage = "body" /\ rpos + frame.size <= wpos /\ bound' = bound
        /\ Return(IF frame.resp = "Undecodable" THEN "Decode"
                  ELSE Result(call.op, frame.resp), frame.to)
    BY <1>5 DEF ReadBody
  <2>2. /\ frame.resp # "Undecodable" /\ Result(call.op, frame.resp) = "Ok"
        /\ frame.to = call.id
    BY <2>1 DEF Return
  <2>3. call.id # 0
    BY <1>0, <2>1, NumbersAre DEF Addressed, Numbered, Running
  <2>4. Complete(frame)
    BY <2>2, <2>3 DEF Addressed, Placed
  <2> QED
    BY <1>2, <2>1, <2>2, <2>3, <2>4
<1>6. CASE WriteTimesOut \/ WriteFails \/ ReadTimesOut \/ ReadEof
  BY <1>3, <1>6 DEF WriteTimesOut, WriteFails, ReadTimesOut, ReadEof
<1>7. call' # call /\ call'.id # sent + 1
  BY <1>1 DEF TypeOK, NoCall
<1>8. ~(\E op \in Offered : \E arg \in Args(op) : Call(op, arg)) /\ ~Connect
  BY <1>7 DEF Connect, Call, Start
<1>9. ~(ConnectFails \/ SetReadTimeout \/ SetWriteTimeout \/ SetStatementGuard
         \/ WriteRequest \/ Accept \/ UNCHANGED vars)
  BY <1>7 DEF ConnectFails, SetReadTimeout, SetWriteTimeout, SetStatementGuard,
              WriteRequest, Accept, vars
<1>10. ~(ServerRead \/ ServerReply \/ ServerHangsUp)
  BY <1>7 DEF ServerRead, ServerReply, ServerHangsUp
<1> QED
  BY <1>4, <1>5, <1>6, <1>8, <1>9, <1>10 DEF Next

\* What the server says of its session to the call that asked is so, whatever has
\* gone wrong in calls before it (use_database, reset_server).
THEOREM SettlesDatabase == Spec => Settles
<1>1. TypeOK /\ TypeOK' /\ Addressed /\ [Next]_vars
        => [call.op \in {"use_database", "reset_server"} /\ call' = NoCall
              /\ last'.result = "Ok" /\ last'.to = call.id /\ tcp = "open"
            => database' = bound']_vars
  BY SettlesStep
<1> QED
  BY <1>1, AlwaysAddressed, TypeCorrect, PTL DEF Spec, Settles

-----------------------------------------------------------------------------
(* A connection that has been reported closed.                             *)

Closed == {"ConnectionClosed", "BrokenPipe"}

\* After such a report writes fail, or reads find the end of the stream.
Over ==
  \/ tcp = "broken" /\ stage \in {"idle", "write", "dropped"}
  \/ /\ tcp \in {"fin", "broken"} /\ rpos = wpos
     /\ stage \in {"idle", "write", "length", "dropped"}

Drained == last.result \in Closed => Over
Silent  == Over /\ last.result \notin Answered

\* After a broken pipe there is nothing to read, and every write fails so again.
Piped ==
  /\ tcp = "broken" /\ stage \in {"idle", "write", "dropped"}
  /\ last.result \notin {"ConnectionClosed", "TimedOut"}

\* No answer of the server is reported as the end of the connection.
LEMMA ResultNotClosed ==
  ASSUME NEW op, NEW resp
  PROVE  Result(op, resp) \notin Closed
  BY DEF Result, Checked, Check, Accepted, Closed

\* Nothing a method refuses by itself is reported as an answer, as the end or as
\* a timeout.
LEMMA LocalErrorKind ==
  ASSUME NEW op, NEW arg, LocalError(op, arg) # "Ok"
  PROVE  LocalError(op, arg) \notin Closed \cup Answered \cup {"TimedOut"}
  BY DEF LocalError, NameError, SizeError, StatementError, Inspect, Closed, Answered

\* A connection that is over stays so, and nothing is read from it.
LEMMA OverStep ==
  ASSUME TypeOK, Over, [Next]_vars
  PROVE  Over' /\ (last' = last \/ last'.result \notin Answered)
<1> USE DEF config, stream, session
<1>0. rpos \in Nat /\ wpos \in Nat /\ LengthBytes \in Nat /\ LengthBytes > 0
  BY ConstantsAssumption DEF TypeOK
<1>1. ASSUME NEW result, NEW to, Return(result, to), result \notin Answered,
             tcp' = "broken" \/ (tcp' = "fin" /\ rpos' = wpos')
      PROVE  Over' /\ last'.result \notin Answered
  <2>1. stage' \in {"idle", "dropped"} /\ last'.result = result
    BY <1>1 DEF Return
  <2> QED
    BY <1>1, <2>1 DEF Over
<1>2. CASE \/ Connect \/ ConnectFails \/ WriteTimesOut \/ ReadLength \/ ReadBody
           \/ ServerRead \/ ServerReply \/ ServerHangsUp
  BY <1>0, <1>2 DEF Connect, ConnectFails, WriteTimesOut, ReadLength, ReadBody,
     ServerRead, ServerReply, ServerHangsUp, Over
<1>3. CASE SetReadTimeout \/ SetWriteTimeout \/ SetStatementGuard \/ Accept
  BY <1>3 DEF SetReadTimeout, SetWriteTimeout, SetStatementGuard, Accept, Over
<1>4. ASSUME NEW op \in Offered, NEW arg \in Args(op), Call(op, arg)
      PROVE  Over' /\ (last' = last \/ last'.result \notin Answered)
  <2>1. CASE LocalError(op, arg) = "Ok"
    BY <1>4, <2>1 DEF Call, Start, Over
  <2>2. CASE LocalError(op, arg) # "Ok"
    <3>1. last'.result = LocalError(op, arg)
      BY <1>4, <2>2 DEF Call
    <3>2. Over'
      BY <1>4, <2>2 DEF Call, Over
    <3> QED
      BY <2>2, <3>1, <3>2, LocalErrorKind
  <2> QED
    BY <2>1, <2>2
<1>5. CASE WriteRequest
  BY <1>5 DEF WriteRequest, Over
<1>6. CASE WriteFails
  BY <1>1, <1>6 DEF WriteFails, Answered
<1>7. CASE ReadTimesOut
  <2>1. rpos' = wpos' /\ tcp' \in {"fin", "broken"} /\ Return("TimedOut", 0)
    <3>1. rpos = wpos /\ tcp \in {"fin", "broken"}
      BY <1>7 DEF ReadTimesOut, Over
    <3>2. PICK n \in 0 .. Wanted - 1 : rpos + n <= wpos /\ Consume(n)
      BY <1>7 DEF ReadTimesOut
    <3>3. n \in Int /\ n >= 0
      BY <3>2
    <3> QED
      BY <1>0, <1>7, <3>1, <3>2, <3>3 DEF ReadTimesOut, Consume
  <2> QED
    BY <1>1, <2>1 DEF Answered
<1>8. CASE ReadEof
  <2>1. rpos' = wpos' /\ tcp' \in {"fin", "broken"} /\ Return("ConnectionClosed", 0)
    BY <1>0, <1>8 DEF ReadEof, Consume, Gone
  <2> QED
    BY <1>1, <2>1 DEF Answered
<1>9. CASE UNCHANGED vars
  BY <1>9 DEF vars, Over
<1> QED
  BY <1>2, <1>3, <1>4, <1>5, <1>6, <1>7, <1>8, <1>9 DEF Next

\* The end of the connection is reported only when it is over, and a broken pipe
\* only when nothing is left to read.
LEMMA ReportsTheEnd ==
  ASSUME TypeOK, [Next]_vars, last' # last
  PROVE  /\ last'.result \in Closed => Over'
         /\ last'.result = "BrokenPipe" => Piped'
<1> USE DEF config, stream, session
<1>0. rpos \in Nat /\ wpos \in Nat
  BY DEF TypeOK
<1>1. ASSUME NEW result, NEW to, Return(result, to), result \notin Closed
      PROVE  last'.result \notin Closed
  BY <1>1 DEF Return
<1>2. CASE WriteFails
  <2>1. tcp' = "broken" /\ stage' \in {"idle", "dropped"}
    BY <1>2 DEF WriteFails, Return
  <2> QED
    BY <2>1 DEF Over, Piped
<1>3. CASE ReadEof
  <2>1. /\ rpos' = wpos' /\ tcp' \in {"fin", "broken"} /\ stage' \in {"idle", "dropped"}
        /\ last'.result = "ConnectionClosed"
    BY <1>0, <1>3 DEF ReadEof, Consume, Gone, Return
  <2> QED
    BY <2>1 DEF Over
<1>4. CASE ReadLength
  <2>1. PICK f \in Announced :
          \/ f.size = 0 /\ Return(Result(call.op, "QuietOk"), f.to)
          \/ f.size > MaxResponse /\ Return("ResponseTooLarge", f.to)
          \/ UNCHANGED last
    BY <1>4 DEF ReadLength
  <2> QED
    BY <1>1, <2>1, ResultNotClosed DEF Closed
<1>5. CASE ReadBody \/ WriteTimesOut \/ ReadTimesOut
  BY <1>1, <1>5, ResultNotClosed DEF ReadBody, WriteTimesOut, ReadTimesOut, Closed
<1>6. ASSUME NEW op \in Offered, NEW arg \in Args(op), Call(op, arg)
      PROVE  last'.result \notin Closed
  <2>1. LocalError(op, arg) # "Ok" /\ last'.result = LocalError(op, arg)
    BY <1>6 DEF Call
  <2> QED
    BY <2>1, LocalErrorKind
<1>7. \/ WriteFails \/ ReadEof \/ ReadLength \/ ReadBody \/ WriteTimesOut \/ ReadTimesOut
      \/ \E op \in Offered : \E arg \in Args(op) : Call(op, arg)
  BY DEF Next, vars, Connect, ConnectFails, SetReadTimeout, SetWriteTimeout,
     SetStatementGuard, WriteRequest, ServerRead, ServerReply, ServerHangsUp, Accept
<1> QED
  BY <1>2, <1>3, <1>4, <1>5, <1>6, <1>7 DEF Closed

\* After a broken pipe no call gets any further than to find it again.
LEMMA PipedStep ==
  ASSUME TypeOK, Piped, [Next]_vars
  PROVE  Piped'
<1> USE DEF config, stream, session
<1>1. ASSUME NEW op \in Offered, NEW arg \in Args(op), Call(op, arg)
      PROVE  Piped'
  <2>1. tcp' = "broken" /\ stage' \in {"idle", "write"}
    BY <1>1 DEF Piped, Call, Start
  <2>2. \/ last' = last
        \/ LocalError(op, arg) # "Ok" /\ last'.result = LocalError(op, arg)
    BY <1>1 DEF Call
  <2> QED
    BY <2>1, <2>2, LocalErrorKind DEF Piped, Closed
<1>2. CASE WriteFails
  <2>1. tcp' = "broken" /\ stage' \in {"idle", "dropped"} /\ last'.result = "BrokenPipe"
    BY <1>2 DEF Piped, WriteFails, Return
  <2> QED
    BY <2>1 DEF Piped
<1>3. CASE SetReadTimeout \/ SetWriteTimeout \/ SetStatementGuard \/ Accept \/ UNCHANGED vars
  BY <1>3 DEF SetReadTimeout, SetWriteTimeout, SetStatementGuard, Accept, vars, Piped
<1>4. ~(\/ Connect \/ ConnectFails \/ WriteRequest \/ WriteTimesOut \/ ReadLength
        \/ ReadBody \/ ReadTimesOut \/ ReadEof \/ ServerRead \/ ServerReply
        \/ ServerHangsUp)
  BY DEF Connect, ConnectFails, WriteRequest, WriteTimesOut, ReadLength, ReadBody,
     ReadTimesOut, ReadEof, ServerRead, ServerReply, ServerHangsUp, Piped
<1> QED
  BY <1>1, <1>2, <1>3, <1>4 DEF Next

\* Once a call has reported the end of the connection, no later call reports an
\* answer of the server: not the rest of a reply, nor a late one; and after a
\* broken pipe none reports a closed connection or a timeout, however many calls
\* are refused in between (read_response, write_request).
THEOREM StaysClosed == Spec => ClosedStaysClosed
<1>1. Init => Drained /\ (last.result = "BrokenPipe" => Piped)
  BY DEF Init, Drained, Closed
<1>2. TypeOK /\ Drained /\ [Next]_vars => Drained'
  BY OverStep, ReportsTheEnd DEF Drained
<1>3. TypeOK /\ (last.result = "BrokenPipe" => Piped) /\ [Next]_vars
        => (last.result = "BrokenPipe" => Piped)'
  BY PipedStep, ReportsTheEnd
<1>4. TypeOK /\ Silent /\ [Next]_vars => Silent'
  BY OverStep DEF Silent
<1>5. TypeOK /\ Piped /\ [Next]_vars => Piped'
  BY PipedStep
<1>6. Drained /\ last.result \in {"ConnectionClosed", "BrokenPipe"} => Silent
  BY DEF Drained, Silent, Closed, Answered
<1>7. Silent => last.result \notin Answered
  BY DEF Silent
<1>8. Piped => last.result \notin {"ConnectionClosed", "TimedOut"}
  BY DEF Piped
<1> QED
  BY <1>1, <1>2, <1>3, <1>4, <1>5, <1>6, <1>7, <1>8, TypeCorrect, PTL
     DEF Spec, ClosedStaysClosed

-----------------------------------------------------------------------------
(* A Client in its default configuration implements the remote call of     *)
(* Rpc.                                                                    *)

\* No timeout is ever set, and no reply is longer than the client accepts.
Defaults == Timeouts = {FALSE} /\ \A size \in BodySizes : size <= MaxResponse

-----------------------------------------------------------------------------
(* What the default configuration adds to the invariants of Client.        *)

\* No call leaves its reply behind, a call in progress has a method, and with
\* the Client its request is gone.
Settled ==
  /\ ~read_timeout /\ ~write_timeout /\ Clean
  /\ \A f \in frames : f.size <= MaxResponse
  /\ Running => call.op \in Methods
  /\ stage \in {"idle", "write", "length", "body"} => tcp # "none"
  /\ stage = "dropped" => outbox = <<>> /\ serving = NoRequest

LEMMA SettledInit == Init => Settled
  BY DEF Init, Settled, Clean, Running

\* A call that returns on a quiet connection with no reply left behind.
LEMMA ReturnSettles ==
  ASSUME Settled, NEW result, NEW to, Return(result, to), result \notin Unread,
         tcp' # "none", outbox' = <<>>, serving' = NoRequest, frames' \subseteq frames
  PROVE  Settled'
  <1>1. stage' \in {"idle", "dropped"} /\ UNCHANGED <<read_timeout, write_timeout>>
    BY DEF Return, config
  <1>2. Clean'
    BY DEF Settled, Return, Clean, Unread, Unknown
  <1> QED
    BY <1>1, <1>2 DEF Settled, Running

LEMMA SettledStep ==
  ASSUME Defaults, TypeOK, Exchange, Settled, [Next]_vars
  PROVE  Settled'
<1> USE DEF config, stream, session
<1>0. Clean /\ rpos \in Nat /\ wpos \in Nat /\ LengthBytes \in Nat /\ LengthBytes > 0
  BY ConstantsAssumption DEF Settled, TypeOK
<1>a. \A size \in BodySizes \cup {0} : size <= MaxResponse
  <2>1. \A size \in BodySizes : size <= MaxResponse
    BY Zenon DEF Defaults
  <2> QED
    BY <2>1, ConstantsAssumption
<1>b. ASSUME NEW set \in Timeouts PROVE ~set
  BY Zenon, <1>b DEF Defaults
<1>1. CASE Connect
  <2>1. Quiet /\ stage' \in {"idle", "write", "dropped"} /\ tcp' = "open"
    BY <1>0, <1>1 DEF Connect, Start, Exchange
  <2>2. ~read_timeout' /\ ~write_timeout'
    BY <1>1, <1>b DEF Connect
  <2>3. stage' = "write" => call'.op = "use_database"
    BY <1>1 DEF Connect, Start
  <2>4. UNCHANGED <<outbox, serving, frames, abandoned>>
    BY <1>1 DEF Connect
  <2> QED
    BY <2>1, <2>2, <2>3, <2>4
       DEF Settled, Quiet, Running, Clean, Methods, SystemMethods
<1>2. CASE ConnectFails
  BY <1>0, <1>2 DEF ConnectFails, Settled, Exchange, Quiet, Clean, Running
<1>3. CASE SetReadTimeout \/ SetWriteTimeout \/ SetStatementGuard
  <2>1. ~read_timeout' /\ ~write_timeout'
    BY <1>3, <1>b DEF SetReadTimeout, SetWriteTimeout, SetStatementGuard, Settled
  <2>2. UNCHANGED <<stage, call, outbox, frames, tcp, serving, abandoned>>
    BY <1>3 DEF SetReadTimeout, SetWriteTimeout, SetStatementGuard
  <2> QED
    BY <2>1, <2>2 DEF Settled, Clean, Running
<1>4. ASSUME NEW op \in Offered, NEW arg \in Args(op), Call(op, arg) PROVE Settled'
  <2>1. stage = "idle" /\ stage' \in {"idle", "write"}
    BY <1>4 DEF Call, Start
  <2>2. stage' = "write" => call'.op = op
    BY <1>4, <2>1 DEF Call, Start
  <2>3. UNCHANGED <<read_timeout, write_timeout, frames, tcp, abandoned>>
    BY <1>4 DEF Call
  <2> QED
    BY <2>1, <2>2, <2>3, ConstantsAssumption DEF Settled, Clean, Running
<1>5. CASE WriteRequest
  <2>1. tcp' # "none" /\ stage' = "length" /\ stage = "write"
    BY <1>5 DEF WriteRequest
  <2>2. UNCHANGED <<call, read_timeout, write_timeout, frames, abandoned>>
    BY <1>5 DEF WriteRequest
  <2> QED
    BY <2>1, <2>2 DEF Settled, Clean, Running
<1>6. CASE WriteTimesOut \/ ReadTimesOut
  BY <1>6 DEF WriteTimesOut, ReadTimesOut, Settled
<1>7. CASE WriteFails
  <2>1. Quiet
    BY <1>0, <1>7 DEF WriteFails, Exchange
  <2>2. /\ tcp' = "broken" /\ outbox' = <<>> /\ serving' = NoRequest /\ frames' = frames
    BY <1>7, <2>1 DEF WriteFails, Quiet
  <2>3. PICK result \in {"ConnectionClosed", "BrokenPipe"} : Return(result, 0)
    BY <1>7 DEF WriteFails
  <2>4. result \notin Unread
    BY DEF Unread
  <2> QED
    BY <2>2, <2>3, <2>4, ReturnSettles
<1>8. CASE ReadLength
  <2>1. InFlight /\ rpos + LengthBytes <= wpos /\ stage = "length"
    BY <1>0, <1>8 DEF ReadLength, Exchange
  <2>2. PICK g \in frames : frames = {g} /\ Announced = {g} /\ g.to = call.id
    BY <2>1, AnnouncesItsReply
  <2>3. outbox = <<>> /\ serving = NoRequest
    BY <1>0, <2>1 DEF InFlight, Quiet
  <2>4. frames' \subseteq frames /\ UNCHANGED <<outbox, tcp, serving>>
    BY <1>8 DEF ReadLength, Consume
  <2>5. g.size \in Nat /\ MaxResponse \in Nat /\ g.size <= MaxResponse
    BY <2>2, ConstantsAssumption DEF Settled, TypeOK, Frames
  <2>6. tcp # "none"
    BY <2>1 DEF Settled
  <2>7. CASE Return(Result(call.op, "QuietOk"), g.to)
    <3>1. Result(call.op, "QuietOk") \notin Unread
      BY DEF Result, Checked, Check, Unread
    <3> QED
      BY <2>3, <2>4, <2>6, <2>7, <3>1, ReturnSettles
  <2>8. CASE stage' = "body" /\ UNCHANGED <<call, read_timeout, write_timeout, abandoned>>
    BY <2>1, <2>4, <2>6, <2>8 DEF Settled, Clean, Running
  <2> QED
    BY <1>8, <2>2, <2>5, <2>7, <2>8 DEF ReadLength
<1>9. CASE ReadBody
  <2>1. HalfRead /\ stage = "body"
    BY <1>0, <1>9 DEF ReadBody, Exchange
  <2>2. PICK result, to : Return(result, to) /\ result \notin Unread
    <3>1. Result(call.op, frame.resp) \notin Unread /\ "Decode" \notin Unread
      BY DEF Result, Checked, Check, Unread
    <3> QED
      BY <1>9, <3>1 DEF ReadBody
  <2>3. /\ tcp' # "none" /\ outbox' = <<>> /\ serving' = NoRequest
        /\ frames' \subseteq frames
    BY <1>9, <2>1 DEF ReadBody, Consume, HalfRead, Settled
  <2> QED
    BY <2>2, <2>3, ReturnSettles
<1>10. CASE ReadEof
  <2>1. stage \in {"length", "body"} /\ tcp \in Gone /\ Return("ConnectionClosed", 0)
    BY <1>10 DEF ReadEof
  <2>2. outbox = <<>> /\ serving = NoRequest
    BY <1>0, <2>1 DEF Exchange, InFlight, HalfRead, Quiet, Gone
  <2>3. /\ tcp' # "none" /\ UNCHANGED <<outbox, serving>> /\ frames' \subseteq frames
    BY <1>10, <2>1 DEF ReadEof, Consume, Gone
  <2>4. "ConnectionClosed" \notin Unread
    BY DEF Unread
  <2> QED
    BY <2>1, <2>2, <2>3, <2>4, ReturnSettles
<1>11. CASE ServerRead
  <2>1. outbox # <<>> /\ tcp' # "none"
    BY <1>11 DEF ServerRead, HungUp
  <2>2. UNCHANGED <<stage, call, read_timeout, write_timeout, frames, abandoned>>
    BY <1>11 DEF ServerRead
  <2> QED
    BY <2>1, <2>2 DEF Settled, Clean, Running
<1>12. CASE ServerReply
  <2> PICK resp : \E f \in ReplyFrames(serving, resp) : frames' = frames \cup {f}
    BY <1>12 DEF ServerReply
  <2>1. PICK f \in ReplyFrames(serving, resp) : frames' = frames \cup {f}
    OBVIOUS
  <2>2. f.size \in BodySizes \cup {0}
    BY <2>1 DEF ReplyFrames
  <2>3. f.size <= MaxResponse
    BY <1>a, <2>2
  <2>4. serving # NoRequest
    BY <1>12 DEF ServerReply
  <2>5. UNCHANGED <<stage, call, read_timeout, write_timeout, tcp, abandoned>>
    BY <1>12 DEF ServerReply
  <2> QED
    BY <2>1, <2>3, <2>4, <2>5 DEF Settled, Clean, Running
<1>13. CASE ServerHangsUp
  <2>1. /\ tcp' # "none" /\ outbox' = <<>> /\ serving' = NoRequest
        /\ UNCHANGED <<stage, call, read_timeout, write_timeout, abandoned>>
    BY <1>13 DEF ServerHangsUp, HungUp
  <2>2. \A f \in frames' : f \in frames \/ f.size \in BodySizes
    BY <1>13 DEF ServerHangsUp
  <2> QED
    BY <1>a, <2>1, <2>2 DEF Settled, Clean, Running
<1>14. CASE Accept
  BY <1>14 DEF Accept, Settled, Clean, Running
<1>15. CASE UNCHANGED vars
  BY <1>15 DEF vars, Settled, Clean, Running
<1> QED
  BY <1>1, <1>2, <1>3, <1>4, <1>5, <1>6, <1>7, <1>8, <1>9, <1>10, <1>11, <1>12,
     <1>13, <1>14, <1>15 DEF Next

-----------------------------------------------------------------------------
(* The mapping.                                                            *)

LEMMA SameProtocol ==
  ASSUME NEW op, NEW resp, NEW connected
  PROVE  /\ Promise!Check(resp) = Check(resp)
         /\ Promise!Result(op, resp) = Result(op, resp)
         /\ Promise!Replies(op, connected) = Replies(op, connected)
<1>1. Promise!Check(resp) = Check(resp)
  BY DEF Check, Promise!Check
<1>2. Promise!Accepted(op) = Accepted(op)
  BY DEF Accepted, Promise!Accepted, Counts, Promise!Counts, Messages, Promise!Messages, Responses,
         Promise!Responses
<1>3. Promise!Acknowledgements(op) = Acknowledgements(op)
  BY DEF Acknowledgements, Promise!Acknowledgements
<1>4. Promise!DbMethods = DbMethods /\ Promise!SqlMethods = SqlMethods
      /\ Promise!Refusals = Refusals
  BY DEF DbMethods, Promise!DbMethods, SqlMethods, Promise!SqlMethods, Refusals,
         Promise!Refusals
<1> QED
  BY <1>1, <1>2, <1>3, <1>4 DEF Result, Promise!Result, Checked, Promise!Checked,
     Replies, Promise!Replies

\* The calls of Rpc that Client makes.
Operations == UNION {[op : {op}, arg : Args(op)] : op \in Methods}

\* The call in progress is one of Rpc's, and is none exactly between calls.
LEMMA CurrentIs ==
  ASSUME NEW op \in Methods, NEW arg \in Args(op)
  PROVE  /\ [op |-> op, arg |-> arg] \in Operations
         /\ [op |-> op, arg |-> arg] # NoCall
<1>1. [op |-> op, arg |-> arg] \in [op : {op}, arg : Args(op)]
  OBVIOUS
<1>2. op # "none"
  BY DEF Methods, SystemMethods, DbMethods
<1>3. [op |-> op, arg |-> arg].op # NoCall.op
  BY <1>2 DEF NoCall
<1> QED
  BY <1>1, <1>3 DEF Operations

\* The answer has arrived when one reply is whole, and not when none is.
LEMMA AnswerIs ==
  ASSUME NEW g, Arrived = {g}, g.resp \in Bodies
  PROVE  Answer = g.resp /\ Answer # "none"
<1>1. (CHOOSE f \in Arrived : TRUE) = g
  OBVIOUS
<1>2. "none" \notin Bodies
  BY DEF Bodies, Responses, Messages, Counts
<1> QED
  BY <1>1, <1>2 DEF Answer

LEMMA MappedInit == Init => Promise!Init
  BY DEF Init, Promise!Init, Current, Running, Answer, Arrived, Pending, Link

\* A call that returns without an answer, since the connection is gone.
LEMMA ReturnLoses ==
  ASSUME Settled, Running, Answer = "none", Link = "down", Link' = "down",
         bound' = bound, TypeOK,
         NEW result \in {"ConnectionClosed", "BrokenPipe"}, Return(result, 0)
  PROVE  Promise!Lost
<1>1. stage' \in {"idle", "dropped"}
  BY DEF Return
<1>2. Current # NoCall /\ Current' = NoCall
  BY <1>1, CurrentIs DEF Current, Running, Settled, TypeOK, Suits
<1>3. Answer' = "none"
  BY <1>1 DEF Answer, Arrived, Pending
<1>4. database' = database /\ last'.result = result
  BY DEF Return, DatabaseAfter
<1> QED
  BY <1>2, <1>3, <1>4 DEF Promise!Lost

\* A call that returns with the answer that has arrived.
LEMMA ReturnAnswers ==
  ASSUME Settled, Running, TypeOK, NEW g, Arrived = {g}, g.resp \in Bodies,
         UNCHANGED <<tcp, bound>>,
         Return(IF g.resp = "Undecodable" THEN "Decode" ELSE Result(call.op, g.resp),
                g.to)
  PROVE  Promise!Answer
<1> DEFINE result == IF g.resp = "Undecodable" THEN "Decode" ELSE Result(call.op, g.resp)
<1>1. stage' \in {"idle", "dropped"} /\ last'.result = result
  BY DEF Return
<1>2. /\ Current # NoCall /\ Current' = NoCall
      /\ Current = [op |-> call.op, arg |-> call.arg]
  BY <1>1, CurrentIs DEF Current, Running, Settled, TypeOK, Suits
<1>3. Answer = g.resp /\ Answer # "none"
  BY AnswerIs
<1>4. Answer' = "none" /\ Link' = Link
  BY <1>1 DEF Answer, Arrived, Pending, Link
<1>5. result = IF Answer = "Undecodable" THEN "Decode"
               ELSE Promise!Result(Current.op, Answer)
  BY <1>2, <1>3, SameProtocol
<1>6. database' = IF result = "Ok" THEN Promise!Selects(Current, database) ELSE database
  BY <1>2 DEF Return, DatabaseAfter, Promise!Selects
<1> QED
  BY <1>1, <1>2, <1>3, <1>4, <1>5, <1>6 DEF Promise!Answer

-----------------------------------------------------------------------------
(* One step of Client is one step of Rpc, or none.                         *)

\* A connection that is made opens, perhaps with the builder's use_database.
LEMMA ConnectEstablishes ==
  ASSUME TypeOK, Exchange, Settled, Connect
  PROVE  Promise!Establish
<1>1. stage = "unconnected" /\ tcp = "none" /\ tcp' = "open"
  BY DEF Connect, Settled, Exchange
<1>2. Link = "none" /\ Link' = "up" /\ Current = NoCall
  BY <1>1 DEF Link, Current, Running
<1>3. stage' \in {"idle", "write", "dropped"}
        /\ UNCHANGED <<database, bound, last>>
  BY DEF Connect, Start, session
<1>4. Answer = "none" /\ Answer' = "none"
  BY <1>1, <1>3 DEF Answer, Arrived, Pending
<1>5. Current' \in {NoCall} \cup {o \in Operations : o.op = "use_database"}
  <2>1. CASE stage' # "write"
    BY <1>3, <2>1 DEF Current, Running
  <2>2. CASE stage' = "write"
    <3>1. PICK raw \in RawNames : Start("use_database", raw)
      BY <2>2 DEF Connect
    <3>2. raw \in Args("use_database") /\ "use_database" \in Methods
      BY DEF Args, NameMethods, Methods, SystemMethods
    <3>3. Current' = [op |-> "use_database", arg |-> raw]
      BY <2>2, <3>1 DEF Start, Current, Running
    <3> QED
      BY <3>2, <3>3, CurrentIs
  <2> QED
    BY <2>1, <2>2
<1> QED
  BY <1>2, <1>3, <1>4, <1>5 DEF Promise!Establish, Operations

\* A method that is called begins, or is refused on the spot.
LEMMA CallBegins ==
  ASSUME Settled, NEW op \in Offered, NEW arg \in Args(op), Call(op, arg)
  PROVE  Promise!Begin \/ Promise!Refuse
<1>1. stage = "idle" /\ tcp # "none" /\ UNCHANGED <<tcp, database, bound>>
  BY DEF Call, Settled, session
<1>2. Current = NoCall /\ Link # "none" /\ Link' = Link
  BY <1>1 DEF Current, Running, Link
<1>3. stage' \in {"idle", "write"}
  BY <1>1 DEF Call, Start
<1>4. Answer = "none" /\ Answer' = "none"
  BY <1>1, <1>3 DEF Answer, Arrived, Pending
<1>5. CASE Start(op, arg) /\ UNCHANGED last
  <2>1. Current' = [op |-> op, arg |-> arg]
    BY <1>5 DEF Start, Current, Running
  <2>2. Current' \in Operations
    BY <2>1, CurrentIs, ConstantsAssumption
  <2> QED
    BY <1>1, <1>2, <1>4, <1>5, <2>2 DEF Promise!Begin, Operations
<1>6. CASE /\ LocalError(op, arg) # "Ok" /\ UNCHANGED stage
           /\ last' = [id |-> 0, result |-> LocalError(op, arg), to |-> 0]
  <2>1. LocalError(op, arg) \in {"InvalidArgument", "Unsupported",
                                 "MultipleStatements", "RequestTooLarge"}
    BY <1>6 DEF LocalError, NameError, SizeError, StatementError, Inspect
  <2>2. Current' = NoCall /\ last'.result = LocalError(op, arg)
    BY <1>1, <1>6 DEF Current, Running
  <2> QED
    BY <1>1, <1>2, <1>4, <2>1, <2>2 DEF Promise!Refuse
<1> QED
  BY <1>5, <1>6 DEF Call

\* A request is read or worked on only during its own call, and before any of
\* its reply is out.
LEMMA WorkIsCurrent ==
  ASSUME TypeOK, Exchange, Settled, outbox # <<>> \/ serving # NoRequest
  PROVE  /\ stage = "length" /\ frames = {} /\ rpos = wpos
         /\ \/ outbox = <<Request>> /\ serving = NoRequest
            \/ outbox = <<>> /\ serving = Request
<1>1. Clean
  BY DEF Settled
<1>2. stage = "length"
  BY <1>1 DEF Exchange, Quiet, HalfRead, Settled, TypeOK, Stages
<1>3. InFlight
  BY <1>1, <1>2 DEF Exchange
<1> QED
  BY <1>2, <1>3 DEF InFlight, Quiet

\* The server's answer, all of which is under way at once, is the one there is.
LEMMA ReplyServes ==
  ASSUME TypeOK, TypeOK', Exchange, Settled, ServerReply
  PROVE  Promise!Serve
<1> USE DEF stream, session
<1>1. /\ tcp = "open" /\ serving # NoRequest
      /\ UNCHANGED <<stage, call, frame, database, tcp, last>>
  BY DEF ServerReply
<1>2. stage = "length" /\ frames = {} /\ serving = Request
  BY <1>1, WorkIsCurrent
<1>3. Link = "up" /\ Link' = Link /\ Current' = Current
  BY <1>1 DEF Link, Current, Running
<1>4. Current = [op |-> call.op, arg |-> call.arg] /\ Current # NoCall
  BY <1>2, CurrentIs DEF Current, Running, Settled, TypeOK, Suits
<1>5. Answer = "none"
  BY <1>2 DEF Answer, Arrived, Pending
<1>6. PICK resp \in Replies(serving.op, bound # NoDatabase) \cap Spoken :
        /\ \E f \in ReplyFrames(serving, resp) :
             frames' = frames \cup {f} /\ wpos' = wpos + LengthBytes + f.size
        /\ bound' = BoundAfter(serving, resp)
  BY DEF ServerReply
<1>7. PICK g \in ReplyFrames(serving, resp) :
        frames' = frames \cup {g} /\ wpos' = wpos + LengthBytes + g.size
  BY <1>6
<1>8. frames' = {g} /\ g \in Frames /\ g.at = wpos /\ g.resp \in {resp, "Undecodable"}
  BY <1>2, <1>7 DEF ReplyFrames, TypeOK
<1>9. Arrived' = {g}
  <2>1. g.at + LengthBytes + g.size <= wpos'
    BY <1>7, <1>8, ConstantsAssumption DEF TypeOK, Frames
  <2>2. Pending' = {g}
    BY <1>1, <1>2, <1>8 DEF Pending
  <2> QED
    BY <2>1, <2>2 DEF Arrived
<1>10. Answer' \in {resp, "Undecodable"}
  <2>1. (CHOOSE f \in Arrived' : TRUE) = g
    BY <1>9
  <2> QED
    BY <1>8, <1>9, <2>1 DEF Answer
<1>11. resp \in Promise!Replies(Current.op, bound # NoDatabase)
  <2>1. serving.op = Current.op
    BY <1>2, <1>4 DEF Request
  <2> QED
    BY <1>6, <2>1, SameProtocol
<1>12. bound' = IF Promise!Check(resp) = "Ok" THEN Promise!Selects(Current, bound)
                ELSE bound
  <2>1. serving.op = Current.op /\ serving.arg = Current.arg
    BY <1>2, <1>4 DEF Request
  <2> QED
    BY <1>6, <2>1, SameProtocol DEF BoundAfter, Promise!Selects
<1> QED
  BY <1>1, <1>3, <1>4, <1>5, <1>10, <1>11, <1>12 DEF Promise!Serve

\* The server reads a request: it is whole and the only one, and nobody sees it.
LEMMA ReadIsSilent ==
  ASSUME TypeOK, Exchange, Settled, ServerRead
  PROVE  UNCHANGED Promise!vars
<1>1. outbox = <<Request>> /\ Len(outbox) = 1 /\ outbox[1] = Request
  <2>1. outbox # <<>>
    BY DEF ServerRead
  <2> QED
    BY <2>1, WorkIsCurrent
<1>2. outbox[1].whole
  BY <1>1 DEF Request
<1>3. UNCHANGED <<stage, call, frame, database, last, frames, wpos, tcp, bound>>
  BY <1>1, <1>2 DEF ServerRead, stream
<1> QED
  BY <1>3 DEF Promise!vars, Current, Running, Answer, Arrived, Pending, Link

\* The server hangs up: what had arrived of the answer may be lost with it, and
\* no answer ever comes of a reply that was cut off.
LEMMA HangUpBreaks ==
  ASSUME TypeOK, Exchange, Settled, ServerHangsUp
  PROVE  Promise!Break
<1> USE DEF stream
<1>1. /\ tcp = "open" /\ tcp' \in {"fin", "rst"} /\ bound' = NoDatabase
      /\ UNCHANGED <<stage, call, frame, database, last>>
  BY DEF ServerHangsUp, HungUp
<1>2. Link = "up" /\ Link' = "down" /\ Current' = Current
  BY <1>1 DEF Link, Current, Running
<1>3. Answer' \in {Answer, "none"}
  <2>1. CASE UNCHANGED stream
    BY <1>1, <2>1 DEF Answer, Arrived, Pending
  <2>2. CASE wpos' \in rpos .. wpos /\ UNCHANGED frames
    <3>1. wpos' <= wpos /\ wpos' \in Int /\ wpos \in Int
      BY <2>2 DEF TypeOK
    <3>2. Pending' = Pending /\ Pending \subseteq Frames
      BY <1>1, <2>2 DEF Pending, TypeOK
    <3>3. \A f \in Pending : f.at + LengthBytes + f.size \in Int
      BY <3>2, ConstantsAssumption DEF Frames
    <3>4. Arrived' \subseteq Arrived
      BY <3>1, <3>2, <3>3 DEF Arrived
    <3>5. \E g : Pending \subseteq {g}
      <4>1. CASE stage = "length"
        BY <1>1, <4>1 DEF Pending, Exchange, Settled, InFlight
      <4>2. CASE stage # "length"
        BY <4>2 DEF Pending
      <4> QED
        BY <4>1, <4>2
    <3>6. Arrived' = Arrived \/ Arrived' = {}
      BY <3>4, <3>5 DEF Arrived
    <3> QED
      BY <3>6 DEF Answer
  <2>3. CASE /\ serving # NoRequest
             /\ \E size \in BodySizes, resp \in Spoken :
                  \E n \in 1 .. LengthBytes + size - 1 :
                    /\ frames' = frames \cup {[at |-> wpos, size |-> size,
                                               resp |-> resp, to |-> serving.id]}
                    /\ wpos' = wpos + n
    <3>1. PICK size \in BodySizes, resp \in Spoken :
            \E n \in 1 .. LengthBytes + size - 1 :
              /\ frames' = frames \cup {[at |-> wpos, size |-> size,
                                         resp |-> resp, to |-> serving.id]}
              /\ wpos' = wpos + n
      BY <2>3
    <3>2. PICK n \in 1 .. LengthBytes + size - 1 :
            /\ frames' = frames \cup {[at |-> wpos, size |-> size,
                                       resp |-> resp, to |-> serving.id]}
            /\ wpos' = wpos + n
      BY <3>1
    <3>3. stage = "length" /\ frames = {}
      BY <2>3, WorkIsCurrent
    <3>4. size \in Nat /\ LengthBytes \in Nat /\ wpos \in Nat /\ n < LengthBytes + size
      BY <3>2, ConstantsAssumption DEF TypeOK
    <3>5. \A f \in Pending' : f.at = wpos /\ f.size = size
      BY <1>1, <3>2, <3>3 DEF Pending
    <3>6. \A f \in Pending' : ~(f.at + LengthBytes + f.size <= wpos')
      BY <3>2, <3>4, <3>5
    <3>7. Arrived' = {}
      BY <3>6 DEF Arrived
    <3> QED
      BY <3>7 DEF Answer
  <2> QED
    BY <2>1, <2>2, <2>3 DEF ServerHangsUp
<1> QED
  BY <1>1, <1>2, <1>3 DEF Promise!Break

\* A length that is read is an answer when it announces an empty reply, and
\* nothing the caller can see when it announces a body.
LEMMA LengthAnswers ==
  ASSUME TypeOK, Exchange, Tracking, Settled, ReadLength
  PROVE  Promise!Answer \/ UNCHANGED Promise!vars
<1> USE DEF stream, session
<1>1. stage = "length" /\ InFlight /\ rpos + LengthBytes <= wpos
  BY DEF ReadLength, Exchange, Settled
<1>2. PICK g \in frames : frames = {g} /\ Announced = {g} /\ g.to = call.id
  BY <1>1, AnnouncesItsReply
<1>3. /\ g \in Frames /\ g.size \in Nat /\ g.at \in Nat /\ LengthBytes \in Nat
      /\ MaxResponse \in Nat /\ g.size <= MaxResponse
  BY <1>2, ConstantsAssumption DEF TypeOK, Settled, Frames
<1>4. Pending = {g} /\ g.at = rpos
  BY <1>1, <1>2 DEF Pending, InFlight, Quiet
<1>5. UNCHANGED <<wpos, tcp, bound>>
  BY DEF ReadLength, Consume
<1>6. CASE g.size = 0 /\ Return(Result(call.op, "QuietOk"), g.to)
  <2>1. g.resp = "QuietOk"
    BY <1>4, <1>6 DEF Tracking, Settled
  <2>2. g.at + LengthBytes + g.size <= wpos
    BY <1>1, <1>3, <1>4, <1>6
  <2>3. Arrived = {g}
    BY <1>4, <2>2 DEF Arrived
  <2>4. g.resp \in Bodies /\ g.resp # "Undecodable"
    BY <1>3, <2>1 DEF Frames
  <2>5. Return(IF g.resp = "Undecodable" THEN "Decode" ELSE Result(call.op, g.resp),
               g.to)
    BY <1>6, <2>1, <2>4
  <2>6. Running
    BY <1>1 DEF Running
  <2> QED
    BY <1>5, <2>3, <2>4, <2>5, <2>6, ReturnAnswers
<1>7. CASE stage' = "body" /\ frame' = g /\ UNCHANGED <<call, database, last>>
  <2>1. Pending' = Pending
    BY <1>4, <1>7 DEF Pending
  <2>2. Answer' = Answer
    BY <1>5, <2>1 DEF Answer, Arrived
  <2>3. Current' = Current /\ Link' = Link
    BY <1>1, <1>5, <1>7 DEF Current, Running, Link
  <2> QED
    BY <1>5, <1>7, <2>2, <2>3 DEF Promise!vars
<1> QED
  BY <1>2, <1>3, <1>6, <1>7 DEF ReadLength

\* A body that is read is the answer.
LEMMA BodyAnswers ==
  ASSUME TypeOK, Exchange, Settled, ReadBody
  PROVE  Promise!Answer
<1>1. stage = "body" /\ HalfRead /\ rpos + frame.size <= wpos
  BY DEF ReadBody, Exchange, Settled
<1>2. frame.at + LengthBytes + frame.size <= wpos
  BY <1>1 DEF HalfRead
<1>3. Arrived = {frame}
  BY <1>1, <1>2 DEF Arrived, Pending
<1>4. frame.resp \in Bodies
  BY DEF TypeOK, Frames
<1>5. UNCHANGED <<tcp, bound>>
  BY DEF ReadBody, session
<1>6. Running
  BY <1>1 DEF Running
<1> QED
  BY <1>3, <1>4, <1>5, <1>6, ReturnAnswers DEF ReadBody

\* The stream ends before all of an answer has arrived.
LEMMA EofLoses ==
  ASSUME TypeOK, Exchange, Settled, ReadEof
  PROVE  Promise!Lost
<1>1. /\ stage \in {"length", "body"} /\ tcp \in Gone /\ rpos + Wanted > wpos
      /\ Return("ConnectionClosed", 0) /\ tcp' \in Gone /\ bound' = bound
  BY DEF ReadEof, session, Gone
<1>2. /\ rpos \in Nat /\ wpos \in Nat /\ LengthBytes \in Nat
      /\ frames \subseteq Frames /\ frame \in Frames
  BY ConstantsAssumption DEF TypeOK
<1>3. \A f \in Pending : ~(f.at + LengthBytes + f.size <= wpos)
  <2>1. CASE stage = "length"
    <3>1. \A f \in frames : f.at = rpos /\ f.size \in Nat
      BY <1>1, <1>2, <2>1 DEF Exchange, Settled, InFlight, Frames
    <3>2. rpos + LengthBytes > wpos
      BY <1>1, <2>1 DEF Wanted
    <3>3. Pending = frames
      BY <2>1 DEF Pending
    <3> QED
      BY <1>2, <3>1, <3>2, <3>3
  <2>2. CASE stage = "body"
    <3>1. frame.at + LengthBytes = rpos
      BY <2>2 DEF Exchange, Settled, HalfRead
    <3>2. Pending = {frame} /\ Wanted = frame.size /\ frame.size \in Nat
      BY <1>2, <2>2 DEF Pending, Wanted, Frames
    <3> QED
      BY <1>1, <1>2, <3>1, <3>2
  <2> QED
    BY <1>1, <2>1, <2>2
<1>4. Answer = "none"
  BY <1>3 DEF Answer, Arrived
<1>5. Link = "down" /\ Link' = "down" /\ Running
  BY <1>1 DEF Link, Gone, Running
<1> QED
  BY <1>1, <1>4, <1>5, ReturnLoses

\* A write to a connection that has been reset.
LEMMA WriteLoses ==
  ASSUME TypeOK, Settled, WriteFails
  PROVE  Promise!Lost
<1>1. stage = "write" /\ tcp \in {"rst", "broken"} /\ tcp' = "broken" /\ bound' = bound
  BY DEF WriteFails, session
<1>2. Link = "down" /\ Link' = "down" /\ Running /\ Answer = "none"
  BY <1>1 DEF Link, Running, Answer, Arrived, Pending
<1>3. PICK result \in {"ConnectionClosed", "BrokenPipe"} : Return(result, 0)
  BY DEF WriteFails
<1> QED
  BY <1>1, <1>2, <1>3, ReturnLoses

LEMMA WriteIsSilent ==
  ASSUME TypeOK, Exchange, Settled, WriteRequest
  PROVE  UNCHANGED Promise!vars
<1>1. /\ stage = "write" /\ stage' = "length" /\ frames' = frames
      /\ UNCHANGED <<call, database, last, bound>>
      /\ \/ tcp = "open" /\ tcp' = tcp
         \/ tcp = "fin" /\ tcp' \in {"fin", "broken"}
  BY DEF WriteRequest, stream, session
<1>2. frames = {}
  BY <1>1 DEF Exchange, Settled, Quiet
<1>3. Answer' = Answer
  BY <1>1, <1>2 DEF Answer, Arrived, Pending
<1>4. Link' = Link /\ Current' = Current
  BY <1>1 DEF Link, Current, Running
<1> QED
  BY <1>1, <1>3, <1>4 DEF Promise!vars

LEMMA MappedStep ==
  ASSUME TypeOK, TypeOK', Exchange, Tracking, Settled, [Next]_vars
  PROVE  [Promise!Next]_Promise!vars
<1> USE DEF Promise!Next
<1>1. ASSUME NEW op \in Offered, NEW arg \in Args(op), Call(op, arg)
      PROVE  [Promise!Next]_Promise!vars
  BY <1>1, CallBegins
<1>2. CASE \/ ConnectFails \/ SetReadTimeout \/ SetWriteTimeout \/ SetStatementGuard
           \/ Accept \/ UNCHANGED vars
  <2>1. UNCHANGED <<call, frame, database, frames, wpos, tcp, bound, last>>
    BY <1>2 DEF ConnectFails, SetReadTimeout, SetWriteTimeout, SetStatementGuard,
                Accept, vars, stream, session
  <2>2. \/ stage' = stage
        \/ stage = "unconnected" /\ stage' = "dropped"
    BY <1>2 DEF ConnectFails, SetReadTimeout, SetWriteTimeout, SetStatementGuard,
                Accept, vars
  <2>3. Current' = Current /\ Link' = Link
    BY <2>1, <2>2 DEF Current, Running, Link
  <2>4. Pending' = Pending
    BY <2>1, <2>2 DEF Pending
  <2>5. Answer' = Answer
    BY <2>1, <2>4 DEF Answer, Arrived
  <2> QED
    BY <2>1, <2>3, <2>5 DEF Promise!vars
<1>3. CASE WriteTimesOut \/ ReadTimesOut
  BY <1>3 DEF WriteTimesOut, ReadTimesOut, Settled
<1>4. CASE Connect
  BY <1>4, ConnectEstablishes
<1>5. CASE WriteRequest \/ ServerRead
  BY <1>5, WriteIsSilent, ReadIsSilent
<1>6. CASE WriteFails \/ ReadEof
  BY <1>6, WriteLoses, EofLoses
<1>7. CASE ReadLength \/ ReadBody
  BY <1>7, LengthAnswers, BodyAnswers
<1>8. CASE ServerReply
  BY <1>8, ReplyServes
<1>9. CASE ServerHangsUp
  BY <1>9, HangUpBreaks
<1> QED
  BY <1>1, <1>2, <1>3, <1>4, <1>5, <1>6, <1>7, <1>8, <1>9 DEF Next

\* A Client that never sets a timeout and is sent no oversized reply is a
\* synchronous remote call: at most one execution, within the call, and the
\* outcome of that execution as the result (round_trip, read_response).
THEOREM RemoteCall ==
  ASSUME Defaults
  PROVE  Spec => IsRpc
<1>1. TypeOK /\ Exchange /\ Settled /\ [Next]_vars => Settled'
  BY SettledStep
<1>2. TypeOK /\ TypeOK' /\ Exchange /\ Tracking /\ Settled /\ [Next]_vars
        => [Promise!Next]_Promise!vars
  BY MappedStep
<1> QED
  BY <1>1, <1>2, SettledInit, MappedInit, TypeCorrect, OneExchange, Tracks, PTL
     DEF Spec, IsRpc, Promise!Spec
=============================================================================
