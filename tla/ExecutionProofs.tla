---------------------------- MODULE ExecutionProofs ----------------------------
(***************************************************************************)
(* What Execution guarantees for any number of calls, any requests, any    *)
(* table and any errors of the handlers.                                   *)
(***************************************************************************)
EXTENDS Execution, TLAPS

\* The engine's early returns refuse exactly the requests whose tool
\* tools/list would not show: the check of Principal.Valid that Execute makes
\* and Visible does not is implied by AllowsPrincipal.
LEMMA RefusedUnlessAuthorised ==
  ASSUME NEW q \in Requests
  PROVE  Refusal(q) = {} <=> Authorised(q)
  BY DEF Refusal, Authorised, AllowsPrincipal, Valid, IsUser, IsService,
         SubjectUser, SubjectService

\* A refusal is an error that carries one of two sentinels.
LEMMA RefusalKinds ==
  ASSUME NEW q \in Requests
  PROVE  /\ Refusal(q) \in Errors
         /\ Refusal(q) \in {{}, {"error", "forbidden"}, {"error", "not_found"}}
  BY DEF Refusal, Errors, Sentinels

-------------------------------------------------------------------------------
\* Type correctness

\* errorCode returns one of its stable codes.
LEMMA ErrorCodeType == \A e : ErrorCode(e) \in Codes
  BY DEF ErrorCode, Codes

\* toolError returns one of the texts a caller may see.
LEMMA ToolErrorType == \A e : ToolError(e) \in Answers
  BY DEF ToolError, Answers

\* A call that has begun has a request.
HasRequest == \A c \in Calls : pc[c] # "idle" => request[c] \in Requests

TypeInv == TypeOK /\ HasRequest

\* Before the first call every variable has its type.
LEMMA TypeInit == Init => TypeInv
  BY DEF Init, TypeInv, TypeOK, HasRequest, Labels, Errors, Answers

\* One step per action; only Audit appends to a sequence.
LEMMA TypeStep == TypeInv /\ [Next]_vars => TypeInv'
  <1> SUFFICES ASSUME TypeInv, [Next]_vars PROVE TypeInv'
    OBVIOUS
  <1> USE DEF TypeInv, TypeOK, HasRequest, At, Goto
  <1>1. ASSUME NEW c \in Calls, Begin(c) PROVE TypeInv'
    BY <1>1 DEF Begin, Labels
  <1>2. ASSUME NEW c \in Calls, Refuse(c) PROVE TypeInv'
    <2>1. Refusal(request[c]) \in Errors
      BY <1>2, RefusalKinds DEF Refuse
    <2> QED BY <1>2, <2>1 DEF Refuse, Labels
  <1>3. ASSUME NEW c \in Calls, Admit(c) PROVE TypeInv'
    BY <1>3 DEF Admit, Labels
  <1>4. ASSUME NEW c \in Calls, RejectInput(c) PROVE TypeInv'
    BY <1>4 DEF RejectInput, Labels, Errors, Sentinels
  <1>5. ASSUME NEW c \in Calls, EnterHandler(c) PROVE TypeInv'
    BY <1>5 DEF EnterHandler, Labels
  <1>6. ASSUME NEW c \in Calls, HandlerReturns(c) PROVE TypeInv'
    BY <1>6 DEF HandlerReturns, Labels
  <1>7. ASSUME NEW c \in Calls, HandlerFails(c) PROVE TypeInv'
    BY <1>7, ExecutionAssumption DEF HandlerFails, Labels
  <1>8. ASSUME NEW c \in Calls, HandlerGivesUp(c) PROVE TypeInv'
    BY <1>8 DEF HandlerGivesUp, Labels, Errors, Sentinels
  <1>9. ASSUME NEW c \in Calls, HandlerPanics(c) PROVE TypeInv'
    BY <1>9 DEF HandlerPanics, Labels
  <1>10. ASSUME NEW c \in Calls, RejectOutput(c) PROVE TypeInv'
    BY <1>10 DEF RejectOutput, Labels, Errors, Sentinels
  <1>11. ASSUME NEW c \in Calls, SecureOutput(c) PROVE TypeInv'
    BY <1>11 DEF SecureOutput, Labels
  <1>12. ASSUME NEW c \in Calls, Audit(c) PROVE TypeInv'
    <2>1. AuditEvent(c) \in Event
      <3>1. request[c] \in Requests
        BY <1>12 DEF Audit
      <3>2. (IF err[c] = {} THEN "" ELSE ErrorCode(err[c])) \in Codes
        BY ErrorCodeType DEF Codes
      <3> QED BY <3>1, <3>2 DEF AuditEvent, Event
    <2>2. events' \in [Calls -> Seq(Event)]
      BY <1>12, <2>1 DEF Audit
    <2>3. ctx' \in [Calls -> {"none", "live", "deadline", "canceled"}]
      BY <1>12 DEF Audit, Canceled
    <2> QED BY <1>12, <2>2, <2>3 DEF Audit, Labels
  <1>13. ASSUME NEW c \in Calls, Reply(c) PROVE TypeInv'
    <2>1. answer' \in [Calls -> Answers]
      BY <1>13, ToolErrorType DEF Reply, Answers
    <2> QED BY <1>13, <2>1 DEF Reply, Labels
  <1>14. ASSUME NEW c \in Calls, ClientLeaves(c) PROVE TypeInv'
    BY <1>14 DEF ClientLeaves, Canceled
  <1>15. ASSUME NEW c \in Calls, DeadlinePasses(c) PROVE TypeInv'
    BY <1>15 DEF DeadlinePasses
  <1>16. CASE UNCHANGED vars
    BY <1>16 DEF vars
  <1> QED
    BY <1>1, <1>2, <1>3, <1>4, <1>5, <1>6, <1>7, <1>8, <1>9, <1>10, <1>11,
       <1>12, <1>13, <1>14, <1>15, <1>16
       DEF Next, EngineStep, HandlerStep

\* Every variable of the engine keeps its type, for any number of calls.
THEOREM TypeCorrect == Spec => []TypeOK
  <1>1. TypeInv => TypeOK
    BY DEF TypeInv
  <1> QED BY TypeInit, TypeStep, <1>1, PTL DEF Spec

-------------------------------------------------------------------------------
\* The inductive invariant: what is known of a call at each label.

Early == {"idle", "authorize"}
Late == {"deferred", "reply", "returned"}
Audited == {"reply", "returned"}

\* Before the decision nothing has happened; between it and the deferred
\* functions the call is let in and has no error yet.
Progress(c) ==
  /\ pc[c] = "idle" => request[c] = NoRequest
  /\ pc[c] \in Early =>
       ~allowed[c] /\ ctx[c] = "none" /\ runs[c] = 0 /\ err[c] = {} /\ ~panicked[c]
  /\ pc[c] = "decode" => allowed[c] /\ runs[c] = 0 /\ err[c] = {} /\ ~panicked[c]
  /\ pc[c] \in {"handler", "output"} =>
       allowed[c] /\ runs[c] = 1 /\ err[c] = {} /\ ~panicked[c]

\* Who was let in, and how a call that is past its body got there.
Decision(c) ==
  /\ pc[c] \notin Early => (allowed[c] <=> Refusal(request[c]) = {})
  /\ pc[c] \in Late /\ ~allowed[c] =>
       err[c] = Refusal(request[c]) /\ runs[c] = 0 /\ ~panicked[c]
  /\ pc[c] \in Late /\ allowed[c] =>
       \/ runs[c] = 0 /\ err[c] = {"error", "invalid_input"} /\ ~panicked[c]
       \/ runs[c] = 1 /\ (panicked[c] => err[c] = {})

\* A context ends with its caller and with its call.
Context(c) ==
  /\ gone[c] => ctx[c] # "live"
  /\ pc[c] \in Audited => ctx[c] # "live"

\* The audit and the answer are functions of the decision and the error.
Outcome(c) ==
  /\ events[c] = IF pc[c] \in Audited THEN <<AuditEvent(c)>> ELSE <<>>
  /\ answer[c] = IF pc[c] # "returned" THEN "none"
                 ELSE IF panicked[c] THEN "aborted"
                 ELSE IF err[c] = {} THEN "value"
                 ELSE ToolError(err[c])

IInv ==
  /\ TypeInv
  /\ \A c \in Calls : Progress(c) /\ Decision(c) /\ Context(c) /\ Outcome(c)

\* Before the first call nothing has been decided, run, audited or answered.
LEMMA InvInit == Init => IInv
  <1> SUFFICES ASSUME Init PROVE IInv
    OBVIOUS
  <1>1. TypeInv
    BY TypeInit
  <1>2. ASSUME NEW c \in Calls PROVE Progress(c) /\ Decision(c) /\ Context(c) /\ Outcome(c)
    BY DEF Init, Progress, Decision, Context, Outcome, Early, Late, Audited
  <1> QED BY <1>1, <1>2 DEF IInv

\* A step of one call leaves every other call as it is.
LEMMA OtherCalls ==
  ASSUME IInv, NEW c \in Calls, NEW d \in Calls, c # d,
         Begin(c) \/ EngineStep(c) \/ HandlerStep(c) \/ ClientLeaves(c) \/ DeadlinePasses(c)
  PROVE  Progress(d)' /\ Decision(d)' /\ Context(d)' /\ Outcome(d)'
  <1>1. /\ pc'[d] = pc[d] /\ request'[d] = request[d] /\ allowed'[d] = allowed[d]
        /\ gone'[d] = gone[d] /\ ctx'[d] = ctx[d] /\ runs'[d] = runs[d] /\ err'[d] = err[d]
        /\ panicked'[d] = panicked[d] /\ events'[d] = events[d] /\ answer'[d] = answer[d]
    BY DEF IInv, TypeInv, TypeOK, Goto, EngineStep, HandlerStep, Begin, Refuse, Admit,
           RejectInput, EnterHandler, HandlerReturns, HandlerFails, HandlerGivesUp,
           HandlerPanics, RejectOutput, SecureOutput, Audit, Reply, ClientLeaves,
           DeadlinePasses
  <1> QED
    BY <1>1 DEF IInv, Progress, Decision, Context, Outcome, AuditEvent

\* One case per action; the other calls are OtherCalls.
LEMMA InvStep == IInv /\ [Next]_vars => IInv'
  <1> SUFFICES ASSUME IInv, [Next]_vars PROVE IInv'
    OBVIOUS
  <1>t. TypeInv'
    BY TypeStep DEF IInv
  <1>u. CASE UNCHANGED vars
    BY <1>u, <1>t, ZenonT(40) DEF vars, IInv, Progress, Decision, Context, Outcome, AuditEvent
  <1>n. ASSUME NEW c \in Calls,
               Begin(c) \/ EngineStep(c) \/ HandlerStep(c) \/ ClientLeaves(c) \/ DeadlinePasses(c)
        PROVE  IInv'
    <2> SUFFICES Progress(c)' /\ Decision(c)' /\ Context(c)' /\ Outcome(c)'
      BY <1>n, <1>t, OtherCalls DEF IInv
    <2> USE DEF IInv, TypeInv, TypeOK, HasRequest, At, Goto, Progress, Decision, Context,
                Outcome, AuditEvent, Early, Late, Audited
    <2>1. CASE Begin(c)
      BY <2>1 DEF Begin
    <2>2. CASE Refuse(c)
      BY <2>2 DEF Refuse
    <2>3. CASE Admit(c)
      BY <2>3 DEF Admit
    <2>4. CASE RejectInput(c)
      BY <2>4 DEF RejectInput
    <2>5. CASE EnterHandler(c)
      <3>1. /\ pc[c] = "decode" /\ pc'[c] = "handler"
            /\ runs'[c] = runs[c] + 1
            /\ UNCHANGED <<request, allowed, gone, ctx, err, panicked, events, answer>>
        BY <2>5 DEF EnterHandler
      <3>2. runs[c] = 0
        BY <3>1
      <3>3. runs'[c] = 1
        <4> HIDE DEF IInv, TypeInv
        <4> QED BY <3>1, <3>2
      <3>4. Progress(c)'
        BY <3>1, <3>3
      <3>5. Decision(c)' /\ Context(c)' /\ Outcome(c)'
        BY <3>1
      <3> QED BY <3>4, <3>5
    <2>6. CASE HandlerReturns(c)
      BY <2>6 DEF HandlerReturns
    <2>7. CASE HandlerFails(c)
      <3>1. /\ pc[c] = "handler" /\ pc'[c] = "deferred"
            /\ UNCHANGED <<request, allowed, gone, ctx, runs, panicked, events, answer>>
        BY <2>7 DEF HandlerFails
      <3> QED BY <3>1
    <2>8. CASE HandlerGivesUp(c)
      BY <2>8 DEF HandlerGivesUp
    <2>9. CASE HandlerPanics(c)
      BY <2>9 DEF HandlerPanics
    <2>10. CASE RejectOutput(c)
      BY <2>10 DEF RejectOutput
    <2>11. CASE SecureOutput(c)
      BY <2>11 DEF SecureOutput
    <2>12. CASE Audit(c)
      <3>1. /\ pc[c] = "deferred" /\ pc'[c] = "reply"
            /\ ctx'[c] = Canceled(ctx[c])
            /\ events'[c] = Append(events[c], AuditEvent(c))
            /\ UNCHANGED <<request, allowed, gone, runs, err, panicked, answer>>
        BY <2>12 DEF Audit, AuditContextDone
      <3>2. events'[c] = <<AuditEvent(c)>>
        <4> HIDE DEF AuditEvent
        <4>1. events[c] = <<>>
          BY <3>1
        <4> QED BY <3>1, <4>1
      <3>3. Progress(c)' /\ Decision(c)'
        BY <3>1
      <3>4. Context(c)'
        BY <3>1 DEF Canceled
      <3>5. Outcome(c)'
        BY <3>1, <3>2
      <3> QED BY <3>3, <3>4, <3>5
    <2>13. CASE Reply(c)
      BY <2>13 DEF Reply
    <2>14. CASE ClientLeaves(c)
      BY <2>14 DEF ClientLeaves, Canceled
    <2>15. CASE DeadlinePasses(c)
      BY <2>15 DEF DeadlinePasses
    <2> QED
      BY <1>n, <2>1, <2>2, <2>3, <2>4, <2>5, <2>6, <2>7, <2>8, <2>9, <2>10, <2>11,
         <2>12, <2>13, <2>14, <2>15 DEF EngineStep, HandlerStep
  <1> QED
    BY <1>u, <1>n DEF Next

\* The invariant from which every property below follows.
LEMMA Invariant == Spec => []IInv
  BY InvInit, InvStep, PTL DEF Spec

-------------------------------------------------------------------------------
\* What the invariant implies

\* A call past the decision was let in exactly when its caller is authorised.
LEMMA LetInIsAuthorised ==
  ASSUME IInv, NEW c \in Calls, pc[c] \notin Early
  PROVE  request[c] \in Requests /\ (allowed[c] <=> Authorised(request[c]))
  BY RefusedUnlessAuthorised DEF IInv, TypeInv, HasRequest, Decision, Early

\* The only event a call leaves is the one its deferred functions write.
LEMMA EventsOf ==
  ASSUME IInv, NEW c \in Calls
  PROVE  /\ Len(events[c]) = IF pc[c] \in Audited THEN 1 ELSE 0
         /\ \A k \in 1..Len(events[c]) : pc[c] \in Audited /\ events[c][k] = AuditEvent(c)
  <1>1. events[c] = IF pc[c] \in Audited THEN <<AuditEvent(c)>> ELSE <<>>
    BY DEF IInv, Outcome
  <1>2. CASE pc[c] \in Audited
    <2>1. events[c] = <<AuditEvent(c)>>
      BY <1>1, <1>2
    <2> QED BY <2>1, <1>2
  <1>3. CASE pc[c] \notin Audited
    <2>1. events[c] = <<>>
      BY <1>1, <1>3
    <2> QED BY <2>1, <1>3
  <1> QED BY <1>2, <1>3

\* What the fields of that event hold.
LEMMA FieldsOfEvent ==
  ASSUME NEW c \in Calls
  PROVE  /\ AuditEvent(c).request = request[c]
         /\ AuditEvent(c).allowed = allowed[c]
         /\ AuditEvent(c).success = (err[c] = {})
         /\ err[c] # {} => AuditEvent(c).code = ErrorCode(err[c])
  BY DEF AuditEvent

\* No business handler runs for a caller whom the table does not authorise,
\* and none runs twice for one call.
THEOREM OnlyAuthorisedRunHolds == Spec => []OnlyAuthorisedRun
  <1>1. IInv => OnlyAuthorisedRun
    <2> SUFFICES ASSUME IInv, NEW c \in Calls
                 PROVE  runs[c] <= 1 /\ (runs[c] = 1 => Authorised(request[c]))
      BY DEF OnlyAuthorisedRun
    <2>1. runs[c] \in {0, 1} /\ (runs[c] = 1 => pc[c] \notin Early /\ allowed[c])
      BY DEF IInv, TypeInv, TypeOK, Progress, Decision, Labels, Early, Late
    <2> QED BY <2>1, LetInIsAuthorised
  <1> QED BY <1>1, Invariant, PTL

\* Every call that has passed its deferred functions left exactly one event.
THEOREM AuditedOnceHolds == Spec => []AuditedOnce
  <1>1. IInv => AuditedOnce
    BY EventsOf DEF AuditedOnce, Audited
  <1> QED BY <1>1, Invariant, PTL

\* What the event says of a call is what happened to it.
THEOREM AuditTellsHowFarHolds == Spec => []AuditTellsHowFar
  <1>1. IInv => AuditTellsHowFar
    <2> SUFFICES ASSUME IInv, NEW c \in Calls, NEW k \in 1..Len(events[c])
                 PROVE  LET e == events[c][k] IN
                          /\ e.request = request[c]
                          /\ e.allowed <=> Authorised(e.request)
                          /\ ~e.allowed => e.code \in {"not_found", "forbidden"} /\ runs[c] = 0
                          /\ e.allowed /\ runs[c] = 0 => e.code = "invalid_input"
      BY DEF AuditTellsHowFar
    <2>1. pc[c] \in Audited /\ events[c][k] = AuditEvent(c)
      BY EventsOf
    <2>2. /\ events[c][k].request = request[c]
          /\ events[c][k].allowed = allowed[c]
          /\ err[c] # {} => events[c][k].code = ErrorCode(err[c])
      BY <2>1, FieldsOfEvent
    <2>3. pc[c] \in Late /\ pc[c] \notin Early
      BY <2>1 DEF Audited, Late, Early
    <2>4. request[c] \in Requests /\ (allowed[c] <=> Authorised(request[c]))
      BY <2>3, LetInIsAuthorised
    <2>5. ~allowed[c] =>
            /\ err[c] \in {{"error", "forbidden"}, {"error", "not_found"}}
            /\ runs[c] = 0
      BY <2>3, <2>4, RefusalKinds DEF IInv, Decision, Early
    <2>6. allowed[c] /\ runs[c] = 0 => err[c] = {"error", "invalid_input"}
      BY <2>3 DEF IInv, Decision
    <2>7. ~allowed[c] => ErrorCode(err[c]) \in {"not_found", "forbidden"} /\ err[c] # {}
      BY <2>5 DEF ErrorCode
    <2>8. allowed[c] /\ runs[c] = 0 => ErrorCode(err[c]) = "invalid_input" /\ err[c] # {}
      BY <2>6 DEF ErrorCode
    <2> QED
      BY <2>2, <2>4, <2>5, <2>7, <2>8
  <1> QED BY <1>1, Invariant, PTL

\* Both classifications agree on every error that wraps one sentinel at most,
\* whatever the order in which they try the sentinels.
LEMMA ClassificationsAgree ==
  ASSUME NEW e \in Errors, e # {}, OneSentinel(e)
  PROVE  ToolError(e) = PublicText(ErrorCode(e)) /\ ToolError(e) # "value"
  BY DEF Errors, Sentinels, OneSentinel, ToolError, ErrorCode, PublicText

\* The caller is told what the audit recorded.
THEOREM AnswerMatchesAuditHolds == Spec => []AnswerMatchesAudit
  <1>1. IInv => AnswerMatchesAudit
    <2> SUFFICES ASSUME IInv, NEW c \in Calls, At(c, "returned"), ~panicked[c],
                        OneSentinel(err[c]), NEW k \in 1..Len(events[c])
                 PROVE  /\ events[c][k].success <=> answer[c] = "value"
                        /\ ~events[c][k].success => answer[c] = PublicText(events[c][k].code)
      BY DEF AnswerMatchesAudit
    <2>2. /\ events[c][k].success = (err[c] = {})
          /\ err[c] # {} => events[c][k].code = ErrorCode(err[c])
      BY EventsOf, FieldsOfEvent
    <2>3. answer[c] = IF err[c] = {} THEN "value" ELSE ToolError(err[c])
      BY DEF IInv, Outcome, At
    <2>4. err[c] \in Errors
      BY DEF IInv, TypeInv, TypeOK
    <2>5. CASE err[c] = {}
      BY <2>2, <2>3, <2>5
    <2>6. CASE err[c] # {}
      <3>1. /\ ToolError(err[c]) = PublicText(ErrorCode(err[c]))
            /\ ToolError(err[c]) # "value"
        BY <2>4, <2>6, ClassificationsAgree
      <3> QED BY <2>2, <2>3, <2>6, <3>1
    <2> QED BY <2>5, <2>6
  <1> QED BY <1>1, Invariant, PTL

\* No context outlives its caller or its call.
THEOREM ContextEndsHolds == Spec => []ContextEnds
  <1>1. IInv => ContextEnds
    BY DEF IInv, Context, ContextEnds, Audited
  <1> QED BY <1>1, Invariant, PTL

-------------------------------------------------------------------------------
\* Refinement: what the contract sees of a call.

RanOf == [c \in Calls |-> runs[c] > 0]
RecordOf == [c \in Calls |->
               IF events[c] = <<>> THEN "none"
               ELSE IF events[c][1].allowed THEN "allowed" ELSE "refused"]
AnswerOf == [c \in Calls |->
               IF answer[c] \in {"none", "value", "aborted"} THEN answer[c] ELSE "error"]

\* What the contract lets an answer stand for.
LEMMA ToolErrorKinds == \A e : ToolError(e) \notin {"none", "value", "aborted"}
  BY DEF ToolError

\* The record that Audit leaves is the contract's verdict on the request.
LEMMA AuditRecords ==
  ASSUME IInv, IInv', NEW c \in Calls, Audit(c)
  PROVE  Contract!Record(c)
  <1>1. /\ pc[c] = "deferred" /\ pc'[c] = "reply"
        /\ UNCHANGED <<request, allowed, runs, answer>>
        /\ \A d \in Calls \ {c} : events'[d] = events[d]
    BY DEF Audit, At, Goto, IInv, TypeInv, TypeOK
  <1>2. events[c] = <<>>
    BY <1>1 DEF IInv, Outcome, Audited
  <1>3. events'[c] = <<AuditEvent(c)'>>
    BY <1>1 DEF IInv, Outcome, Audited
  <1>4. AuditEvent(c)'.allowed = allowed[c]
    BY <1>1 DEF AuditEvent
  <1>5. events'[c] # <<>> /\ events'[c][1].allowed = allowed[c]
    BY <1>3, <1>4
  <1>6. request[c] \in Requests /\ (allowed[c] <=> Authorised(request[c]))
    BY <1>1, LetInIsAuthorised DEF Early
  <1>7. allowed[c] <=> request[c] \in {q \in Requests : Authorised(q)}
    BY <1>6
  <1>8. RecordOf[c] = "none"
    BY <1>2 DEF RecordOf
  <1>9. RecordOf' = [RecordOf EXCEPT ![c] =
          IF request[c] \in {q \in Requests : Authorised(q)} THEN "allowed" ELSE "refused"]
    BY <1>1, <1>5, <1>7 DEF RecordOf
  <1>10. request[c] # NoRequest
    BY <1>6, ExecutionAssumption
  <1>11. RanOf' = RanOf /\ AnswerOf' = AnswerOf
    BY <1>1 DEF RanOf, AnswerOf
  <1> QED
    BY <1>1, <1>8, <1>9, <1>10, <1>11 DEF Contract!Record, RecordOf, RanOf, AnswerOf

\* An answer follows a record, and a value or an abort follows a run.
LEMMA ReplyAnswers ==
  ASSUME IInv, IInv', NEW c \in Calls, Reply(c)
  PROVE  Contract!Answer(c)
  <1>1. /\ pc[c] = "reply"
        /\ UNCHANGED <<request, runs, events>>
        /\ \A d \in Calls \ {c} : answer'[d] = answer[d]
        /\ answer'[c] = IF panicked[c] THEN "aborted"
                        ELSE IF err[c] = {} THEN "value" ELSE ToolError(err[c])
    BY DEF Reply, At, Goto, IInv, TypeInv, TypeOK
  <1>2. RecordOf[c] # "none"
    <2>1. events[c] = <<AuditEvent(c)>>
      BY <1>1 DEF IInv, Outcome, Audited
    <2>2. events[c] # <<>>
      BY <2>1
    <2> QED BY <2>2 DEF RecordOf
  <1>3. AnswerOf[c] = "none"
    BY <1>1 DEF IInv, Outcome, AnswerOf
  <1>4. panicked[c] \/ err[c] = {} => RanOf[c]
    <2>1. panicked[c] \/ err[c] = {} => runs[c] = 1
      BY <1>1 DEF IInv, Decision, Late, Early
    <2>2. RanOf[c] <=> runs[c] > 0
      BY DEF RanOf
    <2> QED BY <2>1, <2>2
  <1>5. PICK a \in {"value", "error", "aborted"} :
          /\ a \in {"value", "aborted"} => RanOf[c]
          /\ AnswerOf'[c] = a
    BY <1>1, <1>4, ToolErrorKinds DEF AnswerOf
  <1>6. AnswerOf' = [AnswerOf EXCEPT ![c] = a]
    BY <1>1, <1>5 DEF AnswerOf
  <1>7. RanOf' = RanOf /\ RecordOf' = RecordOf
    BY <1>1 DEF RanOf, RecordOf
  <1> QED
    BY <1>1, <1>2, <1>3, <1>5, <1>6, <1>7
       DEF Contract!Answer, Contract!Answers, RecordOf, RanOf, AnswerOf

\* A handler is entered once, by a call the contract lets run.
LEMMA EnterHandlerRuns ==
  ASSUME IInv, NEW c \in Calls, EnterHandler(c)
  PROVE  Contract!Run(c)
  <1>1. /\ pc[c] = "decode"
        /\ UNCHANGED <<request, events, answer>>
        /\ runs' = [runs EXCEPT ![c] = @ + 1]
    BY DEF EnterHandler, At
  <1>2. runs[c] = 0 /\ allowed[c] /\ events[c] = <<>>
    BY <1>1 DEF IInv, Progress, Outcome, Audited
  <1>3. request[c] \in {q \in Requests : Authorised(q)}
    BY <1>1, <1>2, LetInIsAuthorised DEF Early
  <1>4. runs \in [Calls -> Nat]
    BY DEF IInv, TypeInv, TypeOK
  <1>5. RanOf' = [RanOf EXCEPT ![c] = TRUE]
    <2>1. runs'[c] = 1 /\ \A d \in Calls \ {c} : runs'[d] = runs[d]
      BY <1>1, <1>2, <1>4
    <2>2. runs'[c] > 0
      BY <2>1
    <2> QED BY <2>1, <2>2 DEF RanOf
  <1>6. ~RanOf[c] /\ RecordOf[c] = "none"
    <2>1. ~(runs[c] > 0)
      BY <1>2
    <2> QED BY <1>2, <2>1 DEF RanOf, RecordOf
  <1>7. RecordOf' = RecordOf /\ AnswerOf' = AnswerOf
    BY <1>1 DEF RecordOf, AnswerOf
  <1> QED
    BY <1>1, <1>3, <1>5, <1>6, <1>7 DEF Contract!Run, RecordOf, RanOf, AnswerOf

\* A call asks once.
LEMMA BeginAsks ==
  ASSUME IInv, NEW c \in Calls, Begin(c)
  PROVE  Contract!Ask(c)
  <1>1. request[c] = NoRequest
    BY DEF Begin, At, IInv, Progress
  <1>2. UNCHANGED <<runs, events, answer>>
    BY DEF Begin
  <1>3. RanOf' = RanOf /\ RecordOf' = RecordOf /\ AnswerOf' = AnswerOf
    BY <1>2 DEF RanOf, RecordOf, AnswerOf
  <1> QED
    BY <1>1, <1>3 DEF Begin, Contract!Ask, RecordOf, RanOf, AnswerOf

\* Execution implements ToolContract: Begin asks, EnterHandler runs, Audit
\* records, Reply answers, and the contract does not see any other step.
THEOREM ContractImplemented == Spec => ImplementsContract
  <1>1. Init => Contract!Init
    <2> SUFFICES ASSUME Init PROVE Contract!Init
      OBVIOUS
    <2>1. RanOf = [c \in Calls |-> FALSE]
      <3>1. \A c \in Calls : (runs[c] > 0) = FALSE
        BY DEF Init
      <3> QED BY <3>1 DEF RanOf
    <2>2. RecordOf = [c \in Calls |-> "none"]
      BY DEF Init, RecordOf
    <2>3. AnswerOf = [c \in Calls |-> "none"]
      BY DEF Init, AnswerOf
    <2> QED
      BY <2>1, <2>2, <2>3 DEF Init, Contract!Init, RanOf, RecordOf, AnswerOf
  <1>2. ASSUME IInv, IInv', [Next]_vars
        PROVE  [Contract!Next]_Contract!vars
    <2>1. CASE UNCHANGED <<request, runs, events, answer>>
      <3>1. RanOf' = RanOf /\ RecordOf' = RecordOf /\ AnswerOf' = AnswerOf
        BY <2>1 DEF RanOf, RecordOf, AnswerOf
      <3> QED BY <2>1, <3>1 DEF Contract!vars, RanOf, RecordOf, AnswerOf
    <2>2. CASE \E c \in Calls : Begin(c) \/ EnterHandler(c) \/ Audit(c) \/ Reply(c)
      BY <1>2, <2>2, BeginAsks, EnterHandlerRuns, AuditRecords, ReplyAnswers
         DEF Contract!Next
    <2> QED
      BY <1>2, <2>1, <2>2
         DEF Next, vars, EngineStep, HandlerStep, Refuse, Admit, RejectInput,
             HandlerReturns, HandlerFails, HandlerGivesUp, HandlerPanics, RejectOutput,
             SecureOutput, ClientLeaves, DeadlinePasses
  <1> QED
    BY <1>1, <1>2, Invariant, PTL DEF Spec, ImplementsContract, Contract!Spec
===============================================================================
