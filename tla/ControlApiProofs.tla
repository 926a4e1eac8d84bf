--------------------------- MODULE ControlApiProofs ---------------------------
(***************************************************************************)
(* Proofs about the control API's handlers (ControlApi): what the audit    *)
(* trail says of the changes in force, for any number of handlers, any     *)
(* interleaving of their steps and every fault.                            *)
(***************************************************************************)
EXTENDS ControlApi, TLAPS, SequenceTheorems

Stage == {"idle", "before", "change", "after", "audit", "send", "recover", "clear", "answered"}
Status == {"none", "ok", "error", "unknown", "bad_gateway", "cut"}
Changing == {"access", "pin", "unpin", "budgets"}
Seen == Domain \union {"none", "up", "down", "agent"}

TypeOK ==
  /\ allow \subseteq Domain
  /\ override \in [Endpoint -> {"none", "up", "down"}]
  /\ spent \in BOOLEAN
  /\ up \in [Endpoint -> BOOLEAN]
  /\ audit \in Seq(Call)
  /\ pc \in [Call -> Stage]
  /\ req \in [Call -> Requests \union {NoRequest}]
  /\ before \in [Call -> SUBSET Seen]
  /\ after \in [Call -> SUBSET Seen]
  /\ revived \in [Call -> [todo : SUBSET Endpoint, up : SUBSET Endpoint]]
  /\ answer \in [Call -> Status]
  /\ prior \in [Call -> SUBSET Call]
  /\ crashes \in {0, 1}

\* A handler stands only where its request's path leads; rows are of handlers
\* that answered 200, and a call was answered before those it came before began.
Shape(c) ==
  /\ ~Begun(c) => req[c] = NoRequest /\ revived[c] = NotAsked
  /\ Begun(c) => req[c] \in Requests
  /\ pc[c] \in {"before", "change"} => req[c].op \in Changing
  /\ pc[c] = "after" => req[c].op \in {"access", "budgets"}
  /\ pc[c] = "send" => req[c].op = "inject"
  /\ pc[c] \in {"recover", "clear"} => req[c].op = "reset"
  /\ pc[c] = "answered" <=> answer[c] # "none"
  /\ \A b \in prior[c] : pc[b] = "answered"
  /\ c \in Rows => answer[c] = "ok"

CallShape == \A c \in Call : Shape(c)

Base == TypeOK /\ CallShape

-----------------------------------------------------------------------------
(* Requests. *)

\* A request is known by its three fields, and its operation says which they
\* may be.
LEMMA RequestShape ==
  ASSUME NEW r \in Requests
  PROVE  /\ r = [op |-> r.op, on |-> r.on, value |-> r.value]
         /\ r.op \in Changing \union {"inject", "activity", "reset"}
         /\ r.op = "access" => r.on \in Domain \union {Unknown} /\ r.value \in {"grant", "revoke"}
         /\ r.op \in {"pin", "unpin"} => r.on \in Endpoint \union {Unknown} /\ r.value \in {"up", "down", "none"}
         /\ r.op = "inject" => r.on \in Endpoint \union {Unknown}
<1>1. CASE r \in [op : {"access"}, on : Domain \union {Unknown}, value : {"grant", "revoke"}]
  BY <1>1 DEF Changing
<1>2. CASE r \in [op : {"pin"}, on : Endpoint \union {Unknown}, value : {"up", "down"}]
  BY <1>2 DEF Changing
<1>3. CASE r \in [op : {"unpin"}, on : Endpoint \union {Unknown}, value : {"none"}]
  BY <1>3 DEF Changing
<1>4. CASE r \in [op : {"inject"}, on : Endpoint \union {Unknown}, value : {"fail", "recover"}]
  BY <1>4 DEF Changing
<1>5. CASE r \in [op : {"budgets", "activity", "reset"}, on : {Unknown}, value : {"none"}]
  BY <1>5 DEF Changing
<1> QED BY <1>1, <1>2, <1>3, <1>4, <1>5 DEF Requests

LEMMA StageFollows ==
  ASSUME NEW r \in Requests
  PROVE  /\ FirstStage(r.op) \in {"before", "send", "audit", "recover"}
         /\ FirstStage(r.op) = "before" => r.op \in Changing
         /\ FirstStage(r.op) = "send" => r.op = "inject"
         /\ FirstStage(r.op) = "audit" => r.op = "activity"
         /\ FirstStage(r.op) = "recover" => r.op = "reset"
BY RequestShape DEF FirstStage, Changing

LEMMA SnapshotType ==
  ASSUME TypeOK, NEW c \in Call, req[c] \in Requests, req[c].op \in Changing
  PROVE  Snapshot(req[c]) \subseteq Seen
<1> DEFINE r == req[c]
<1>1. CASE r.op = "access" BY <1>1 DEF Snapshot, TypeOK, Seen
<1>2. CASE r.op \in {"pin", "unpin"} BY <1>2, RequestShape DEF Snapshot, TypeOK, Seen
<1>3. CASE r.op = "budgets" BY <1>3 DEF Snapshot, Seen
<1> QED BY <1>1, <1>2, <1>3 DEF Changing

-----------------------------------------------------------------------------
(* What a handler's step leaves alone. *)

\* Only a call that has begun and is not answered moves, and it moves nothing
\* of another's.
LEMMA HandleFrame ==
  ASSUME TypeOK, NEW c \in Call, Handle(c)
  PROVE  /\ Active(c) /\ pc'[c] # "idle"
         /\ req' = req /\ prior' = prior /\ crashes' = crashes
         /\ \A b \in Call \ {c} : /\ pc'[b] = pc[b] /\ answer'[b] = answer[b]
                                  /\ before'[b] = before[b] /\ after'[b] = after[b]
                                  /\ revived'[b] = revived[b]
<1> USE DEF Active, Begun, call, At, TypeOK
<1>1. CASE ReadBefore(c) \/ ReadAfter(c) BY <1>1 DEF ReadBefore, ReadAfter, Goto
<1>2. CASE SetAccess(c) \/ SetHealth(c) \/ ResetBudgets(c)
  BY <1>2 DEF SetAccess, SetHealth, ResetBudgets, Goto
<1>3. CASE RejectUnknown(c) \/ InjectUnknown(c) \/ Inject(c) \/ InjectFails(c)
  BY <1>3 DEF RejectUnknown, InjectUnknown, Inject, InjectFails, Goto, Answer
<1>4. CASE Record(c) \/ DiskFull(c) BY <1>4 DEF Record, DiskFull, Answer
<1>5. CASE \E e \in Endpoint : Recover(c, e) \/ RecoverFails(c, e) \/ RecoverRaises(c, e)
  BY <1>5 DEF Recover, RecoverFails, RecoverRaises, Answer
<1>6. CASE Restore(c) \/ RestoreHalf(c) \/ Clear(c) BY <1>6 DEF Restore, RestoreHalf, Clear, Goto, Answer
<1> QED BY <1>1, <1>2, <1>3, <1>4, <1>5, <1>6 DEF Handle

\* The stages a handler of each operation goes through before its answer.
StepsOf(op) ==
  {<<"send", "audit">>, <<"recover", "recover">>, <<"recover", "clear">>, <<"clear", "audit">>,
   <<"before", "change">>}
    \union (IF op \in {"access", "budgets"} THEN {<<"change", "after">>, <<"after", "audit">>} ELSE {})
    \union (IF op \in {"pin", "unpin"} THEN {<<"change", "audit">>} ELSE {})

\* 200 is the answer of a handler that wrote its row, and of no other.
LEMMA Path ==
  ASSUME TypeOK, NEW c \in Call, Shape(c), Handle(c)
  PROVE  \/ pc'[c] = "answered" /\ answer'[c] # "none" /\ (answer'[c] = "ok" <=> Record(c))
         \/ <<pc[c], pc'[c]>> \in StepsOf(req[c].op) /\ answer'[c] = answer[c] /\ ~Record(c)
<1> USE DEF At, TypeOK, StepsOf
<1>1. CASE Record(c) BY <1>1 DEF Record, Answer
<1>2. CASE ReadBefore(c) \/ ReadAfter(c) BY <1>2 DEF ReadBefore, ReadAfter, Record, Goto, Shape
<1>3. CASE SetAccess(c) \/ SetHealth(c) \/ ResetBudgets(c)
  BY <1>3 DEF SetAccess, SetHealth, ResetBudgets, Record, Goto
<1>4. CASE RejectUnknown(c) \/ InjectUnknown(c) \/ Inject(c) \/ InjectFails(c)
  BY <1>4 DEF RejectUnknown, InjectUnknown, Inject, InjectFails, Record, Goto, Answer
<1>5. CASE DiskFull(c) BY <1>5 DEF DiskFull, Answer, Record
<1>6. CASE \E e \in Endpoint : Recover(c, e) \/ RecoverFails(c, e) \/ RecoverRaises(c, e)
  BY <1>6 DEF Recover, RecoverFails, RecoverRaises, Record, Answer
<1>7. CASE Restore(c) \/ RestoreHalf(c) \/ Clear(c)
  BY <1>7 DEF Restore, RestoreHalf, Clear, Record, Goto, Answer
<1> QED BY <1>1, <1>2, <1>3, <1>4, <1>5, <1>6, <1>7 DEF Handle

-----------------------------------------------------------------------------
(* Types and shape. *)

LEMMA BaseInit == Init => Base
<1> SUFFICES ASSUME Init PROVE Base OBVIOUS
<1>1. audit \in Seq(Call) /\ Rows = {} BY EmptySeq DEF Init, Rows
<1>2. TypeOK BY <1>1, ControlAssumption DEF Init, TypeOK, NotAsked, Stage, Status, Seen, ControlAssumption
<1>3. CallShape BY <1>1 DEF Init, CallShape, Shape, Begun
<1> QED BY <1>2, <1>3 DEF Base

LEMMA AnswerType ==
  ASSUME TypeOK, NEW c \in Call, NEW s \in Status, Answer(c, s)
  PROVE  pc' \in [Call -> Stage] /\ answer' \in [Call -> Status]
BY DEF Answer, TypeOK, Stage

LEMMA GotoType ==
  ASSUME TypeOK, NEW c \in Call, NEW s \in Stage, Goto(c, s)
  PROVE  pc' \in [Call -> Stage] /\ answer' \in [Call -> Status]
BY DEF Goto, TypeOK

LEMMA TypeKept == Base /\ [Next]_vars => TypeOK'
<1> SUFFICES ASSUME Base, [Next]_vars PROVE TypeOK' OBVIOUS
<1> USE DEF engine, call, Stage, Status
<1>0. TypeOK BY DEF Base
<1>1. ASSUME NEW c \in Call, NEW r \in Asked, Begin(c, r) PROVE TypeOK'
  <2>1. r \in Requests BY ControlAssumption DEF ControlAssumption
  <2>2. FirstStage(r.op) \in Stage BY <2>1, StageFollows
  <2>3. pc' \in [Call -> Stage] /\ answer' \in [Call -> Status] BY <1>0, <1>1, <2>2, GotoType DEF Begin
  <2>4. req' \in [Call -> Requests \union {NoRequest}] BY <1>0, <1>1, <2>1 DEF Begin, TypeOK
  <2>5. prior' \in [Call -> SUBSET Call] BY <1>0, <1>1 DEF Begin, TypeOK
  <2>6. revived' \in [Call -> [todo : SUBSET Endpoint, up : SUBSET Endpoint]]
    <3> DEFINE asked == IF r.op = "reset" THEN Endpoint ELSE {}
    <3>1. asked \in SUBSET Endpoint OBVIOUS
    <3>2. revived' = [revived EXCEPT ![c].todo = asked] BY <1>1 DEF Begin
    <3> QED BY <1>0, <3>1, <3>2 DEF TypeOK
  <2> QED BY <1>0, <1>1, <2>3, <2>4, <2>5, <2>6 DEF Begin, TypeOK
<1>2. ASSUME NEW c \in Call, Handle(c) PROVE TypeOK'
  <2>1. Begun(c) /\ req[c] \in Requests BY <1>0, <1>2, HandleFrame DEF Active, Base, CallShape, Shape
  <2>2. CASE ReadBefore(c)
    <3>1. req[c].op \in Changing BY <2>2 DEF ReadBefore, Base, CallShape, Shape
    <3> QED BY <1>0, <2>1, <2>2, <3>1, SnapshotType DEF ReadBefore, Goto, TypeOK
  <2>3. CASE ReadAfter(c)
    <3>1. req[c].op \in Changing BY <2>3 DEF ReadAfter, Base, CallShape, Shape, Changing
    <3> QED BY <1>0, <2>1, <2>3, <3>1, SnapshotType DEF ReadAfter, Goto, TypeOK
  <2>4. CASE SetAccess(c)
    <3>1. req[c].on \in Domain BY <2>1, <2>4, RequestShape DEF SetAccess, At
    <3> QED BY <1>0, <2>4, <3>1 DEF SetAccess, Goto, TypeOK
  <2>5. CASE SetHealth(c)
    <3>1. req[c].on \in Endpoint /\ req[c].value \in {"none", "up", "down"}
      BY <2>1, <2>5, RequestShape DEF SetHealth
    <3>2. override' \in [Endpoint -> {"none", "up", "down"}] BY <1>0, <2>5, <3>1 DEF SetHealth, TypeOK
    <3>3. after' \in [Call -> SUBSET Seen] BY <1>0, <2>5, <3>1 DEF SetHealth, TypeOK, Seen
    <3> QED BY <1>0, <2>5, <3>2, <3>3 DEF SetHealth, Goto, TypeOK
  <2>6. CASE ResetBudgets(c) BY <1>0, <2>6 DEF ResetBudgets, Goto, TypeOK
  <2>7. CASE RejectUnknown(c) \/ InjectUnknown(c) \/ DiskFull(c)
    <3>1. pc' \in [Call -> Stage] /\ answer' \in [Call -> Status]
      BY <1>0, <2>7, AnswerType DEF RejectUnknown, InjectUnknown, DiskFull
    <3> QED BY <1>0, <2>7, <3>1 DEF RejectUnknown, InjectUnknown, DiskFull, TypeOK
  <2>8. CASE Inject(c) \/ InjectFails(c)
    <3>1. up' \in [Endpoint -> BOOLEAN] BY <1>0, <2>8 DEF Inject, InjectFails, TypeOK
    <3>2. pc' \in [Call -> Stage] /\ answer' \in [Call -> Status]
      BY <1>0, <2>8, AnswerType, GotoType DEF Inject, InjectFails
    <3> QED BY <1>0, <2>8, <3>1, <3>2 DEF Inject, InjectFails, TypeOK
  <2>9. CASE Record(c)
    <3>1. audit' \in Seq(Call) BY <1>0, <2>9, AppendProperties DEF Record, TypeOK
    <3> QED BY <1>0, <2>9, <3>1 DEF Record, Answer, TypeOK
  <2>10. CASE \E e \in Endpoint : Recover(c, e) \/ RecoverFails(c, e) \/ RecoverRaises(c, e)
    <3>1. PICK e \in Endpoint : Recover(c, e) \/ RecoverFails(c, e) \/ RecoverRaises(c, e) BY <2>10
    <3>2. CASE Recover(c, e) BY <1>0, <3>2 DEF Recover, TypeOK
    <3>3. CASE RecoverFails(c, e)
      <4>1. up' \in [Endpoint -> BOOLEAN] BY <1>0, <3>3 DEF RecoverFails, TypeOK
      <4> QED BY <1>0, <3>3, <4>1 DEF RecoverFails, TypeOK
    <3>4. CASE RecoverRaises(c, e) BY <1>0, <3>4 DEF RecoverRaises, Answer, TypeOK
    <3> QED BY <3>1, <3>2, <3>3, <3>4
  <2>11. CASE Restore(c) \/ RestoreHalf(c)
    <3>1. pc' \in [Call -> Stage] /\ answer' \in [Call -> Status]
      BY <1>0, <2>11, AnswerType, GotoType DEF Restore, RestoreHalf
    <3>2. allow' \subseteq Domain /\ spent' \in BOOLEAN /\ override' \in [Endpoint -> {"none", "up", "down"}]
      <4>1. StartAllow \subseteq Domain BY ControlAssumption DEF ControlAssumption
      <4>2. CASE Restore(c) BY <4>1, <4>2 DEF Restore
      <4>3. CASE RestoreHalf(c) BY <1>0, <4>3 DEF RestoreHalf, TypeOK
      <4> QED BY <2>11, <4>2, <4>3
    <3> QED BY <1>0, <2>11, <3>1, <3>2 DEF Restore, RestoreHalf, TypeOK
  <2>12. CASE Clear(c)
    <3>1. audit' \in Seq(Call) BY <2>12, EmptySeq DEF Clear
    <3> QED BY <1>0, <2>12, <3>1 DEF Clear, Goto, TypeOK
  <2> QED BY <1>2, <2>2, <2>3, <2>4, <2>5, <2>6, <2>7, <2>8, <2>9, <2>10, <2>11, <2>12 DEF Handle
<1>3. CASE Restart BY <1>0, <1>3, ControlAssumption DEF Restart, TypeOK, ControlAssumption
<1>4. CASE UNCHANGED vars BY <1>0, <1>4 DEF TypeOK, vars
<1> QED BY <1>1, <1>2, <1>3, <1>4 DEF Next

\* A row is added by Record only, for the call that answers with it.
LEMMA RowsGrow ==
  ASSUME TypeOK, NEW c \in Call, Record(c)
  PROVE  Rows' = Rows \union {c}
<1>1. Len(audit) \in Nat /\ Len(audit') = Len(audit) + 1 BY AppendProperties, LenProperties DEF Record, TypeOK
<1>2. DOMAIN audit = 1 .. Len(audit) /\ DOMAIN audit' = 1 .. Len(audit')
  BY AppendProperties, LenProperties DEF Record, TypeOK
<1>3. \A i \in 1 .. Len(audit) : audit'[i] = audit[i] BY AppendProperties DEF Record, TypeOK
<1>4. audit'[Len(audit')] = c BY <1>1, AppendProperties DEF Record, TypeOK
<1>5. 1 .. Len(audit') = (1 .. Len(audit)) \union {Len(audit')} BY <1>1
<1> QED BY <1>2, <1>3, <1>4, <1>5 DEF Rows

LEMMA RowsAreCalls == Base => Rows \subseteq Call
<1> SUFFICES ASSUME Base PROVE \A i \in DOMAIN audit : audit[i] \in Call BY DEF Rows
<1> QED BY ElementOfSeq DEF Base, TypeOK

\* Every handler's step keeps the rows or adds its own, or clears them.
LEMMA RowsAfter ==
  ASSUME TypeOK, NEW c \in Call, Handle(c)
  PROVE  \/ Record(c) /\ Rows' = Rows \union {c}
         \/ Clear(c) /\ Rows' = {}
         \/ ~Record(c) /\ ~Clear(c) /\ audit' = audit /\ Rows' = Rows
<1>1. CASE Record(c) BY <1>1, RowsGrow
<1>2. CASE Clear(c) BY <1>2 DEF Clear, Rows
<1>3. CASE ~Record(c) /\ ~Clear(c)
  <2>1. audit' = audit
    BY <1>3 DEF Handle, ReadBefore, RejectUnknown, SetAccess, SetHealth, ResetBudgets, ReadAfter, InjectUnknown,
         Inject, InjectFails, DiskFull, Recover, RecoverFails, RecoverRaises, Restore, RestoreHalf
  <2> QED BY <1>3, <2>1 DEF Rows
<1> QED BY <1>1, <1>2, <1>3

LEMMA ShapeKept == Base /\ [Next]_vars => CallShape'
<1> SUFFICES ASSUME Base, [Next]_vars, NEW b \in Call PROVE Shape(b)' BY DEF CallShape
<1>0. TypeOK /\ Shape(b) BY DEF Base, CallShape
<1>1. ASSUME NEW c \in Call, NEW r \in Asked, Begin(c, r) PROVE Shape(b)'
  <2>1. r \in Requests BY ControlAssumption DEF ControlAssumption
  <2>2. Rows' = Rows /\ answer' = answer BY <1>1 DEF Begin, Goto, Rows
  <2>3. \A a \in Call : pc[a] = "answered" => pc'[a] = "answered" BY <1>0, <1>1 DEF Begin, Goto, TypeOK
  <2>4. CASE b = c
    <3>1. pc'[b] = FirstStage(r.op) /\ req'[b] = r /\ answer[b] = "none" /\ b \notin Rows
      BY <1>0, <1>1, <2>4 DEF Begin, Goto, TypeOK, Shape
    <3>2. prior'[b] = {a \in Call : pc[a] = "answered"} BY <1>0, <1>1, <2>4 DEF Begin, TypeOK
    <3> QED BY <2>1, <2>2, <2>3, <3>1, <3>2, StageFollows DEF Shape, Begun
  <2>5. CASE b # c
    <3>1. pc'[b] = pc[b] /\ req'[b] = req[b] /\ revived'[b] = revived[b] /\ prior'[b] = prior[b]
      BY <1>0, <1>1, <2>5 DEF Begin, Goto, TypeOK
    <3>2. prior[b] \subseteq Call BY <1>0 DEF TypeOK
    <3> QED BY <1>0, <2>2, <2>3, <3>1, <3>2 DEF Shape, Begun
  <2> QED BY <2>4, <2>5
<1>2. ASSUME NEW c \in Call, Handle(c) PROVE Shape(b)'
  <2>1. /\ Active(c) /\ pc'[c] # "idle" /\ req' = req /\ prior' = prior
        /\ \A a \in Call \ {c} : pc'[a] = pc[a] /\ answer'[a] = answer[a] /\ revived'[a] = revived[a]
    BY <1>0, <1>2, HandleFrame
  <2>2. prior[b] \subseteq Call BY <1>0 DEF TypeOK
  <2>3. \A a \in prior[b] : pc'[a] = "answered" BY <1>0, <2>1, <2>2 DEF Shape, Active
  <2>4. Rows' \subseteq Rows \union {c} BY <1>0, <1>2, RowsAfter
  <2>5. CASE b # c BY <1>0, <2>1, <2>3, <2>4, <2>5 DEF Shape, Begun
  <2>6. CASE b = c
    <3>1. Begun(b) /\ req'[b] \in Requests /\ Begun(b)' /\ answer[b] = "none" /\ b \notin Rows
      BY <1>0, <2>1, <2>6 DEF Shape, Active, Begun
    <3>2. \/ pc'[b] = "answered" /\ answer'[b] # "none" /\ (answer'[b] = "ok" <=> Record(b))
          \/ /\ <<pc[b], pc'[b]>> \in StepsOf(req[b].op)
             /\ answer'[b] = answer[b] /\ ~Record(b)
      BY <1>0, <1>2, <2>6, Path
    <3>3. req'[b] = req[b] /\ prior'[b] = prior[b] BY <2>1
    <3>4. b \in Rows' => Record(b) BY <1>0, <1>2, <2>6, <3>1, RowsAfter
    <3> QED BY <1>0, <2>3, <3>1, <3>2, <3>3, <3>4 DEF Shape, Begun, StepsOf, Changing
  <2> QED BY <2>5, <2>6
<1>3. CASE Restart
  <2>1. Rows' = Rows BY <1>3 DEF Restart, Rows
  <2>2. prior[b] \subseteq Call BY <1>0 DEF TypeOK
  <2> QED BY <1>0, <1>3, <2>1, <2>2 DEF Restart, Shape, Begun, Active, TypeOK, call
<1>4. CASE UNCHANGED vars
  <2>1. Rows' = Rows BY <1>4 DEF vars, Rows
  <2> QED BY <1>0, <1>4, <2>1 DEF vars, call, Shape, Begun
<1> QED BY <1>1, <1>2, <1>3, <1>4 DEF Next

THEOREM TypeCorrect == Spec => []Base
BY BaseInit, TypeKept, ShapeKept, PTL DEF Spec, Base

-----------------------------------------------------------------------------
(* Calls that run at the same time. *)

\* What was asked, and before whom, is settled when a call begins.
LEMMA BegunKept ==
  ASSUME Base, [Next]_vars, NEW c \in Call, Begun(c)
  PROVE  Begun(c)' /\ req'[c] = req[c] /\ prior'[c] = prior[c]
<1>0. TypeOK BY DEF Base
<1>1. CASE \E a \in Call, r \in Asked : Begin(a, r) BY <1>0, <1>1 DEF Begin, Goto, Begun, TypeOK
<1>2. ASSUME NEW a \in Call, Handle(a) PROVE Begun(c)' /\ req'[c] = req[c] /\ prior'[c] = prior[c]
  BY <1>0, <1>2, HandleFrame DEF Begun
<1>3. CASE Restart BY <1>0, <1>3 DEF Restart, Begun, Active, TypeOK, call
<1>4. CASE UNCHANGED vars BY <1>4 DEF vars, call, Begun
<1> QED BY <1>1, <1>2, <1>3, <1>4 DEF Next

LEMMA OverlapLasts ==
  ASSUME Base, [Next]_vars, NEW b \in Call, NEW c \in Call, Overlap(b, c)
  PROVE  Overlap(b, c)'
BY BegunKept DEF Overlap

\* Two calls that are both under way overlap.
LEMMA ActiveOverlap ==
  ASSUME Base, NEW b \in Call, NEW c \in Call, Active(b), Active(c)
  PROVE  Overlap(b, c)
BY DEF Overlap, Active, Begun, Base, CallShape, Shape

LEMMA MeetsLasts ==
  ASSUME Base, [Next]_vars, NEW c \in Call, MeetsReset(c)
  PROVE  MeetsReset(c)'
<1>1. PICK b \in Call \ {c} : req[b].op = "reset" /\ Overlap(b, c) BY DEF MeetsReset
<1>2. req'[b] = req[b] /\ Overlap(b, c)' BY <1>1, BegunKept, OverlapLasts DEF Overlap
<1> QED BY <1>1, <1>2 DEF MeetsReset

-----------------------------------------------------------------------------
(* The row of a handler that ran alone. *)

Alone(c) == \A b \in Call \ {c} : ~Overlap(b, c)

\* At each of its stages a lone handler knows what its own change does.
Shows(c) == req[c].op \in Changing /\ Alone(c) =>
  /\ pc[c] = "change" /\ req[c].op = "access" => before[c] = allow
  /\ pc[c] = "after" /\ req[c].op = "access" => allow = Changed(req[c], before[c])
  /\ pc[c] = "after" /\ req[c].op = "budgets" => ~spent
  /\ pc[c] = "audit" \/ c \in Rows => after[c] = Changed(req[c], before[c])

ShowsOwn == \A c \in Call : Shows(c)

LEMMA AloneBefore ==
  ASSUME Base, [Next]_vars, NEW c \in Call, Alone(c)'
  PROVE  Alone(c)
BY OverlapLasts DEF Alone

LEMMA ShowsKept == Base /\ Base' /\ ShowsOwn /\ [Next]_vars => ShowsOwn'
<1> SUFFICES ASSUME Base, Base', ShowsOwn, [Next]_vars, NEW b \in Call, req'[b].op \in Changing, Alone(b)'
             PROVE  Shows(b)'
  BY DEF ShowsOwn, Shows
<1>0. TypeOK /\ Shape(b) /\ Shape(b)' /\ Shows(b) /\ Alone(b) BY AloneBefore DEF Base, CallShape, ShowsOwn
<1>1. ASSUME NEW c \in Call, NEW r \in Asked, Begin(c, r) PROVE Shows(b)'
  <2>1. CASE b = c
    <3>1. r \in Requests /\ req'[b] = r /\ pc'[b] = FirstStage(r.op)
      BY <1>0, <1>1, <2>1, ControlAssumption DEF Begin, Goto, TypeOK, ControlAssumption
    <3>2. pc'[b] \notin {"change", "after", "audit", "answered"} BY <3>1, StageFollows DEF Changing
    <3> QED BY <1>0, <3>2 DEF Shape, Shows
  <2>2. CASE b # c
    <3>1. pc'[b] = pc[b] /\ req'[b] = req[b] /\ Rows' = Rows
      BY <1>0, <1>1, <2>2 DEF Begin, Goto, TypeOK, Rows
    <3> QED BY <1>0, <1>1, <3>1 DEF Begin, engine, Shows
  <2> QED BY <2>1, <2>2
<1>2. ASSUME NEW c \in Call, Handle(c), c # b PROVE Shows(b)'
  <2>1. ~Active(b) BY <1>0, <1>2, HandleFrame, ActiveOverlap DEF Alone
  <2>2. pc'[b] = pc[b] /\ req'[b] = req[b] /\ before'[b] = before[b] /\ after'[b] = after[b]
    BY <1>0, <1>2, HandleFrame
  <2>3. b \in Rows' => b \in Rows BY <1>0, <1>2, RowsAfter
  <2> QED BY <1>0, <2>1, <2>2, <2>3 DEF Shows, Active, Begun
<1>3. CASE Handle(b)
  <2>0. req'[b] = req[b] /\ Active(b) BY <1>0, <1>3, HandleFrame
  <2>1. b \in Rows' => Record(b) BY <1>0, <1>3, <2>0, RowsAfter DEF Shape, Active
  <2>2. CASE ReadBefore(b)
    <3>1. pc'[b] = "change" /\ allow' = allow /\ before'[b] = Snapshot(req[b])
      BY <1>0, <2>2 DEF ReadBefore, Goto, TypeOK, engine
    <3>2. ~Record(b) BY <2>2 DEF ReadBefore, Record
    <3> QED BY <2>0, <2>1, <3>1, <3>2 DEF Shows, Snapshot
  <2>3. CASE SetAccess(b)
    <3>1. pc[b] = "change" /\ req[b].op = "access" /\ pc'[b] = "after" /\ before'[b] = before[b]
      BY <1>0, <2>3 DEF SetAccess, At, Goto, TypeOK
    <3>2. allow' = Changed(req[b], before[b]) BY <1>0, <2>0, <2>3, <3>1 DEF SetAccess, Shows, Changed
    <3>3. ~Record(b) BY <3>1 DEF Record
    <3> QED BY <2>0, <2>1, <3>1, <3>2, <3>3 DEF Shows
  <2>4. CASE SetHealth(b)
    <3>1. pc'[b] = "audit" /\ after'[b] = {req[b].value} /\ req[b].op \in {"pin", "unpin"}
      BY <1>0, <2>4 DEF SetHealth, Goto, TypeOK
    <3> QED BY <2>0, <3>1 DEF Shows, Changed
  <2>5. CASE ResetBudgets(b)
    <3>1. pc'[b] = "after" /\ req[b].op = "budgets" /\ ~spent' BY <1>0, <2>5 DEF ResetBudgets, At, Goto, TypeOK
    <3>2. ~Record(b) BY <2>5 DEF ResetBudgets, At, Record
    <3> QED BY <2>0, <2>1, <3>1, <3>2 DEF Shows
  <2>6. CASE ReadAfter(b)
    <3>1. pc'[b] = "audit" /\ before'[b] = before[b] /\ after'[b] = Snapshot(req[b]) /\ pc[b] = "after"
      BY <1>0, <2>6 DEF ReadAfter, Goto, TypeOK
    <3>2. Snapshot(req[b]) = Changed(req[b], before[b])
      <4>1. CASE req[b].op = "access" BY <1>0, <2>0, <3>1, <4>1 DEF Shows, Snapshot
      <4>2. CASE req[b].op = "budgets" BY <1>0, <2>0, <3>1, <4>2 DEF Shows, Snapshot, Changed
      <4> QED BY <1>0, <3>1, <4>1, <4>2 DEF Shape
    <3> QED BY <2>0, <3>1, <3>2 DEF Shows
  <2>7. CASE Record(b)
    <3>1. pc'[b] = "answered" /\ pc[b] = "audit" /\ before'[b] = before[b] /\ after'[b] = after[b]
      BY <1>0, <2>7 DEF Record, Answer, TypeOK
    <3> QED BY <1>0, <2>0, <3>1 DEF Shows
  <2>8. CASE RejectUnknown(b) \/ DiskFull(b)
    <3>1. pc'[b] = "answered" /\ answer'[b] # "ok"
      BY <1>0, <2>8 DEF RejectUnknown, DiskFull, Answer, TypeOK
    <3> QED BY <1>0, <3>1 DEF Shows, Shape
  <2>9. CASE \/ InjectUnknown(b) \/ Inject(b) \/ InjectFails(b) \/ Restore(b) \/ RestoreHalf(b) \/ Clear(b)
             \/ \E e \in Endpoint : Recover(b, e) \/ RecoverFails(b, e) \/ RecoverRaises(b, e)
    <3>1. req[b].op \in {"inject", "reset"}
      BY <1>0, <2>9 DEF Shape, InjectUnknown, Inject, InjectFails, Restore, RestoreHalf, Clear, Recover, RecoverFails,
           RecoverRaises, At
    <3> QED BY <2>0, <3>1 DEF Changing
  <2> QED BY <1>3, <2>2, <2>3, <2>4, <2>5, <2>6, <2>7, <2>8, <2>9 DEF Handle
<1>4. CASE Restart
  <2>1. pc'[b] \in {"idle", "answered"} BY <1>0, <1>4 DEF Restart, Active, Begun
  <2>2. Rows' = Rows /\ req'[b] = req[b] /\ before'[b] = before[b] /\ after'[b] = after[b]
    BY <1>4 DEF Restart, Rows, call
  <2> QED BY <1>0, <2>1, <2>2 DEF Shows
<1>5. CASE UNCHANGED vars
  <2>1. Rows' = Rows BY <1>5 DEF vars, Rows
  <2> QED BY <1>0, <1>5, <2>1 DEF vars, engine, call, Shows
<1> QED BY <1>1, <1>2, <1>3, <1>4, <1>5 DEF Next

\* README.md:334, api.py:151-164, 191-234 and 278-299: whatever else happens,
\* the row of a handler that ran alone shows its own change and nothing else.
THEOREM RowsAreExact == Spec => []RowsShowTheChange
<1>1. Init => ShowsOwn
  <2> SUFFICES ASSUME Init, NEW c \in Call PROVE Shows(c) BY DEF ShowsOwn
  <2>1. pc[c] = "idle" /\ Rows = {} BY DEF Init, Rows
  <2> QED BY <2>1 DEF Shows
<1>2. Base /\ ShowsOwn => RowsShowTheChange
  <2> SUFFICES ASSUME Base, ShowsOwn, NEW c \in Rows, req[c].op \in Changing, Alone(c)
               PROVE  after[c] = Changed(req[c], before[c])
    BY RowsAreCalls DEF RowsShowTheChange, Alone, Changing
  <2> QED BY RowsAreCalls DEF ShowsOwn, Shows
<1> QED BY <1>1, <1>2, TypeCorrect, ShowsKept, PTL DEF Spec

-----------------------------------------------------------------------------
(* A reset that runs alone and last. *)

Latest(c) == \A b \in Call \ {c} : Begun(b) => b \in prior[c]

AsConfigured == allow = StartAllow /\ override = [e \in Endpoint |-> "none"] /\ ~spent

\* What a lone reset has achieved at each of its stages.
Restores(c) == req[c].op = "reset" /\ crashes = 0 /\ Latest(c) =>
  /\ \A e \in revived[c].up : up[e]
  /\ pc[c] \in {"clear", "audit"} \/ answer[c] = "ok" => AsConfigured
  /\ pc[c] = "audit" => audit = <<>>
  /\ answer[c] = "ok" => audit = <<c>>

Restoring == \A c \in Call : Restores(c)

LEMMA LatestBefore ==
  ASSUME Base, [Next]_vars, NEW c \in Call, Begun(c), Latest(c)'
  PROVE  Latest(c)
BY BegunKept DEF Latest

LEMMA RestoresKept == Base /\ Base' /\ Restoring /\ [Next]_vars => Restoring'
<1> SUFFICES ASSUME Base, Base', Restoring, [Next]_vars, NEW b \in Call,
                    req'[b].op = "reset", crashes' = 0, Latest(b)'
             PROVE  Restores(b)'
  BY DEF Restoring, Restores
<1>0. TypeOK /\ Shape(b) /\ Shape(b)' /\ Restores(b) BY DEF Base, CallShape, Restoring
<1>1. ASSUME NEW c \in Call, NEW r \in Asked, Begin(c, r) PROVE Restores(b)'
  <2>1. CASE b = c
    <3>1. r \in Requests /\ req'[b] = r /\ pc'[b] = FirstStage(r.op) /\ answer'[b] = answer[b] /\ ~Begun(b)
      BY <1>0, <1>1, <2>1, ControlAssumption DEF Begin, Goto, TypeOK, ControlAssumption, Begun
    <3>2. pc'[b] = "recover" BY <3>1, StageFollows DEF FirstStage
    <3>3. revived'[b].up = {} BY <1>0, <1>1, <2>1, <3>1 DEF Begin, Shape, NotAsked, TypeOK
    <3> QED BY <1>0, <3>2, <3>3 DEF Shape, Restores
  <2>2. CASE b # c
    <3>1. Begun(b) BY <1>0, <1>1, <2>2 DEF Begin, Goto, TypeOK, Shape, Begun, NoRequest
    <3>2. Begun(c)' /\ ~Begun(c)
      <4>1. r \in Requests BY ControlAssumption DEF ControlAssumption
      <4> QED BY <1>0, <1>1, <4>1, StageFollows DEF Begin, Goto, TypeOK, Begun
    <3>3. c \in prior'[b] /\ prior'[b] = prior[b] BY <2>2, <3>1, <3>2, BegunKept DEF Latest
    <3>4. pc[c] = "answered" BY <1>0, <3>3 DEF Shape
    <3> QED BY <1>1, <3>4 DEF Begin
  <2> QED BY <2>1, <2>2
<1>2. ASSUME NEW c \in Call, Handle(c), c # b PROVE Restores(b)'
  <2>1. Active(c) /\ Begun(c)' /\ req'[b] = req[b] /\ pc'[b] = pc[b] BY <1>0, <1>2, HandleFrame DEF Begun
  <2>2. Begun(b) BY <1>0, <2>1 DEF Shape, NoRequest
  <2>3. c \in prior'[b] /\ prior'[b] = prior[b] BY <1>2, <2>1, <2>2, BegunKept DEF Latest
  <2>4. pc[c] = "answered" BY <1>0, <2>3 DEF Shape
  <2> QED BY <2>1, <2>4 DEF Active
<1>3. CASE Handle(b)
  <2>0. /\ req'[b] = req[b] /\ crashes = 0 /\ Active(b) /\ Begun(b)
        /\ req[b].op = "reset" /\ Latest(b) /\ answer[b] = "none"
    BY <1>0, <1>3, HandleFrame, LatestBefore DEF Active, Begun, Shape
  <2>1. CASE Record(b)
    <3>1. audit' = <<b>> BY <1>0, <2>0, <2>1 DEF Record, Restores
    <3>2. pc'[b] = "answered" /\ AsConfigured /\ UNCHANGED <<engine, up, revived>>
      BY <1>0, <2>0, <2>1 DEF Record, Restores, Answer, TypeOK
    <3> QED BY <1>0, <2>0, <3>1, <3>2 DEF Restores, AsConfigured, engine
  <2>2. CASE DiskFull(b)
    BY <1>0, <2>0, <2>2 DEF DiskFull, Answer, TypeOK, Restores
  <2>3. CASE Restore(b)
    <3>1. pc'[b] = "clear" /\ answer' = answer /\ UNCHANGED <<up, revived>> /\ AsConfigured'
      BY <1>0, <2>3 DEF Restore, Goto, TypeOK, AsConfigured
    <3> QED BY <1>0, <2>0, <3>1 DEF Restores
  <2>4. CASE RestoreHalf(b)
    BY <1>0, <2>0, <2>4 DEF RestoreHalf, Answer, TypeOK, Restores
  <2>5. CASE Clear(b)
    <3>1. /\ pc'[b] = "audit" /\ answer' = answer /\ UNCHANGED <<engine, up, revived>>
          /\ AsConfigured /\ audit' = <<>>
      BY <1>0, <2>0, <2>5 DEF Clear, Goto, TypeOK, Restores
    <3> QED BY <1>0, <2>0, <3>1 DEF Restores, AsConfigured, engine
  <2>6. ASSUME NEW e \in Endpoint, Recover(b, e) \/ RecoverFails(b, e) \/ RecoverRaises(b, e)
        PROVE  Restores(b)'
    <3>1. pc[b] = "recover" /\ pc'[b] \in {"recover", "answered"} /\ answer'[b] \in {"none", "error"}
      BY <1>0, <2>0, <2>6 DEF Recover, RecoverFails, RecoverRaises, Answer, TypeOK
    <3>2. \A x \in revived'[b].up : up'[x]
      <4>0. \A x \in revived[b].up : up[x] /\ x \in Endpoint BY <1>0, <2>0 DEF Restores, TypeOK
      <4>1. CASE Recover(b, e)
        <5>1. revived'[b].up = revived[b].up \union {e} BY <1>0, <4>1 DEF Recover, TypeOK
        <5>2. \A x \in Endpoint : up'[x] = (x = e \/ up[x]) BY <1>0, <4>1 DEF Recover, TypeOK
        <5> QED BY <4>0, <5>1, <5>2
      <4>2. CASE RecoverFails(b, e)
        <5>1. revived'[b].up = revived[b].up BY <1>0, <4>2 DEF RecoverFails, TypeOK
        <5>2. \A x \in Endpoint : up[x] => up'[x] BY <1>0, <4>2 DEF RecoverFails, TypeOK
        <5> QED BY <4>0, <5>1, <5>2
      <4>3. CASE RecoverRaises(b, e) BY <4>0, <4>3 DEF RecoverRaises
      <4> QED BY <2>6, <4>1, <4>2, <4>3
    <3> QED BY <3>1, <3>2 DEF Restores
  <2>7. CASE \/ ReadBefore(b) \/ RejectUnknown(b) \/ SetAccess(b) \/ SetHealth(b) \/ ResetBudgets(b) \/ ReadAfter(b)
             \/ InjectUnknown(b) \/ Inject(b) \/ InjectFails(b)
    <3>1. req[b].op # "reset"
      BY <1>0, <2>7 DEF Shape, Changing, ReadBefore, RejectUnknown, SetAccess, SetHealth, ResetBudgets, ReadAfter,
           InjectUnknown, Inject, InjectFails, At
    <3> QED BY <2>0, <3>1
  <2> QED BY <1>3, <2>1, <2>2, <2>3, <2>4, <2>5, <2>6, <2>7 DEF Handle
<1>4. CASE Restart BY <1>0, <1>4 DEF Restart, TypeOK
<1>5. CASE UNCHANGED vars
  <2>1. Latest(b) BY <1>5 DEF vars, call, Latest, Begun
  <2> QED BY <1>0, <1>5, <2>1 DEF vars, engine, call, Restores, AsConfigured
<1> QED BY <1>1, <1>2, <1>3, <1>4, <1>5 DEF Next

\* README.md:230 and api.py:332-352: a reset that ran alone and last leaves the
\* starting policy, its own row as the trail, and up what it says recovered.
THEOREM ResetIsComplete == Spec => []ResetRestores
<1>1. Init => Restoring
  <2> SUFFICES ASSUME Init, NEW c \in Call PROVE Restores(c) BY DEF Restoring
  <2>1. req[c].op = "none" BY DEF Init, NoRequest
  <2> QED BY <2>1 DEF Restores
<1>2. Restoring => ResetRestores
  <2> SUFFICES ASSUME Restoring, NEW c \in Call, req[c].op = "reset", answer[c] = "ok", crashes = 0, Latest(c)
               PROVE  Deviations = {} /\ ~spent /\ audit = <<c>> /\ \A e \in revived[c].up : up[e]
    BY DEF ResetRestores, Latest
  <2>1. Restores(c) BY DEF Restoring
  <2>2. AsConfigured /\ audit = <<c>> /\ \A e \in revived[c].up : up[e] BY <2>1 DEF Restores
  <2>3. Deviations = {} BY <2>2 DEF AsConfigured, Deviations
  <2> QED BY <2>2, <2>3 DEF AsConfigured
<1> QED BY <1>1, <1>2, TypeCorrect, RestoresKept, PTL DEF Spec

-----------------------------------------------------------------------------
(* Every change in force has left a trace. *)

\* While a reset is about to clear the trail, what deviates from the start
\* was changed while it ran.
ClearKeepsTrace == \A b \in Call : pc[b] = "clear" =>
  \A r \in Deviations : \E c \in Call : req[c] = r /\ MeetsReset(c)

Traced(c) == c \in Rows \/ Active(c) \/ answer[c] = "error" \/ MeetsReset(c)

\* A deviation is a request the API takes, with something known for its object.
LEMMA DeviationShape ==
  ASSUME TypeOK, NEW r \in Deviations
  PROVE  /\ r.op \in {"access", "pin"} /\ r.on # Unknown
         /\ r.op = "access" => /\ r.on \in Domain
                               /\ r.value = IF r.on \in allow THEN "grant" ELSE "revoke"
         /\ r.op = "pin" => r.on \in Endpoint /\ r.value = override[r.on]
<1>1. CASE r \in {[op |-> "access", on |-> d, value |-> IF d \in allow THEN "grant" ELSE "revoke"] :
                     d \in {f \in Domain : f \in allow <=> f \notin StartAllow}}
  BY <1>1, ControlAssumption DEF ControlAssumption
<1>2. CASE r \in {[op |-> "pin", on |-> e, value |-> override[e]] : e \in {f \in Endpoint : override[f] # "none"}}
  BY <1>2, ControlAssumption DEF ControlAssumption
<1> QED BY <1>1, <1>2 DEF Deviations

\* A step that leaves the engine alone leaves the deviations alone.
LEMMA DeviationsSame ==
  ASSUME UNCHANGED <<allow, override>>
  PROVE  Deviations' = Deviations
BY DEF Deviations

\* Granting or revoking makes at most one deviation, the request itself.
LEMMA AccessDeviates ==
  ASSUME Base, NEW c \in Call, SetAccess(c)
  PROVE  Deviations' \subseteq Deviations \union {req[c]}
<1> DEFINE r == req[c]
<1>1. /\ r = [op |-> "access", on |-> r.on, value |-> r.value] /\ r.on \in Domain
      /\ r.value \in {"grant", "revoke"}
  BY RequestShape DEF SetAccess, At, Base, CallShape, Shape, Begun
<1>2. allow' = IF r.value = "grant" THEN allow \union {r.on} ELSE allow \ {r.on} BY DEF SetAccess
<1>3. override' = override BY DEF SetAccess
<1> DEFINE Dev(d, s) == [op |-> "access", on |-> d, value |-> IF d \in s THEN "grant" ELSE "revoke"]
<1>4. ASSUME NEW d \in Domain, d \in allow' <=> d \notin StartAllow
      PROVE  Dev(d, allow') \in Deviations \union {r}
  <2>1. CASE d = r.on BY <1>1, <1>2, <2>1
  <2>2. CASE d # r.on
    <3>1. d \in allow' <=> d \in allow BY <1>2, <2>2
    <3> QED BY <1>4, <3>1 DEF Deviations
  <2> QED BY <2>1, <2>2
<1> QED BY <1>3, <1>4 DEF Deviations

\* Pinning makes at most one, the request itself; unpinning makes none.
LEMMA HealthDeviates ==
  ASSUME Base, NEW c \in Call, SetHealth(c)
  PROVE  Deviations' \subseteq Deviations \union {req[c]}
<1> DEFINE r == req[c]
<1>1. /\ r = [op |-> r.op, on |-> r.on, value |-> r.value] /\ r.on \in Endpoint
      /\ r.op = "unpin" => r.value = "none"
      /\ r.op \in {"pin", "unpin"}
  <2>1. r \in Requests BY DEF SetHealth, Base, CallShape, Shape, Begun
  <2>2. r.op = "unpin" => r.value = "none" BY <2>1 DEF Requests
  <2> QED BY <2>1, <2>2, RequestShape DEF SetHealth
<1>2. override' = [override EXCEPT ![r.on] = r.value] /\ allow' = allow BY DEF SetHealth
<1>3. ASSUME NEW e \in Endpoint, override'[e] # "none"
      PROVE  [op |-> "pin", on |-> e, value |-> override'[e]] \in Deviations \union {r}
  <2>0. override \in [Endpoint -> {"none", "up", "down"}] BY DEF Base, TypeOK
  <2>1. CASE e = r.on BY <1>1, <1>2, <1>3, <2>0, <2>1
  <2>2. CASE e # r.on
    <3>1. override'[e] = override[e] BY <1>2, <2>0, <2>2
    <3> QED BY <1>3, <3>1 DEF Deviations
  <2> QED BY <2>1, <2>2
<1> QED BY <1>2, <1>3 DEF Deviations

LEMMA StartDeviates ==
  ASSUME allow = StartAllow, override = [e \in Endpoint |-> "none"]
  PROVE  Deviations = {}
BY DEF Deviations

\* So a deviation is an old one, or what the handler that moved asked for.
LEMMA DeviationsGrow ==
  ASSUME Base, NEW c \in Call, Handle(c), NEW r \in Deviations', r \notin Deviations
  PROVE  r = req[c] /\ Active(c)'
<1>0. TypeOK BY DEF Base
<1>1. CASE SetAccess(c)
  BY <1>0, <1>1, AccessDeviates, HandleFrame DEF SetAccess, Goto, TypeOK, Active, Begun
<1>2. CASE SetHealth(c)
  BY <1>0, <1>2, HealthDeviates, HandleFrame DEF SetHealth, Goto, TypeOK, Active, Begun
<1>3. CASE Restore(c)
  <2>1. allow' = StartAllow /\ override' = [e \in Endpoint |-> "none"] BY <1>3 DEF Restore
  <2>2. Deviations' = {} BY <2>1 DEF Deviations
  <2> QED BY <2>2
<1>4. CASE RestoreHalf(c)
  <2>1. allow' = allow /\ \A e \in Endpoint : override'[e] = "none" BY <1>4 DEF RestoreHalf
  <2>2. Deviations' \subseteq Deviations BY <2>1 DEF Deviations
  <2> QED BY <2>2
<1>5. CASE ~(SetAccess(c) \/ SetHealth(c) \/ Restore(c) \/ RestoreHalf(c))
  <2>1. UNCHANGED <<allow, override>>
    BY <1>5 DEF Handle, ReadBefore, RejectUnknown, ResetBudgets, ReadAfter, InjectUnknown, Inject, InjectFails, Record,
         DiskFull, Recover, RecoverFails, RecoverRaises, Clear, engine
  <2> QED BY <2>1, DeviationsSame
<1> QED BY <1>1, <1>2, <1>3, <1>4, <1>5

\* A change to something known ends with a row or with a 500.
LEMMA KnownIsAnswered ==
  ASSUME Base, NEW c \in Call, Handle(c), req[c].op \in {"access", "pin"}, req[c].on # Unknown
  PROVE  Active(c)' \/ c \in Rows' \/ answer'[c] = "error"
<1>0. TypeOK /\ Shape(c) BY DEF Base, CallShape
<1>1. CASE Record(c) BY <1>0, <1>1, RowsGrow
<1>2. CASE DiskFull(c) BY <1>0, <1>2 DEF DiskFull, Answer, TypeOK
<1>3. CASE ReadBefore(c) \/ SetAccess(c) \/ SetHealth(c) \/ ResetBudgets(c) \/ ReadAfter(c)
  BY <1>0, <1>3 DEF ReadBefore, SetAccess, SetHealth, ResetBudgets, ReadAfter, Goto, TypeOK, Active, Begun
<1>4. CASE RejectUnknown(c) BY <1>4 DEF RejectUnknown
<1>5. CASE InjectUnknown(c) \/ Inject(c) \/ InjectFails(c) BY <1>5 DEF InjectUnknown, Inject, InjectFails, At
<1>6. CASE \/ Restore(c) \/ RestoreHalf(c) \/ Clear(c)
           \/ \E e \in Endpoint : Recover(c, e) \/ RecoverFails(c, e) \/ RecoverRaises(c, e)
  BY <1>0, <1>6 DEF Shape, Restore, RestoreHalf, Clear, Recover, RecoverFails, RecoverRaises
<1> QED BY <1>1, <1>2, <1>3, <1>4, <1>5, <1>6 DEF Handle

\* What follows needs of a step: the calls' requests stay, and who met a reset.
LEMMA MetKept ==
  ASSUME Base, [Next]_vars, NEW c \in Call, MeetsReset(c)
  PROVE  MeetsReset(c)' /\ req'[c] = req[c]
<1>1. Begun(c) BY DEF MeetsReset, Overlap
<1> QED BY <1>1, MeetsLasts, BegunKept

LEMMA ClearTraceKept == Base /\ Base' /\ ClearKeepsTrace /\ [Next]_vars => ClearKeepsTrace'
<1> SUFFICES ASSUME Base, Base', ClearKeepsTrace, [Next]_vars, NEW b \in Call, pc'[b] = "clear", NEW r \in Deviations'
             PROVE  \E c \in Call : req'[c] = r /\ MeetsReset(c)'
  BY DEF ClearKeepsTrace
<1>0. TypeOK /\ Shape(b) BY DEF Base, CallShape
<1>a. ASSUME pc[b] = "clear", r \in Deviations PROVE \E c \in Call : req'[c] = r /\ MeetsReset(c)'
  <2>1. PICK c \in Call : req[c] = r /\ MeetsReset(c) BY <1>a DEF ClearKeepsTrace
  <2> QED BY <2>1, MetKept
<1>1. ASSUME NEW c \in Call, NEW q \in Asked, Begin(c, q) PROVE \E x \in Call : req'[x] = r /\ MeetsReset(x)'
  <2>1. q \in Requests BY ControlAssumption DEF ControlAssumption
  <2>2. pc'[c] # "clear" BY <1>0, <1>1, <2>1, StageFollows DEF Begin, Goto, TypeOK
  <2>3. pc[b] = "clear" BY <1>0, <1>1, <2>2 DEF Begin, Goto, TypeOK
  <2>4. Deviations' = Deviations BY <1>1, DeviationsSame DEF Begin, engine
  <2> QED BY <1>a, <2>3, <2>4
<1>2. ASSUME NEW c \in Call, Handle(c) PROVE \E x \in Call : req'[x] = r /\ MeetsReset(x)'
  <2>0. Active(c) /\ \A a \in Call \ {c} : pc'[a] = pc[a] BY <1>0, <1>2, HandleFrame
  <2>1. CASE c = b
    <3>1. Restore(b)
      <4>1. <<pc[b], pc'[b]>> \in StepsOf(req[b].op) BY <1>0, <1>2, <2>1, Path
      <4>2. pc[b] = "recover" BY <4>1 DEF StepsOf
      <4> QED BY <1>0, <1>2, <2>1, <4>2 DEF Handle, ReadBefore, RejectUnknown, SetAccess, SetHealth, ResetBudgets, ReadAfter,
             InjectUnknown, Inject, InjectFails, Record, DiskFull, Recover, RecoverFails, RecoverRaises, RestoreHalf,
             Clear, Answer, At, TypeOK
    <3>2. allow' = StartAllow /\ override' = [e \in Endpoint |-> "none"] BY <3>1 DEF Restore
    <3>3. Deviations' = {} BY <3>2 DEF Deviations
    <3> QED BY <3>3
  <2>2. CASE c # b /\ r \in Deviations BY <1>a, <2>0, <2>2
  <2>3. CASE c # b /\ r \notin Deviations
    <3>1. r = req[c] BY <1>2, <2>3, DeviationsGrow
    <3>2. pc[b] = "clear" /\ Active(b) /\ req[b].op = "reset" BY <1>0, <2>0, <2>3 DEF Active, Begun, Shape
    <3>3. MeetsReset(c) BY <2>0, <2>3, <3>2, ActiveOverlap DEF MeetsReset
    <3> QED BY <3>1, <3>3, MetKept
  <2> QED BY <2>1, <2>2, <2>3
<1>3. CASE Restart
  <2>1. allow' = StartAllow /\ override' = [e \in Endpoint |-> "none"] BY <1>3 DEF Restart
  <2>2. Deviations' = {} BY <2>1 DEF Deviations
  <2> QED BY <2>2
<1>4. CASE UNCHANGED vars
  <2>1. Deviations' = Deviations /\ pc'[b] = pc[b] BY <1>4, DeviationsSame DEF vars, engine
  <2> QED BY <1>a, <2>1
<1> QED BY <1>1, <1>2, <1>3, <1>4 DEF Next

LEMMA TraceKept == Base /\ Base' /\ ClearKeepsTrace /\ ChangesAreTraced /\ [Next]_vars => ChangesAreTraced'
<1> SUFFICES ASSUME Base, Base', ClearKeepsTrace, ChangesAreTraced, [Next]_vars, NEW r \in Deviations'
             PROVE  \E c \in Call : req'[c] = r /\ Traced(c)'
  BY DEF ChangesAreTraced, Traced
<1>0. TypeOK BY DEF Base
<1>a. ASSUME NEW c \in Call, MeetsReset(c), req[c] = r PROVE \E x \in Call : req'[x] = r /\ Traced(x)'
  BY <1>a, MetKept DEF Traced
<1>b. r \in Deviations => \E c \in Call : req[c] = r /\ Traced(c) BY DEF ChangesAreTraced, Traced
<1>1. ASSUME NEW a \in Call, NEW q \in Asked, Begin(a, q) PROVE \E x \in Call : req'[x] = r /\ Traced(x)'
  <2>1. Deviations' = Deviations /\ Rows' = Rows /\ answer' = answer
    BY <1>1, DeviationsSame DEF Begin, Goto, engine, Rows
  <2>2. PICK c \in Call : req[c] = r /\ Traced(c) BY <1>b, <2>1
  <2>3. CASE c = a
    <3>1. ~Active(c) /\ answer[c] = "none" /\ c \notin Rows /\ Shape(c)
      BY <1>1, <2>3 DEF Begin, Active, Begun, Base, CallShape, Shape
    <3> QED BY <1>a, <2>2, <3>1 DEF Traced
  <2>4. CASE c # a
    <3>1. req'[c] = req[c] /\ pc'[c] = pc[c] BY <1>0, <1>1, <2>4 DEF Begin, Goto, TypeOK
    <3>2. CASE MeetsReset(c) BY <1>a, <2>2, <3>2
    <3>3. CASE ~MeetsReset(c) BY <2>1, <2>2, <3>1, <3>3 DEF Traced, Active, Begun
    <3> QED BY <3>2, <3>3
  <2> QED BY <2>3, <2>4
<1>2. ASSUME NEW a \in Call, Handle(a) PROVE \E x \in Call : req'[x] = r /\ Traced(x)'
  <2>0. /\ Active(a) /\ req' = req
        /\ \A c \in Call \ {a} : pc'[c] = pc[c] /\ answer'[c] = answer[c]
    BY <1>0, <1>2, HandleFrame
  <2>1. CASE r \notin Deviations
    <3>1. r = req'[a] /\ Active(a)' BY <1>2, <2>0, <2>1, DeviationsGrow
    <3> QED BY <3>1 DEF Traced
  <2>2. CASE Clear(a) /\ r \in Deviations
    <3>1. pc[a] = "clear" BY <2>2 DEF Clear
    <3> QED BY <1>a, <2>2, <3>1 DEF ClearKeepsTrace
  <2>3. CASE ~Clear(a) /\ r \in Deviations
    <3>1. PICK c \in Call : req[c] = r /\ Traced(c) BY <1>b, <2>3
    <3>2. Rows \subseteq Rows' BY <1>0, <1>2, <2>3, RowsAfter
    <3>3. CASE MeetsReset(c) BY <1>a, <3>1, <3>3
    <3>4. CASE c = a
      <4>1. req[c].op \in {"access", "pin"} /\ req[c].on # Unknown BY <1>0, <2>3, <3>1, DeviationShape
      <4>2. Active(c)' \/ c \in Rows' \/ answer'[c] = "error" BY <1>2, <3>4, <4>1, KnownIsAnswered
      <4> QED BY <2>0, <3>1, <4>2 DEF Traced
    <3>5. CASE ~MeetsReset(c) /\ c # a BY <2>0, <3>1, <3>2, <3>5 DEF Traced, Active, Begun
    <3> QED BY <3>3, <3>4, <3>5
  <2> QED BY <2>1, <2>2, <2>3
<1>3. CASE Restart
  <2>1. allow' = StartAllow /\ override' = [e \in Endpoint |-> "none"] BY <1>3 DEF Restart
  <2>2. Deviations' = {} BY <2>1 DEF Deviations
  <2> QED BY <2>2
<1>4. CASE UNCHANGED vars
  <2>1. Deviations' = Deviations /\ Rows' = Rows BY <1>4, DeviationsSame DEF vars, engine, Rows
  <2>2. PICK c \in Call : req[c] = r /\ Traced(c) BY <1>b, <2>1
  <2>3. CASE MeetsReset(c) BY <1>a, <2>2, <2>3
  <2>4. CASE ~MeetsReset(c) BY <1>4, <2>1, <2>2, <2>4 DEF Traced, Active, Begun, vars, call
  <2> QED BY <2>3, <2>4
<1> QED BY <1>1, <1>2, <1>3, <1>4 DEF Next

\* README.md:227 and api.py:191-299: every change in force that is not in
\* policies.json has its row, or a handler still to write it, or was cut short
\* by a full disk or by a reset at the same time.
THEOREM TrailIsComplete == Spec => []ChangesAreTraced
<1>1. Init => Deviations = {} /\ ClearKeepsTrace
  <2> SUFFICES ASSUME Init PROVE Deviations = {} /\ ClearKeepsTrace OBVIOUS
  <2>1. Deviations = {} BY StartDeviates DEF Init
  <2>2. \A c \in Call : pc[c] # "clear" BY DEF Init
  <2> QED BY <2>1, <2>2 DEF ClearKeepsTrace
<1>2. Deviations = {} => ChangesAreTraced BY DEF ChangesAreTraced
<1> QED BY <1>1, <1>2, TypeCorrect, ClearTraceKept, TraceKept, PTL DEF Spec

-----------------------------------------------------------------------------
(* What is in force is what a latest row says. *)

\* Nothing has failed, nothing was cut and no call met a reset.
Clean == crashes = 0 /\ \A c \in Call : answer[c] # "error" /\ ~MeetsReset(c)
NoClear == \A c \in Call : pc[c] # "clear"

\* The calls that have made their change, with or without their row.
Applied(op, on) ==
  {c \in Call : req[c].op \in op /\ req[c].on = on /\ (pc[c] \in {"after", "audit"} \/ c \in Rows)}
Lasting(op, on, c) == c \in Applied(op, on) /\ \A b \in Applied(op, on) : c \notin prior[b]

AccessLast == Clean /\ NoClear => \A d \in Domain : Applied({"access"}, d) # {} =>
  \E c \in Call : Lasting({"access"}, d, c) /\ (req[c].value = "grant" <=> d \in allow)

HealthLast == Clean /\ NoClear => \A e \in Endpoint : Applied({"pin", "unpin"}, e) # {} =>
  \E c \in Call : Lasting({"pin", "unpin"}, e, c) /\ req[c].value = override[e]

LEMMA CleanBefore ==
  ASSUME Base, [Next]_vars, Clean'
  PROVE  Clean
<1>0. TypeOK /\ CallShape BY DEF Base
<1>1. crashes = 0
  <2>1. crashes' \in {crashes, 1}
    BY <1>0, HandleFrame DEF Next, Begin, Restart, vars
  <2> QED BY <2>1 DEF Clean
<1>2. ASSUME NEW c \in Call PROVE ~MeetsReset(c) BY MeetsLasts DEF Clean
<1>3. ASSUME NEW c \in Call PROVE answer[c] # "error"
  <2> SUFFICES ASSUME answer[c] = "error" PROVE FALSE OBVIOUS
  <2>0. ~Active(c) BY <1>0 DEF CallShape, Shape, Active
  <2>1. answer'[c] = "error"
    <3>1. ASSUME NEW a \in Call, Handle(a) PROVE answer'[c] = answer[c] BY <1>0, <2>0, <3>1, HandleFrame
    <3> QED BY <2>0, <3>1 DEF Next, Begin, Goto, Restart, vars
  <2> QED BY <2>1 DEF Clean
<1> QED BY <1>1, <1>2, <1>3 DEF Clean

\* A clear in a clean history finds nobody else under way.
LEMMA ClearIsAlone ==
  ASSUME Base, Clean, NEW a \in Call, pc[a] = "clear", NEW b \in Call, b # a
  PROVE  ~Active(b)
<1>1. Active(a) /\ req[a].op = "reset" BY DEF Base, CallShape, Shape, Active, Begun
<1> QED BY <1>1, ActiveOverlap DEF Clean, MeetsReset

LEMMA NoClearBefore ==
  ASSUME Base, [Next]_vars, Clean', NoClear', ~\E a \in Call : Clear(a)
  PROVE  NoClear
<1>0. TypeOK BY DEF Base
<1> SUFFICES ASSUME NEW b \in Call, pc[b] = "clear" PROVE pc'[b] = "clear" BY DEF NoClear
<1>1. CASE \E a \in Call, r \in Asked : Begin(a, r) BY <1>0, <1>1 DEF Begin, Goto, TypeOK
<1>2. ASSUME NEW a \in Call, Handle(a) PROVE pc'[b] = "clear"
  <2>1. CASE a # b BY <1>0, <1>2, <2>1, HandleFrame
  <2>2. CASE a = b
    <3>1. DiskFull(b)
      BY <1>2, <2>2 DEF Handle, ReadBefore, RejectUnknown, SetAccess, SetHealth, ResetBudgets, ReadAfter, InjectUnknown,
           Inject, InjectFails, Record, Recover, RecoverFails, RecoverRaises, Restore, RestoreHalf, At
    <3>2. answer'[b] = "error" BY <1>0, <3>1 DEF DiskFull, Answer, TypeOK
    <3> QED BY <3>2 DEF Clean
  <2> QED BY <2>1, <2>2
<1>3. CASE Restart BY <1>3 DEF Restart, Clean
<1>4. CASE UNCHANGED vars BY <1>4 DEF vars
<1> QED BY <1>1, <1>2, <1>3, <1>4 DEF Next

\* A clear leaves nobody's change without its row.
LEMMA ClearEmpties ==
  ASSUME Base, Base', [Next]_vars, Clean', NEW a \in Call, Clear(a), NEW op, NEW on, "reset" \notin op
  PROVE  Applied(op, on)' = {}
<1>0. TypeOK /\ Shape(a) BY DEF Base, CallShape
<1>1. pc[a] = "clear" /\ Handle(a) /\ Rows' = {} BY DEF Clear, Handle, Rows
<1>2. \A b \in Call \ {a} : ~Active(b) /\ pc'[b] = pc[b] BY <1>0, <1>1, CleanBefore, ClearIsAlone, HandleFrame
<1>3. req'[a].op = "reset" BY <1>0, <1>1, HandleFrame DEF Shape
<1> QED BY <1>1, <1>2, <1>3 DEF Applied, Active, Begun

\* Otherwise a handler joins them when it makes its change, and only then.
LEMMA AppliedMoves ==
  ASSUME Base, NEW a \in Call, Handle(a), ~Clear(a), answer'[a] # "error",
         NEW op, op \subseteq {"access", "pin", "unpin"}, NEW on
  PROVE  IF (SetAccess(a) \/ SetHealth(a)) /\ req[a].op \in op /\ req[a].on = on
           THEN Applied(op, on)' = Applied(op, on) \union {a}
           ELSE Applied(op, on)' = Applied(op, on)
<1>0. TypeOK /\ Shape(a) BY DEF Base, CallShape
<1>1. /\ req' = req /\ Active(a)
      /\ \A b \in Call \ {a} : pc'[b] = pc[b]
  BY <1>0, HandleFrame
<1>2. \A b \in Call \ {a} : b \in Applied(op, on)' <=> b \in Applied(op, on)
  BY <1>0, <1>1, RowsAfter DEF Applied
<1>3. a \notin Rows BY <1>0, <1>1 DEF Shape, Active
<1>4. ASSUME req[a].op \in op, req[a].on = on
      PROVE  a \in Applied(op, on)' <=> a \in Applied(op, on) \/ SetAccess(a) \/ SetHealth(a)
  <2>1. CASE ReadBefore(a) \/ RejectUnknown(a)
    BY <1>0, <1>3, <2>1, RowsAfter DEF ReadBefore, RejectUnknown, Goto, Answer, TypeOK, Applied, Record, SetAccess,
         SetHealth, At
  <2>2. CASE SetAccess(a) \/ SetHealth(a)
    BY <1>0, <1>1, <1>4, <2>2 DEF SetAccess, SetHealth, Goto, TypeOK, Applied
  <2>3. CASE ReadAfter(a)
    BY <1>0, <1>1, <1>4, <2>3 DEF ReadAfter, Goto, TypeOK, Applied
  <2>4. CASE Record(a)
    <3>1. a \in Rows' BY <1>0, <2>4, RowsGrow
    <3> QED BY <1>1, <1>4, <2>4, <3>1 DEF Record, Applied
  <2>5. CASE DiskFull(a) BY <1>0, <2>5 DEF DiskFull, Answer, TypeOK
  <2>6. CASE ResetBudgets(a) \/ InjectUnknown(a) \/ Inject(a) \/ InjectFails(a)
    BY <1>4, <2>6 DEF ResetBudgets, InjectUnknown, Inject, InjectFails, At
  <2>7. CASE \/ Restore(a) \/ RestoreHalf(a)
             \/ \E e \in Endpoint : Recover(a, e) \/ RecoverFails(a, e) \/ RecoverRaises(a, e)
    BY <1>0, <1>4, <2>7 DEF Shape, Restore, RestoreHalf, Recover, RecoverFails, RecoverRaises
  <2> QED BY <2>1, <2>2, <2>3, <2>4, <2>5, <2>6, <2>7 DEF Handle
<1>5. ASSUME ~(req[a].op \in op /\ req[a].on = on)
      PROVE  a \notin Applied(op, on)' /\ a \notin Applied(op, on)
  BY <1>1, <1>5 DEF Applied
<1>6. Applied(op, on) \subseteq Call /\ Applied(op, on)' \subseteq Call BY DEF Applied
<1> QED BY <1>2, <1>4, <1>5, <1>6

LEMMA AppliedSame ==
  ASSUME Base, NEW a \in Call, NEW r \in Asked, Begin(a, r), NEW op, op \subseteq {"access", "pin", "unpin"}, NEW on
  PROVE  Applied(op, on)' = Applied(op, on)
<1>0. TypeOK /\ Shape(a) BY DEF Base, CallShape
<1>1. r \in Requests BY ControlAssumption DEF ControlAssumption
<1>2. Rows' = Rows /\ \A b \in Call \ {a} : pc'[b] = pc[b] /\ req'[b] = req[b]
  BY <1>0 DEF Begin, Goto, TypeOK, Rows
<1>3. pc[a] = "idle" /\ a \notin Rows /\ req'[a] = r /\ pc'[a] = FirstStage(r.op)
  BY <1>0 DEF Begin, Goto, TypeOK, Shape
<1>4. r.op \in op => pc'[a] = "before" BY <1>3 DEF FirstStage
<1>5. pc'[a] # "after" BY <1>1, <1>3, StageFollows
<1>6. a \notin Applied(op, on)' /\ a \notin Applied(op, on) BY <1>2, <1>3, <1>4, <1>5 DEF Applied
<1>7. \A b \in Call \ {a} : b \in Applied(op, on)' <=> b \in Applied(op, on) BY <1>2 DEF Applied
<1>8. Applied(op, on) \subseteq Call /\ Applied(op, on)' \subseteq Call BY DEF Applied
<1> QED BY <1>6, <1>7, <1>8

\* A lasting change lasts until another joins,
LEMMA LastingKept ==
  ASSUME Base, [Next]_vars, NEW op, NEW on, NEW c \in Call, Lasting(op, on, c), Applied(op, on)' = Applied(op, on),
         \A b \in op : b # "none"
  PROVE  Lasting(op, on, c)' /\ req'[c] = req[c]
<1>1. \A b \in Applied(op, on) : b \in Call /\ Begun(b)
  BY DEF Applied, Base, CallShape, Shape, Begun, NoRequest
<1>2. \A b \in Applied(op, on) : prior'[b] = prior[b] /\ req'[b] = req[b] BY <1>1, BegunKept
<1> QED BY <1>2 DEF Lasting

\* and the one that joins is lasting: nobody began after its answer.
LEMMA JoinsLast ==
  ASSUME Base', NEW op, NEW on, NEW c \in Call, c \in Applied(op, on)', pc'[c] # "answered"
  PROVE  Lasting(op, on, c)'
<1>1. \A b \in Call : c \notin prior'[b] BY DEF Base, CallShape, Shape
<1> QED BY <1>1 DEF Lasting, Applied

\* The steps that change neither what is in force nor whose change it is.
LEMMA LastingStays ==
  ASSUME Base, Base', [Next]_vars, NEW op, op \subseteq {"access", "pin", "unpin"}, NEW on,
         \/ \E a \in Call, r \in Asked : Begin(a, r)
         \/ \E a \in Call : /\ Handle(a) /\ ~Clear(a) /\ answer'[a] # "error"
                           /\ ~((SetAccess(a) \/ SetHealth(a)) /\ req[a].op \in op /\ req[a].on = on)
         \/ UNCHANGED vars
  PROVE  /\ Applied(op, on)' = Applied(op, on)
         /\ \A c \in Call : Lasting(op, on, c) => Lasting(op, on, c)' /\ req'[c] = req[c]
<1>1. Applied(op, on)' = Applied(op, on)
  <2>1. CASE \E a \in Call, r \in Asked : Begin(a, r) BY <2>1, AppliedSame
  <2>2. ASSUME NEW a \in Call, Handle(a), ~Clear(a), answer'[a] # "error",
               ~((SetAccess(a) \/ SetHealth(a)) /\ req[a].op \in op /\ req[a].on = on)
        PROVE  Applied(op, on)' = Applied(op, on)
    BY <2>2, AppliedMoves
  <2>3. CASE UNCHANGED vars BY <2>3 DEF vars, call, Applied, Rows
  <2> QED BY <2>1, <2>2, <2>3
<1> QED BY <1>1, LastingKept

LEMMA AccessKept == Base /\ Base' /\ AccessLast /\ [Next]_vars => AccessLast'
<1> DEFINE Held(c, d) == Lasting({"access"}, d, c) /\ (req[c].value = "grant" <=> d \in allow)
<1> SUFFICES ASSUME Base, Base', AccessLast, [Next]_vars, Clean', NoClear',
                    NEW d \in Domain, Applied({"access"}, d)' # {}
             PROVE  \E c \in Call : Held(c, d)'
  BY DEF AccessLast
<1>0. TypeOK BY DEF Base
<1>1. \A a \in Call : ~Clear(a) BY ClearEmpties
<1>2. Clean /\ NoClear BY <1>1, CleanBefore, NoClearBefore
<1>a. ASSUME Applied({"access"}, d)' = Applied({"access"}, d), d \in allow' <=> d \in allow,
             \A c \in Call : Lasting({"access"}, d, c) => Lasting({"access"}, d, c)' /\ req'[c] = req[c]
      PROVE  \E c \in Call : Held(c, d)'
  <2>1. PICK c \in Call : Held(c, d) BY <1>2, <1>a DEF AccessLast
  <2>2. Held(c, d)' BY <1>a, <2>1
  <2> QED BY <2>2
<1>3. ASSUME NEW a \in Call, NEW r \in Asked, Begin(a, r) PROVE \E c \in Call : Held(c, d)'
  <2>1. allow' = allow BY <1>3 DEF Begin, engine
  <2> QED BY <1>3, <1>a, <2>1, LastingStays
<1>4. ASSUME NEW a \in Call, Handle(a) PROVE \E c \in Call : Held(c, d)'
  <2>0. answer'[a] # "error" /\ pc'[a] # "clear" BY DEF Clean, NoClear
  <2>1. CASE SetAccess(a) /\ req[a].on = d
    <3>1. a \in Applied({"access"}, d)' /\ pc'[a] = "after" /\ req' = req
      BY <1>0, <2>1 DEF SetAccess, At, Goto, TypeOK, Applied, call
    <3>2. req[a].value = "grant" <=> d \in allow' BY <2>1 DEF SetAccess
    <3>3. Lasting({"access"}, d, a)' BY <3>1, JoinsLast
    <3>4. Held(a, d)' BY <3>1, <3>2, <3>3
    <3> QED BY <3>4
  <2>2. CASE ~(SetAccess(a) /\ req[a].on = d)
    <3>1. ~((SetAccess(a) \/ SetHealth(a)) /\ req[a].op \in {"access"} /\ req[a].on = d)
      BY <2>2 DEF SetHealth
    <3>2. d \in allow' <=> d \in allow
      <4>1. CASE SetAccess(a) BY <2>2, <4>1 DEF SetAccess
      <4>2. CASE Restore(a) BY <1>0, <2>0, <4>2 DEF Restore, Goto, TypeOK
      <4>3. CASE RestoreHalf(a) BY <4>3 DEF RestoreHalf
      <4>4. CASE ~(SetAccess(a) \/ Restore(a) \/ RestoreHalf(a))
        BY <1>4, <4>4 DEF Handle, ReadBefore, RejectUnknown, SetHealth, ResetBudgets, ReadAfter, InjectUnknown, Inject,
             InjectFails, Record, DiskFull, Recover, RecoverFails, RecoverRaises, Clear, engine
      <4> QED BY <4>1, <4>2, <4>3, <4>4
    <3> QED BY <1>1, <1>4, <1>a, <2>0, <3>1, <3>2, LastingStays
  <2> QED BY <2>1, <2>2
<1>5. CASE Restart BY <1>5 DEF Restart, Clean
<1>6. CASE UNCHANGED vars
  <2>1. allow' = allow BY <1>6 DEF vars, engine
  <2> QED BY <1>6, <1>a, <2>1, LastingStays
<1> QED BY <1>3, <1>4, <1>5, <1>6 DEF Next

LEMMA HealthKept == Base /\ Base' /\ HealthLast /\ [Next]_vars => HealthLast'
<1> DEFINE Pins == {"pin", "unpin"}
           Held(c, e) == Lasting(Pins, e, c) /\ req[c].value = override[e]
<1> SUFFICES ASSUME Base, Base', HealthLast, [Next]_vars, Clean', NoClear',
                    NEW e \in Endpoint, Applied(Pins, e)' # {}
             PROVE  \E c \in Call : Held(c, e)'
  BY DEF HealthLast
<1>0. TypeOK BY DEF Base
<1>1. \A a \in Call : ~Clear(a) BY ClearEmpties
<1>2. Clean /\ NoClear BY <1>1, CleanBefore, NoClearBefore
<1>a. ASSUME Applied(Pins, e)' = Applied(Pins, e), override'[e] = override[e],
             \A c \in Call : Lasting(Pins, e, c) => Lasting(Pins, e, c)' /\ req'[c] = req[c]
      PROVE  \E c \in Call : Held(c, e)'
  <2>1. PICK c \in Call : Held(c, e) BY <1>2, <1>a DEF HealthLast
  <2>2. Held(c, e)' BY <1>a, <2>1
  <2> QED BY <2>2
<1>3. ASSUME NEW a \in Call, NEW r \in Asked, Begin(a, r) PROVE \E c \in Call : Held(c, e)'
  <2>1. override' = override BY <1>3 DEF Begin, engine
  <2> QED BY <1>3, <1>a, <2>1, LastingStays
<1>4. ASSUME NEW a \in Call, Handle(a) PROVE \E c \in Call : Held(c, e)'
  <2>0. answer'[a] # "error" /\ pc'[a] # "clear" BY DEF Clean, NoClear
  <2>1. CASE SetHealth(a) /\ req[a].on = e
    <3>1. a \in Applied(Pins, e)' /\ pc'[a] = "audit" /\ req' = req
      BY <1>0, <2>1 DEF SetHealth, Goto, TypeOK, Applied, call
    <3>2. req[a].value = override'[e] BY <1>0, <2>1 DEF SetHealth, TypeOK
    <3>3. Lasting(Pins, e, a)' BY <3>1, JoinsLast
    <3>4. Held(a, e)' BY <3>1, <3>2, <3>3
    <3> QED BY <3>4
  <2>2. CASE ~(SetHealth(a) /\ req[a].on = e)
    <3>1. ~((SetAccess(a) \/ SetHealth(a)) /\ req[a].op \in Pins /\ req[a].on = e)
      BY <2>2 DEF SetAccess, At
    <3>2. override'[e] = override[e]
      <4>1. CASE SetHealth(a) BY <1>0, <2>2, <4>1 DEF SetHealth, TypeOK
      <4>2. CASE Restore(a) BY <1>0, <2>0, <4>2 DEF Restore, Goto, TypeOK
      <4>3. CASE RestoreHalf(a) BY <1>0, <2>0, <4>3 DEF RestoreHalf, Answer, TypeOK
      <4>4. CASE ~(SetHealth(a) \/ Restore(a) \/ RestoreHalf(a))
        BY <1>4, <4>4 DEF Handle, ReadBefore, RejectUnknown, SetAccess, ResetBudgets, ReadAfter, InjectUnknown, Inject,
             InjectFails, Record, DiskFull, Recover, RecoverFails, RecoverRaises, Clear, engine
      <4> QED BY <4>1, <4>2, <4>3, <4>4
    <3> QED BY <1>1, <1>4, <1>a, <2>0, <3>1, <3>2, LastingStays
  <2> QED BY <2>1, <2>2
<1>5. CASE Restart BY <1>5 DEF Restart, Clean
<1>6. CASE UNCHANGED vars
  <2>1. override' = override BY <1>6 DEF vars, engine
  <2> QED BY <1>6, <1>a, <2>1, LastingStays
<1> QED BY <1>3, <1>4, <1>5, <1>6 DEF Next

\* Once all is quiet, those that made their change are those with a row.
LEMMA QuietRows ==
  ASSUME Base, Quiet, NEW op, NEW on
  PROVE  Applied(op, on) = RowsOn(op, on)
BY RowsAreCalls DEF Applied, RowsOn, Quiet, Active, Begun

\* api.py:191-299: handlers on the same domain or endpoint may write their
\* rows in any order, and still what is in force is what one of the latest
\* of these rows says.
THEOREM LatestRowHolds == Spec => []InForceIsALatestRow
<1>1. Init => AccessLast /\ HealthLast
  <2> SUFFICES ASSUME Init PROVE AccessLast /\ HealthLast OBVIOUS
  <2>1. ASSUME NEW op, NEW on PROVE Applied(op, on) = {}
    <3>1. Rows = {} BY DEF Init, Rows
    <3> QED BY <3>1 DEF Init, Applied
  <2> QED BY <2>1 DEF AccessLast, HealthLast
<1>2. Base /\ AccessLast /\ HealthLast => InForceIsALatestRow
  <2> SUFFICES ASSUME Base, AccessLast, HealthLast, Quiet, Clean
               PROVE  /\ \A d \in Domain : RowsOn({"access"}, d) # {} =>
                           \E c \in LastOf(RowsOn({"access"}, d)) : req[c].value = "grant" <=> d \in allow
                      /\ \A e \in Endpoint : RowsOn({"pin", "unpin"}, e) # {} =>
                           \E c \in LastOf(RowsOn({"pin", "unpin"}, e)) : req[c].value = override[e]
    BY DEF InForceIsALatestRow, Clean
  <2>1. NoClear BY DEF Quiet, NoClear, Active, Begun
  <2>2. ASSUME NEW op, NEW on, NEW c \in Call, Lasting(op, on, c) PROVE c \in LastOf(RowsOn(op, on))
    BY <2>2, QuietRows DEF Lasting, LastOf
  <2>3. ASSUME NEW d \in Domain, RowsOn({"access"}, d) # {}
        PROVE  \E c \in LastOf(RowsOn({"access"}, d)) : req[c].value = "grant" <=> d \in allow
    <3>1. PICK c \in Call : Lasting({"access"}, d, c) /\ (req[c].value = "grant" <=> d \in allow)
      BY <2>1, <2>3, QuietRows DEF AccessLast
    <3> QED BY <2>2, <3>1
  <2>4. ASSUME NEW e \in Endpoint, RowsOn({"pin", "unpin"}, e) # {}
        PROVE  \E c \in LastOf(RowsOn({"pin", "unpin"}, e)) : req[c].value = override[e]
    <3>1. PICK c \in Call : Lasting({"pin", "unpin"}, e, c) /\ req[c].value = override[e]
      BY <2>1, <2>4, QuietRows DEF HealthLast
    <3> QED BY <2>2, <3>1
  <2> QED BY <2>3, <2>4
<1> QED BY <1>1, <1>2, TypeCorrect, AccessKept, HealthKept, PTL DEF Spec

=============================================================================
