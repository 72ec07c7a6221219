----------------------- MODULE WorkspaceFiles_proofs -----------------------
(***************************************************************************)
(* Proofs about WorkspaceFiles, for any number of requests, spellings of    *)
(* the path and contents, and any faults.                                   *)
(*                                                                         *)
(* All rests on the lock: of the requests of one key, one is past the lock, *)
(* so what another does to the file bears another key.  Own says what the   *)
(* holder of a lock knows of its temporary file and of the file it fills.   *)
(***************************************************************************)
EXTENDS WorkspaceFiles, TLAPS

Excluded ==
    \A r \in Requests : \A k \in Keys : (lock[k] = r) = (Holds(r) /\ req[r].key = k)

Forms ==
    [step : Steps, key : Keys \cup {None}, kind : Kinds \cup {None},
     match : Values, content : Values, temp : Values, ok : BOOLEAN]

Typed ==
    /\ disk \in Values \cup Requests
    /\ writer \in Keys \cup {Agent}
    /\ lock \in [Keys -> Requests \cup {None}]
    /\ req \in [Requests -> Forms]
    /\ faults \in 0..MaxFaults /\ writes \in 0..MaxWrites
    /\ \A r \in Requests : ~At(r, "idle") => req[r].key \in Keys /\ req[r].kind \in Kinds

Own ==
    \A r \in Requests :
        /\ ~At(r, "idle") => req[r].content \in Contents
        /\ At(r, "rename") => InWorkspace(r) /\ req[r].temp \in {req[r].content, Partial}
        /\ At(r, "unlink") => Is(r, "delete")
        /\ At(r, "command") => req[r].temp = req[r].content
        /\ At(r, "fill") => disk = r \/ writer # req[r].key

LEMMA TypeOKIs == TypeOK <=> Typed /\ Excluded
  BY DEF TypeOK, Typed, Excluded, Forms

\* Initial states are of the right type.
LEMMA InitTyped == Init => Typed /\ Excluded /\ Own /\ NamedIsReplaced
  BY RequestAssumption, BoundAssumption, Zenon, SMTT(20)
     DEF Init, Typed, Excluded, Own, NamedIsReplaced, Is, Idle, Forms, Steps, Values, Keys, Kinds, Holds,
         Compared, At, InWorkspace, ReadFile

ReqTyped ==
    /\ req \in [Requests -> Forms]
    /\ \A r \in Requests : ~At(r, "idle") => req[r].key \in Keys /\ req[r].kind \in Kinds

\* A request that goes on, with a temporary file or not, keeps its type.
LEMMA GotoTyped ==
  ASSUME ReqTyped, NEW r \in Requests, ~At(r, "idle"), NEW step \in Steps,
         NEW form, form = [req[r] EXCEPT !.step = step], req' = [req EXCEPT ![r] = form]
  PROVE  ReqTyped'
<1>1. form \in Forms /\ form.key = req[r].key /\ form.kind = req[r].kind
  BY DEF ReqTyped, Forms
<1>2. form.key \in Keys /\ form.kind \in Kinds
  BY <1>1 DEF ReqTyped
<1> QED
  BY <1>1, <1>2 DEF ReqTyped, At

LEMMA TempTyped ==
  ASSUME ReqTyped, NEW r \in Requests, ~At(r, "idle"), NEW step \in Steps, NEW temp \in Values,
         req' = [req EXCEPT ![r].temp = temp, ![r].step = step]
  PROVE  ReqTyped'
<1> DEFINE form == [req[r] EXCEPT !.temp = temp, !.step = step]
<1>0. req' = [req EXCEPT ![r] = form]
  BY DEF ReqTyped, Forms
<1>1. form \in Forms /\ form.key = req[r].key /\ form.kind = req[r].kind
  BY DEF ReqTyped, Forms
<1>2. form.key \in Keys /\ form.kind \in Kinds
  BY <1>1 DEF ReqTyped
<1> HIDE DEF form
<1> QED
  BY <1>0, <1>1, <1>2 DEF ReqTyped, At

\* A fault is counted within its bound.
LEMMA FaultTyped ==
  ASSUME Typed, NEW kind, Fault(kind)
  PROVE  faults' \in 0..MaxFaults
  BY BoundAssumption DEF Typed, Fault

\* An answer keeps the types of the requests and of the lock.
LEMMA AnswerTyped ==
  ASSUME Typed, NEW r \in Requests, ~At(r, "idle"), NEW ok \in BOOLEAN, Answer(r, ok)
  PROVE  ReqTyped' /\ lock' \in [Keys -> Requests \cup {None}]
<1> DEFINE form == [Idle EXCEPT !.ok = ok]
<1>1. form \in Forms /\ form.step = "idle"
  BY DEF Idle, Forms, Steps, Values, Kinds
<1>2. req' = [req EXCEPT ![r] = form]
  BY DEF Answer
<1>3. ReqTyped'
  <2> HIDE DEF form
  <2> QED BY <1>1, <1>2 DEF ReqTyped, Typed, At
<1>4. lock' \in [Keys -> Requests \cup {None}]
  BY DEF Answer, Typed
<1> QED BY <1>3, <1>4

\* A step keeps the types.
LEMMA TypedStep ==
  ASSUME Typed, [Next]_vars
  PROVE  Typed'
<1> DEFINE Rest ==
      /\ disk \in Values \cup Requests
      /\ writer \in Keys \cup {Agent}
      /\ faults \in 0..MaxFaults /\ writes \in 0..MaxWrites
      /\ lock \in [Keys -> Requests \cup {None}]
<1> SUFFICES ReqTyped' /\ Rest'
  BY DEF ReqTyped, Typed
<1> USE DEF Rest
<1>0. ReqTyped /\ \A r \in Requests : req[r] \in Forms
  BY DEF ReqTyped, Typed
<1>1. ASSUME NEW r \in Requests, AskWorkspace(r)
      PROVE  ReqTyped' /\ Rest'
  <2>1. PICK key \in Keys, kind \in Kinds, match \in Expected, content \in Contents :
            Ask(r, key, kind, match, content)
    BY <1>1 DEF AskWorkspace, Keys
  <2> DEFINE form == [Idle EXCEPT !.step = "lock", !.key = key, !.kind = kind,
                                 !.match = match, !.content = content]
  <2>2. form \in Forms /\ form.key = key /\ form.kind = kind
    BY DEF Idle, Forms, Steps, Values, Expected
  <2>3. req' = [req EXCEPT ![r] = form] /\ UNCHANGED <<disk, writer, lock, faults, writes>>
    BY <2>1 DEF Ask
  <2> HIDE DEF form
  <2>4. ReqTyped'
    BY <1>0, <2>2, <2>3 DEF ReqTyped, At
  <2> QED BY <2>3, <2>4 DEF Typed
<1>2. ASSUME NEW r \in Requests, AskFiles(r)
      PROVE  ReqTyped' /\ Rest'
  <2>1. PICK key \in Keys, kind \in Kinds, match \in Expected, content \in Contents :
            Ask(r, key, kind, match, content)
    BY <1>2 DEF AskFiles, Keys
  <2> DEFINE form == [Idle EXCEPT !.step = "lock", !.key = key, !.kind = kind,
                                 !.match = match, !.content = content]
  <2>2. form \in Forms /\ form.key = key /\ form.kind = kind
    BY DEF Idle, Forms, Steps, Values, Expected
  <2>3. req' = [req EXCEPT ![r] = form] /\ UNCHANGED <<disk, writer, lock, faults, writes>>
    BY <2>1 DEF Ask
  <2> HIDE DEF form
  <2>4. ReqTyped'
    BY <1>0, <2>2, <2>3 DEF ReqTyped, At
  <2> QED BY <2>3, <2>4 DEF Typed
<1>3. ASSUME NEW r \in Requests, Lock(r)
      PROVE  ReqTyped' /\ Rest'
  <2>1. ~At(r, "idle") /\ req[r].key \in Keys /\ req[r] \in Forms
    BY <1>0, <1>3 DEF Lock, At, ReqTyped
  <2>2. ASSUME NEW step \in Steps, Goto(r, step)
        PROVE  ReqTyped'
    BY <1>0, <2>1, <2>2, GotoTyped DEF Goto
  <2>3. ReqTyped' /\ lock' \in [Keys -> Requests \cup {None}]
    BY <1>3, <2>1, <2>2
       DEF Lock, Steps, Forms, Values, Typed, Kinds
  <2>4. Rest'
    BY <1>3, <2>1, <2>3, BoundAssumption
       DEF Lock, Forms, Values, Typed, Keys
  <2> QED BY <2>3, <2>4
<1>4. ASSUME NEW r \in Requests, Check(r)
      PROVE  ReqTyped' /\ Rest'
  <2>1. ~At(r, "idle") /\ req[r].key \in Keys /\ req[r] \in Forms
    BY <1>0, <1>4 DEF Check, At, ReqTyped
  <2>2. ASSUME NEW ok \in BOOLEAN, Answer(r, ok)
        PROVE  ReqTyped' /\ lock' \in [Keys -> Requests \cup {None}]
    BY <2>1, <2>2, AnswerTyped
  <2>3. ASSUME NEW step \in Steps, Goto(r, step)
        PROVE  ReqTyped'
    BY <1>0, <2>1, <2>3, GotoTyped DEF Goto
  <2>4. ReqTyped' /\ lock' \in [Keys -> Requests \cup {None}]
    BY <1>4, <2>1, <2>2, <2>3
       DEF Check, Refuse, After, Steps, Forms, Values, Typed, Kinds, ReqTyped
  <2>5. Rest'
    BY <1>4, <2>1, <2>4, BoundAssumption
       DEF Check, Refuse, After, Forms, Values, Typed, Keys
  <2> QED BY <2>4, <2>5
<1>5. ASSUME NEW r \in Requests, Temp(r)
      PROVE  ReqTyped' /\ Rest'
  <2>1. ~At(r, "idle") /\ req[r].key \in Keys /\ req[r] \in Forms
    BY <1>0, <1>5 DEF Temp, At, ReqTyped
  <2>2. ASSUME NEW ok \in BOOLEAN, Answer(r, ok)
        PROVE  ReqTyped' /\ lock' \in [Keys -> Requests \cup {None}]
    BY <2>1, <2>2, AnswerTyped
  <2>3. ASSUME NEW step \in Steps, NEW temp \in Values,
               req' = [req EXCEPT ![r].temp = temp, ![r].step = step]
        PROVE  ReqTyped'
    BY <1>0, <2>1, <2>3, TempTyped
  <2>4. ReqTyped' /\ lock' \in [Keys -> Requests \cup {None}]
    BY <1>5, <2>1, <2>2, <2>3
       DEF Temp, Fault, Steps, Forms, Values, Typed, Kinds
  <2>5. faults' \in 0..MaxFaults
    BY <1>5, FaultTyped DEF Temp, Typed
  <2>6. Rest'
    BY <1>5, <2>1, <2>4, <2>5
       DEF Temp, Forms, Values, Typed, Keys
  <2> QED BY <2>4, <2>6
<1>6. ASSUME NEW r \in Requests, Rename(r)
      PROVE  ReqTyped' /\ Rest'
  <2>1. ~At(r, "idle") /\ req[r].key \in Keys /\ req[r] \in Forms
    BY <1>0, <1>6 DEF Rename, At, ReqTyped
  <2>2. ASSUME NEW ok \in BOOLEAN, Answer(r, ok)
        PROVE  ReqTyped' /\ lock' \in [Keys -> Requests \cup {None}]
    BY <2>1, <2>2, AnswerTyped
  <2>3. ReqTyped' /\ lock' \in [Keys -> Requests \cup {None}]
    BY <1>6, <2>1, <2>2
       DEF Rename, Put, Steps, Forms, Values, Typed, Kinds
  <2>4. Rest'
    BY <1>6, <2>1, <2>3, BoundAssumption
       DEF Rename, Put, Forms, Values, Typed, Keys
  <2> QED BY <2>3, <2>4
<1>7. ASSUME NEW r \in Requests, Unlink(r)
      PROVE  ReqTyped' /\ Rest'
  <2>1. ~At(r, "idle") /\ req[r].key \in Keys /\ req[r] \in Forms
    BY <1>0, <1>7 DEF Unlink, At, ReqTyped
  <2>2. ASSUME NEW ok \in BOOLEAN, Answer(r, ok)
        PROVE  ReqTyped' /\ lock' \in [Keys -> Requests \cup {None}]
    BY <2>1, <2>2, AnswerTyped
  <2>3. ReqTyped' /\ lock' \in [Keys -> Requests \cup {None}]
    BY <1>7, <2>1, <2>2
       DEF Unlink, Put, Steps, Forms, Values, Typed, Kinds
  <2>4. Rest'
    BY <1>7, <2>1, <2>3, BoundAssumption
       DEF Unlink, Put, Forms, Values, Typed, Keys
  <2> QED BY <2>3, <2>4
<1>8. ASSUME NEW r \in Requests, Create(r)
      PROVE  ReqTyped' /\ Rest'
  <2>1. ~At(r, "idle") /\ req[r].key \in Keys /\ req[r] \in Forms
    BY <1>0, <1>8 DEF Create, At, ReqTyped
  <2>2. ASSUME NEW ok \in BOOLEAN, Answer(r, ok)
        PROVE  ReqTyped' /\ lock' \in [Keys -> Requests \cup {None}]
    BY <2>1, <2>2, AnswerTyped
  <2>3. ASSUME NEW step \in Steps, Goto(r, step)
        PROVE  ReqTyped'
    BY <1>0, <2>1, <2>3, GotoTyped DEF Goto
  <2>4. ReqTyped' /\ lock' \in [Keys -> Requests \cup {None}]
    BY <1>8, <2>1, <2>2, <2>3
       DEF Create, Put, Refuse, Steps, Forms, Values, Typed, Kinds
  <2>5. Rest'
    BY <1>8, <2>1, <2>4, BoundAssumption
       DEF Create, Put, Refuse, Forms, Values, Typed, Keys
  <2> QED BY <2>4, <2>5
<1>9. ASSUME NEW r \in Requests, Fill(r)
      PROVE  ReqTyped' /\ Rest'
  <2>1. ~At(r, "idle") /\ req[r].key \in Keys /\ req[r] \in Forms
    BY <1>0, <1>9 DEF Fill, At, ReqTyped
  <2>2. ASSUME NEW ok \in BOOLEAN, Answer(r, ok)
        PROVE  ReqTyped' /\ lock' \in [Keys -> Requests \cup {None}]
    BY <2>1, <2>2, AnswerTyped
  <2>3. ReqTyped' /\ lock' \in [Keys -> Requests \cup {None}]
    BY <1>9, <2>1, <2>2
       DEF Fill, Filled, Put, Fault, Steps, Forms, Values, Typed, Kinds
  <2>4. faults' \in 0..MaxFaults
    BY <1>9, FaultTyped DEF Fill, Typed
  <2>5. Rest'
    BY <1>9, <2>1, <2>3, <2>4
       DEF Fill, Filled, Put, Forms, Values, Typed, Keys
  <2> QED BY <2>3, <2>5
<1>10. ASSUME NEW r \in Requests, Upload(r)
      PROVE  ReqTyped' /\ Rest'
  <2>1. ~At(r, "idle") /\ req[r].key \in Keys /\ req[r] \in Forms
    BY <1>0, <1>10 DEF Upload, At, ReqTyped
  <2>2. ASSUME NEW step \in Steps, Goto(r, step)
        PROVE  ReqTyped'
    BY <1>0, <2>1, <2>2, GotoTyped DEF Goto
  <2>3. ASSUME NEW step \in Steps, NEW temp \in Values,
               req' = [req EXCEPT ![r].temp = temp, ![r].step = step]
        PROVE  ReqTyped'
    BY <1>0, <2>1, <2>3, TempTyped
  <2>4. ReqTyped' /\ lock' \in [Keys -> Requests \cup {None}]
    BY <1>10, <2>1, <2>2, <2>3
       DEF Upload, Fault, Steps, Forms, Values, Typed, Kinds
  <2>5. Rest'
    BY <1>10, <2>1, <2>4, BoundAssumption
       DEF Upload, Fault, Forms, Values, Typed, Keys
  <2> QED BY <2>4, <2>5
<1>11. ASSUME NEW r \in Requests, Command(r)
      PROVE  ReqTyped' /\ Rest'
  <2>1. ~At(r, "idle") /\ req[r].key \in Keys /\ req[r] \in Forms
    BY <1>0, <1>11 DEF Command, At, ReqTyped
  <2>2. ASSUME NEW step \in Steps, Goto(r, step)
        PROVE  ReqTyped'
    BY <1>0, <2>1, <2>2, GotoTyped DEF Goto
  <2>3. ReqTyped' /\ lock' \in [Keys -> Requests \cup {None}]
    BY <1>11, <2>1, <2>2
       DEF Command, Put, Fault, Steps, Forms, Values, Typed, Kinds
  <2>4. Rest'
    BY <1>11, <2>1, <2>3, BoundAssumption
       DEF Command, Put, Fault, Forms, Values, Typed, Keys
  <2> QED BY <2>3, <2>4
<1>12. ASSUME NEW r \in Requests, Verify(r)
      PROVE  ReqTyped' /\ Rest'
  <2>1. ~At(r, "idle") /\ req[r].key \in Keys /\ req[r] \in Forms
    BY <1>0, <1>12 DEF Verify, At, ReqTyped
  <2>2. ASSUME NEW ok \in BOOLEAN, Answer(r, ok)
        PROVE  ReqTyped' /\ lock' \in [Keys -> Requests \cup {None}]
    BY <2>1, <2>2, AnswerTyped
  <2>3. ASSUME NEW step \in Steps, Goto(r, step)
        PROVE  ReqTyped'
    BY <1>0, <2>1, <2>3, GotoTyped DEF Goto
  <2>4. ReqTyped' /\ lock' \in [Keys -> Requests \cup {None}]
    BY <1>12, <2>1, <2>2, <2>3
       DEF Verify, Fault, Steps, Forms, Values, Typed, Kinds
  <2>5. faults' \in 0..MaxFaults
    BY <1>12, FaultTyped DEF Verify, Typed
  <2>6. Rest'
    BY <1>12, <2>1, <2>4, <2>5
       DEF Verify, Forms, Values, Typed, Keys
  <2> QED BY <2>4, <2>6
<1>13. ASSUME NEW r \in Requests, Cleanup(r)
      PROVE  ReqTyped' /\ Rest'
  <2>1. ~At(r, "idle") /\ req[r].key \in Keys /\ req[r] \in Forms
    BY <1>0, <1>13 DEF Cleanup, At, ReqTyped
  <2>2. ASSUME NEW ok \in BOOLEAN, Answer(r, ok)
        PROVE  ReqTyped' /\ lock' \in [Keys -> Requests \cup {None}]
    BY <2>1, <2>2, AnswerTyped
  <2>3. ReqTyped' /\ lock' \in [Keys -> Requests \cup {None}]
    BY <1>13, <2>1, <2>2
       DEF Cleanup, Refuse, Steps, Forms, Values, Typed, Kinds
  <2>4. Rest'
    BY <1>13, <2>1, <2>3, BoundAssumption
       DEF Cleanup, Refuse, Forms, Values, Typed, Keys
  <2> QED BY <2>3, <2>4
<1>14. ASSUME NEW r \in Requests, Execd(r)
      PROVE  ReqTyped' /\ Rest'
  <2>1. ~At(r, "idle") /\ req[r].key \in Keys /\ req[r] \in Forms
    BY <1>0, <1>14 DEF Execd, At, ReqTyped
  <2>2. ASSUME NEW ok \in BOOLEAN, Answer(r, ok)
        PROVE  ReqTyped' /\ lock' \in [Keys -> Requests \cup {None}]
    BY <2>1, <2>2, AnswerTyped
  <2>3. ReqTyped' /\ lock' \in [Keys -> Requests \cup {None}]
    BY <1>14, <2>1, <2>2
       DEF Execd, Effect, Put, Fault, Steps, Forms, Values, Typed, Kinds
  <2>4. faults' \in 0..MaxFaults
    BY <1>14, FaultTyped DEF Execd, Typed
  <2>5. Rest'
    BY <1>14, <2>1, <2>3, <2>4
       DEF Execd, Effect, Put, Forms, Values, Typed, Keys
  <2> QED BY <2>3, <2>5
<1>15. ASSUME NEW value \in Contents \cup {Absent}, AgentWrites(value)
      PROVE  ReqTyped' /\ Rest'
  BY <1>0, <1>15, BoundAssumption DEF AgentWrites, Typed, Values, ReqTyped, At
<1>16. CASE Crash
  <2>1. Idle \in Forms /\ Idle.step = "idle"
    BY DEF Idle, Forms, Steps, Values, Kinds
  <2>2. ReqTyped'
    BY <1>16, <2>1 DEF Crash, ReqTyped, At
  <2>3. Rest'
    BY <1>16, BoundAssumption DEF Crash, Fault, Typed, Values, Keys, ReadFile
  <2> QED BY <2>2, <2>3
<1>17. CASE UNCHANGED vars
  BY <1>0, <1>17 DEF vars, Typed, ReqTyped, At
<1> QED
  BY <1>1, <1>2, <1>3, <1>4, <1>5, <1>6, <1>7, <1>8, <1>9, <1>10, <1>11, <1>12, <1>13, <1>14, <1>15, <1>16, <1>17 DEF Next, Serve

\* A step keeps the lock with the one request of its key that is past it.
LEMMA ExcludedStep ==
  ASSUME Typed, Excluded, [Next]_vars
  PROVE  Excluded'
<1>1. ASSUME NEW r \in Requests, AskWorkspace(r)
      PROVE  Excluded'
  BY <1>1, RequestAssumption, SMTT(30)
     DEF AskWorkspace, Ask, Expected, Idle,
         Typed, Forms, Steps, Values, Keys, Kinds, At, InWorkspace, ReadFile, Excluded, Holds
<1>2. ASSUME NEW r \in Requests, AskFiles(r)
      PROVE  Excluded'
  BY <1>2, RequestAssumption, SMTT(30)
     DEF AskFiles, Ask, Expected, Idle,
         Typed, Forms, Steps, Values, Keys, Kinds, At, InWorkspace, ReadFile, Excluded, Holds
<1>3. ASSUME NEW r \in Requests, Lock(r)
      PROVE  Excluded'
  BY <1>3, RequestAssumption, SMTT(30)
     DEF Lock, Goto, LockFree,
         Typed, Forms, Steps, Values, Keys, Kinds, At, InWorkspace, ReadFile, Excluded, Holds
<1>4. ASSUME NEW r \in Requests, Check(r)
      PROVE  Excluded'
  BY <1>4, RequestAssumption, SMTT(30)
     DEF Check, Matches, Download, Goto, Refuse, Answer, Idle, After, Is,
         Typed, Forms, Steps, Values, Keys, Kinds, At, InWorkspace, ReadFile, Excluded, Holds
<1>5. ASSUME NEW r \in Requests, Temp(r)
      PROVE  Excluded'
  BY <1>5, RequestAssumption, SMTT(30)
     DEF Temp, Answer, Idle, Fault,
         Typed, Forms, Steps, Values, Keys, Kinds, At, InWorkspace, ReadFile, Excluded, Holds
<1>6. ASSUME NEW r \in Requests, Rename(r)
      PROVE  Excluded'
  BY <1>6, RequestAssumption, SMTT(30)
     DEF Rename, Put, Answer, Idle,
         Typed, Forms, Steps, Values, Keys, Kinds, At, InWorkspace, ReadFile, Excluded, Holds
<1>7. ASSUME NEW r \in Requests, Unlink(r)
      PROVE  Excluded'
  BY <1>7, RequestAssumption, SMTT(30)
     DEF Unlink, Put, Answer, Idle,
         Typed, Forms, Steps, Values, Keys, Kinds, At, InWorkspace, ReadFile, Excluded, Holds
<1>8. ASSUME NEW r \in Requests, Create(r)
      PROVE  Excluded'
  BY <1>8, RequestAssumption, SMTT(30)
     DEF Create, Put, Goto, Refuse, Answer, Idle, Is,
         Typed, Forms, Steps, Values, Keys, Kinds, At, InWorkspace, ReadFile, Excluded, Holds
<1>9. ASSUME NEW r \in Requests, Fill(r)
      PROVE  Excluded'
  BY <1>9, RequestAssumption, SMTT(30)
     DEF Fill, Filled, Put, Answer, Idle, Fault,
         Typed, Forms, Steps, Values, Keys, Kinds, At, InWorkspace, ReadFile, Excluded, Holds
<1>10. ASSUME NEW r \in Requests, Upload(r)
      PROVE  Excluded'
  BY <1>10, RequestAssumption, SMTT(30)
     DEF Upload, Goto, Fault,
         Typed, Forms, Steps, Values, Keys, Kinds, At, InWorkspace, ReadFile, Excluded, Holds
<1>11. ASSUME NEW r \in Requests, Command(r)
      PROVE  Excluded'
  BY <1>11, RequestAssumption, SMTT(30)
     DEF Command, Put, Goto, Fault,
         Typed, Forms, Steps, Values, Keys, Kinds, At, InWorkspace, ReadFile, Excluded, Holds
<1>12. ASSUME NEW r \in Requests, Verify(r)
      PROVE  Excluded'
  BY <1>12, RequestAssumption, SMTT(30)
     DEF Verify, Written, Download, Answer, Goto, Idle, Fault,
         Typed, Forms, Steps, Values, Keys, Kinds, At, InWorkspace, ReadFile, Excluded, Holds
<1>13. ASSUME NEW r \in Requests, Cleanup(r)
      PROVE  Excluded'
  BY <1>13, RequestAssumption, SMTT(30)
     DEF Cleanup, Refuse, Answer, Idle,
         Typed, Forms, Steps, Values, Keys, Kinds, At, InWorkspace, ReadFile, Excluded, Holds
<1>14. ASSUME NEW r \in Requests, Execd(r)
      PROVE  Excluded'
  BY <1>14, RequestAssumption, SMTT(30)
     DEF Execd, Effect, Put, Answer, Idle, Fault,
         Typed, Forms, Steps, Values, Keys, Kinds, At, InWorkspace, ReadFile, Excluded, Holds
<1>15. ASSUME NEW value \in Contents \cup {Absent}, AgentWrites(value)
      PROVE  Excluded'
  BY <1>15, RequestAssumption, SMTT(30)
     DEF AgentWrites,
         Typed, Forms, Steps, Values, Keys, Kinds, At, InWorkspace, ReadFile, Excluded, Holds
<1>16. CASE Crash
  BY <1>16, RequestAssumption, SMTT(30)
     DEF Crash, Fault, Idle,
         Typed, Forms, Steps, Values, Keys, Kinds, At, InWorkspace, ReadFile, Excluded, Holds
<1>17. CASE UNCHANGED vars
  BY <1>17 DEF vars,
         Typed, Forms, Steps, Values, Keys, Kinds, At, InWorkspace, ReadFile, Excluded, Holds
<1> QED
  BY <1>1, <1>2, <1>3, <1>4, <1>5, <1>6, <1>7, <1>8, <1>9, <1>10, <1>11, <1>12, <1>13, <1>14, <1>15, <1>16, <1>17 DEF Next, Serve

\* A step keeps what the holder of a lock knows of its files.
LEMMA OwnStep ==
  ASSUME Typed, Excluded, Own, [Next]_vars
  PROVE  Own'
<1>1. ASSUME NEW r \in Requests, AskWorkspace(r)
      PROVE  Own'
  BY <1>1, RequestAssumption, PathAssumption, ContentAssumption, SMTT(30)
     DEF AskWorkspace, Ask, Expected, Idle,
         Typed, Forms, Steps, Values, Keys, Kinds, At, InWorkspace, ReadFile, Excluded, Holds, Own, Is
<1>2. ASSUME NEW r \in Requests, AskFiles(r)
      PROVE  Own'
  BY <1>2, RequestAssumption, PathAssumption, ContentAssumption, SMTT(30)
     DEF AskFiles, Ask, Expected, Idle,
         Typed, Forms, Steps, Values, Keys, Kinds, At, InWorkspace, ReadFile, Excluded, Holds, Own, Is
<1>3. ASSUME NEW r \in Requests, Lock(r)
      PROVE  Own'
  BY <1>3, RequestAssumption, PathAssumption, ContentAssumption, SMTT(30)
     DEF Lock, Goto, LockFree,
         Typed, Forms, Steps, Values, Keys, Kinds, At, InWorkspace, ReadFile, Excluded, Holds, Own, Is
<1>4. ASSUME NEW r \in Requests, Check(r)
      PROVE  Own'
  BY <1>4, RequestAssumption, PathAssumption, ContentAssumption, SMTT(30)
     DEF Check, Matches, Download, Goto, Refuse, Answer, Idle, After,
         Typed, Forms, Steps, Values, Keys, Kinds, At, InWorkspace, ReadFile, Excluded, Holds, Own, Is
<1>5. ASSUME NEW r \in Requests, Temp(r)
      PROVE  Own'
  BY <1>5, RequestAssumption, PathAssumption, ContentAssumption, SMTT(30)
     DEF Temp, Answer, Idle, Fault,
         Typed, Forms, Steps, Values, Keys, Kinds, At, InWorkspace, ReadFile, Excluded, Holds, Own, Is
<1>6. ASSUME NEW r \in Requests, Rename(r)
      PROVE  Own'
  BY <1>6, RequestAssumption, PathAssumption, ContentAssumption, SMTT(30)
     DEF Rename, Put, Answer, Idle,
         Typed, Forms, Steps, Values, Keys, Kinds, At, InWorkspace, ReadFile, Excluded, Holds, Own, Is
<1>7. ASSUME NEW r \in Requests, Unlink(r)
      PROVE  Own'
  BY <1>7, RequestAssumption, PathAssumption, ContentAssumption, SMTT(30)
     DEF Unlink, Put, Answer, Idle,
         Typed, Forms, Steps, Values, Keys, Kinds, At, InWorkspace, ReadFile, Excluded, Holds, Own, Is
<1>8. ASSUME NEW r \in Requests, Create(r)
      PROVE  Own'
  BY <1>8, RequestAssumption, PathAssumption, ContentAssumption, SMTT(30)
     DEF Create, Put, Goto, Refuse, Answer, Idle,
         Typed, Forms, Steps, Values, Keys, Kinds, At, InWorkspace, ReadFile, Excluded, Holds, Own, Is
<1>9. ASSUME NEW r \in Requests, Fill(r)
      PROVE  Own'
  BY <1>9, RequestAssumption, PathAssumption, ContentAssumption, SMTT(30)
     DEF Fill, Filled, Put, Answer, Idle, Fault,
         Typed, Forms, Steps, Values, Keys, Kinds, At, InWorkspace, ReadFile, Excluded, Holds, Own, Is
<1>10. ASSUME NEW r \in Requests, Upload(r)
      PROVE  Own'
  BY <1>10, RequestAssumption, PathAssumption, ContentAssumption, SMTT(30)
     DEF Upload, Goto, Fault,
         Typed, Forms, Steps, Values, Keys, Kinds, At, InWorkspace, ReadFile, Excluded, Holds, Own, Is
<1>11. ASSUME NEW r \in Requests, Command(r)
      PROVE  Own'
  BY <1>11, RequestAssumption, PathAssumption, ContentAssumption, SMTT(30)
     DEF Command, Put, Goto, Fault,
         Typed, Forms, Steps, Values, Keys, Kinds, At, InWorkspace, ReadFile, Excluded, Holds, Own, Is
<1>12. ASSUME NEW r \in Requests, Verify(r)
      PROVE  Own'
  BY <1>12, RequestAssumption, PathAssumption, ContentAssumption, SMTT(30)
     DEF Verify, Written, Download, Answer, Goto, Idle, Fault,
         Typed, Forms, Steps, Values, Keys, Kinds, At, InWorkspace, ReadFile, Excluded, Holds, Own, Is
<1>13. ASSUME NEW r \in Requests, Cleanup(r)
      PROVE  Own'
  BY <1>13, RequestAssumption, PathAssumption, ContentAssumption, SMTT(30)
     DEF Cleanup, Refuse, Answer, Idle,
         Typed, Forms, Steps, Values, Keys, Kinds, At, InWorkspace, ReadFile, Excluded, Holds, Own, Is
<1>14. ASSUME NEW r \in Requests, Execd(r)
      PROVE  Own'
  BY <1>14, RequestAssumption, PathAssumption, ContentAssumption, SMTT(30)
     DEF Execd, Effect, Put, Answer, Idle, Fault,
         Typed, Forms, Steps, Values, Keys, Kinds, At, InWorkspace, ReadFile, Excluded, Holds, Own, Is
<1>15. ASSUME NEW value \in Contents \cup {Absent}, AgentWrites(value)
      PROVE  Own'
  BY <1>15, RequestAssumption, PathAssumption, ContentAssumption, SMTT(30)
     DEF AgentWrites,
         Typed, Forms, Steps, Values, Keys, Kinds, At, InWorkspace, ReadFile, Excluded, Holds, Own, Is
<1>16. CASE Crash
  BY <1>16, RequestAssumption, PathAssumption, ContentAssumption, SMTT(30)
     DEF Crash, Fault, Idle,
         Typed, Forms, Steps, Values, Keys, Kinds, At, InWorkspace, ReadFile, Excluded, Holds, Own, Is
<1>17. CASE UNCHANGED vars
  BY <1>17 DEF vars,
         Typed, Forms, Steps, Values, Keys, Kinds, At, InWorkspace, ReadFile, Excluded, Holds, Own, Is
<1> QED
  BY <1>1, <1>2, <1>3, <1>4, <1>5, <1>6, <1>7, <1>8, <1>9, <1>10, <1>11, <1>12, <1>13, <1>14, <1>15, <1>16, <1>17 DEF Next, Serve

\* A step keeps the file as a request has found it, but for writers under no lock or another.
LEMMA NamedStep ==
  ASSUME Typed, Excluded, NamedIsReplaced, [Next]_vars
  PROVE  NamedIsReplaced'
<1>1. ASSUME NEW r \in Requests, AskWorkspace(r)
      PROVE  NamedIsReplaced'
  BY <1>1, RequestAssumption, PathAssumption, ContentAssumption, SMTT(30)
     DEF AskWorkspace, Ask, Expected, Idle,
         Typed, Forms, Steps, Values, Keys, Kinds, At, InWorkspace, ReadFile, Excluded, Holds, NamedIsReplaced, Compared
<1>2. ASSUME NEW r \in Requests, AskFiles(r)
      PROVE  NamedIsReplaced'
  BY <1>2, RequestAssumption, PathAssumption, ContentAssumption, SMTT(30)
     DEF AskFiles, Ask, Expected, Idle,
         Typed, Forms, Steps, Values, Keys, Kinds, At, InWorkspace, ReadFile, Excluded, Holds, NamedIsReplaced, Compared
<1>3. ASSUME NEW r \in Requests, Lock(r)
      PROVE  NamedIsReplaced'
  BY <1>3, RequestAssumption, PathAssumption, ContentAssumption, SMTT(30)
     DEF Lock, Goto, LockFree,
         Typed, Forms, Steps, Values, Keys, Kinds, At, InWorkspace, ReadFile, Excluded, Holds, NamedIsReplaced, Compared
<1>4. ASSUME NEW r \in Requests, Check(r)
      PROVE  NamedIsReplaced'
  BY <1>4, RequestAssumption, PathAssumption, ContentAssumption, SMTT(30)
     DEF Check, Matches, Download, Goto, Refuse, Answer, Idle, After, Is,
         Typed, Forms, Steps, Values, Keys, Kinds, At, InWorkspace, ReadFile, Excluded, Holds, NamedIsReplaced, Compared
<1>5. ASSUME NEW r \in Requests, Temp(r)
      PROVE  NamedIsReplaced'
  BY <1>5, RequestAssumption, PathAssumption, ContentAssumption, SMTT(30)
     DEF Temp, Answer, Idle, Fault,
         Typed, Forms, Steps, Values, Keys, Kinds, At, InWorkspace, ReadFile, Excluded, Holds, NamedIsReplaced, Compared
<1>6. ASSUME NEW r \in Requests, Rename(r)
      PROVE  NamedIsReplaced'
  BY <1>6, RequestAssumption, PathAssumption, ContentAssumption, SMTT(30)
     DEF Rename, Put, Answer, Idle,
         Typed, Forms, Steps, Values, Keys, Kinds, At, InWorkspace, ReadFile, Excluded, Holds, NamedIsReplaced, Compared
<1>7. ASSUME NEW r \in Requests, Unlink(r)
      PROVE  NamedIsReplaced'
  BY <1>7, RequestAssumption, PathAssumption, ContentAssumption, SMTT(30)
     DEF Unlink, Put, Answer, Idle,
         Typed, Forms, Steps, Values, Keys, Kinds, At, InWorkspace, ReadFile, Excluded, Holds, NamedIsReplaced, Compared
<1>8. ASSUME NEW r \in Requests, Create(r)
      PROVE  NamedIsReplaced'
  BY <1>8, RequestAssumption, PathAssumption, ContentAssumption, SMTT(30)
     DEF Create, Put, Goto, Refuse, Answer, Idle, Is,
         Typed, Forms, Steps, Values, Keys, Kinds, At, InWorkspace, ReadFile, Excluded, Holds, NamedIsReplaced, Compared
<1>9. ASSUME NEW r \in Requests, Fill(r)
      PROVE  NamedIsReplaced'
  BY <1>9, RequestAssumption, PathAssumption, ContentAssumption, SMTT(30)
     DEF Fill, Filled, Put, Answer, Idle, Fault,
         Typed, Forms, Steps, Values, Keys, Kinds, At, InWorkspace, ReadFile, Excluded, Holds, NamedIsReplaced, Compared
<1>10. ASSUME NEW r \in Requests, Upload(r)
      PROVE  NamedIsReplaced'
  BY <1>10, RequestAssumption, PathAssumption, ContentAssumption, SMTT(30)
     DEF Upload, Goto, Fault,
         Typed, Forms, Steps, Values, Keys, Kinds, At, InWorkspace, ReadFile, Excluded, Holds, NamedIsReplaced, Compared
<1>11. ASSUME NEW r \in Requests, Command(r)
      PROVE  NamedIsReplaced'
  BY <1>11, RequestAssumption, PathAssumption, ContentAssumption, SMTT(30)
     DEF Command, Put, Goto, Fault,
         Typed, Forms, Steps, Values, Keys, Kinds, At, InWorkspace, ReadFile, Excluded, Holds, NamedIsReplaced, Compared
<1>12. ASSUME NEW r \in Requests, Verify(r)
      PROVE  NamedIsReplaced'
  BY <1>12, RequestAssumption, PathAssumption, ContentAssumption, SMTT(30)
     DEF Verify, Written, Download, Answer, Goto, Idle, Fault,
         Typed, Forms, Steps, Values, Keys, Kinds, At, InWorkspace, ReadFile, Excluded, Holds, NamedIsReplaced, Compared
<1>13. ASSUME NEW r \in Requests, Cleanup(r)
      PROVE  NamedIsReplaced'
  BY <1>13, RequestAssumption, PathAssumption, ContentAssumption, SMTT(30)
     DEF Cleanup, Refuse, Answer, Idle,
         Typed, Forms, Steps, Values, Keys, Kinds, At, InWorkspace, ReadFile, Excluded, Holds, NamedIsReplaced, Compared
<1>14. ASSUME NEW r \in Requests, Execd(r)
      PROVE  NamedIsReplaced'
  BY <1>14, RequestAssumption, PathAssumption, ContentAssumption, SMTT(30)
     DEF Execd, Effect, Put, Answer, Idle, Fault,
         Typed, Forms, Steps, Values, Keys, Kinds, At, InWorkspace, ReadFile, Excluded, Holds, NamedIsReplaced, Compared
<1>15. ASSUME NEW value \in Contents \cup {Absent}, AgentWrites(value)
      PROVE  NamedIsReplaced'
  BY <1>15, RequestAssumption, PathAssumption, ContentAssumption, SMTT(30)
     DEF AgentWrites,
         Typed, Forms, Steps, Values, Keys, Kinds, At, InWorkspace, ReadFile, Excluded, Holds, NamedIsReplaced, Compared
<1>16. CASE Crash
  BY <1>16, RequestAssumption, PathAssumption, ContentAssumption, SMTT(30)
     DEF Crash, Fault, Idle,
         Typed, Forms, Steps, Values, Keys, Kinds, At, InWorkspace, ReadFile, Excluded, Holds, NamedIsReplaced, Compared
<1>17. CASE UNCHANGED vars
  BY <1>17 DEF vars,
         Typed, Forms, Steps, Values, Keys, Kinds, At, InWorkspace, ReadFile, Excluded, Holds, NamedIsReplaced, Compared
<1> QED
  BY <1>1, <1>2, <1>3, <1>4, <1>5, <1>6, <1>7, <1>8, <1>9, <1>10, <1>11, <1>12, <1>13, <1>14, <1>15, <1>16, <1>17 DEF Next, Serve

------------------------------------------------------------------------------
IInv == Typed /\ Excluded /\ Own /\ NamedIsReplaced

LEMMA IInvHolds == Spec => []IInv
<1>1. Init => IInv
  BY InitTyped DEF IInv
<1>2. IInv /\ [Next]_vars => IInv'
  BY TypedStep, ExcludedStep, OwnStep, NamedStep DEF IInv
<1> QED
  BY <1>1, <1>2, PTL DEF Spec

\* The state is of the right type, and of the requests of one key the one past the lock holds it.
THEOREM TypeCorrect == Spec => []TypeOK
<1>1. IInv => TypeOK
  BY TypeOKIs DEF IInv
<1> QED
  BY <1>1, IInvHolds, PTL

\* What is about to be replaced, deleted or created over is what the request named, but for what
\* Pi and the clients of another key do: NamedIsReplaced, for any number of requests.
THEOREM NamedIsReplacedHolds == Spec => []NamedIsReplaced
<1>1. IInv => NamedIsReplaced
  BY DEF IInv
<1> QED
  BY <1>1, IInvHolds, PTL

\* No replacement, failed or abandoned at any point, turns a whole file into a part of one.
THEOREM StaysWholeHolds == Spec => StaysWhole
<1> DEFINE Whole == ReadFile' = Partial =>
             \/ ReadFile \in {Absent, Partial}
             \/ \E r \in Requests : At(r, "rename") /\ req[r].temp = Partial
<1>1. ASSUME IInv, [Next]_vars
      PROVE  Whole
  <2>1. ASSUME NEW r \in Requests, AskWorkspace(r)
        PROVE  Whole
    BY <1>1, <2>1, RequestAssumption, PathAssumption, ContentAssumption, SMTT(30)
       DEF AskWorkspace, Ask, Idle,
           IInv, Typed, Forms, Steps, Values, Keys, Kinds, At, InWorkspace, ReadFile, Own, Is, Absent, Partial
  <2>2. ASSUME NEW r \in Requests, AskFiles(r)
        PROVE  Whole
    BY <1>1, <2>2, RequestAssumption, PathAssumption, ContentAssumption, SMTT(30)
       DEF AskFiles, Ask, Idle,
           IInv, Typed, Forms, Steps, Values, Keys, Kinds, At, InWorkspace, ReadFile, Own, Is, Absent, Partial
  <2>3. ASSUME NEW r \in Requests, Lock(r)
        PROVE  Whole
    BY <1>1, <2>3, RequestAssumption, PathAssumption, ContentAssumption, SMTT(30)
       DEF Lock, Goto,
           IInv, Typed, Forms, Steps, Values, Keys, Kinds, At, InWorkspace, ReadFile, Own, Is, Absent, Partial
  <2>4. ASSUME NEW r \in Requests, Check(r)
        PROVE  Whole
    BY <1>1, <2>4, RequestAssumption, PathAssumption, ContentAssumption, SMTT(30)
       DEF Check, Goto, Refuse, Answer, Idle, After,
           IInv, Typed, Forms, Steps, Values, Keys, Kinds, At, InWorkspace, ReadFile, Own, Is, Absent, Partial
  <2>5. ASSUME NEW r \in Requests, Temp(r)
        PROVE  Whole
    BY <1>1, <2>5, RequestAssumption, PathAssumption, ContentAssumption, SMTT(30)
       DEF Temp, Answer, Idle,
           IInv, Typed, Forms, Steps, Values, Keys, Kinds, At, InWorkspace, ReadFile, Own, Is, Absent, Partial
  <2>6. ASSUME NEW r \in Requests, Rename(r)
        PROVE  Whole
    BY <1>1, <2>6, RequestAssumption, PathAssumption, ContentAssumption, SMTT(30)
       DEF Rename, Put, Answer, Idle,
           IInv, Typed, Forms, Steps, Values, Keys, Kinds, At, InWorkspace, ReadFile, Own, Is, Absent, Partial
  <2>7. ASSUME NEW r \in Requests, Unlink(r)
        PROVE  Whole
    BY <1>1, <2>7, RequestAssumption, PathAssumption, ContentAssumption, SMTT(30)
       DEF Unlink, Put, Answer, Idle,
           IInv, Typed, Forms, Steps, Values, Keys, Kinds, At, InWorkspace, ReadFile, Own, Is, Absent, Partial
  <2>8. ASSUME NEW r \in Requests, Create(r)
        PROVE  Whole
    BY <1>1, <2>8, RequestAssumption, PathAssumption, ContentAssumption, SMTT(30)
       DEF Create, Put, Goto, Refuse, Answer, Idle,
           IInv, Typed, Forms, Steps, Values, Keys, Kinds, At, InWorkspace, ReadFile, Own, Is, Absent, Partial
  <2>9. ASSUME NEW r \in Requests, Fill(r)
        PROVE  Whole
    BY <1>1, <2>9, RequestAssumption, PathAssumption, ContentAssumption, SMTT(30)
       DEF Fill, Filled, Put, Answer, Idle,
           IInv, Typed, Forms, Steps, Values, Keys, Kinds, At, InWorkspace, ReadFile, Own, Is, Absent, Partial
  <2>10. ASSUME NEW r \in Requests, Upload(r)
        PROVE  Whole
    BY <1>1, <2>10, RequestAssumption, PathAssumption, ContentAssumption, SMTT(30)
       DEF Upload, Goto,
           IInv, Typed, Forms, Steps, Values, Keys, Kinds, At, InWorkspace, ReadFile, Own, Is, Absent, Partial
  <2>11. ASSUME NEW r \in Requests, Command(r)
        PROVE  Whole
    BY <1>1, <2>11, RequestAssumption, PathAssumption, ContentAssumption, SMTT(30)
       DEF Command, Put, Goto,
           IInv, Typed, Forms, Steps, Values, Keys, Kinds, At, InWorkspace, ReadFile, Own, Is, Absent, Partial
  <2>12. ASSUME NEW r \in Requests, Verify(r)
        PROVE  Whole
    BY <1>1, <2>12, RequestAssumption, PathAssumption, ContentAssumption, SMTT(30)
       DEF Verify, Written, Download, Answer, Goto, Idle,
           IInv, Typed, Forms, Steps, Values, Keys, Kinds, At, InWorkspace, ReadFile, Own, Is, Absent, Partial
  <2>13. ASSUME NEW r \in Requests, Cleanup(r)
        PROVE  Whole
    BY <1>1, <2>13, RequestAssumption, PathAssumption, ContentAssumption, SMTT(30)
       DEF Cleanup, Refuse, Answer, Idle,
           IInv, Typed, Forms, Steps, Values, Keys, Kinds, At, InWorkspace, ReadFile, Own, Is, Absent, Partial
  <2>14. ASSUME NEW r \in Requests, Execd(r)
        PROVE  Whole
    BY <1>1, <2>14, RequestAssumption, PathAssumption, ContentAssumption, SMTT(30)
       DEF Execd, Effect, Put, Answer, Idle,
           IInv, Typed, Forms, Steps, Values, Keys, Kinds, At, InWorkspace, ReadFile, Own, Is, Absent, Partial
  <2>15. ASSUME NEW value \in Contents \cup {Absent}, AgentWrites(value)
        PROVE  Whole
    BY <1>1, <2>15, RequestAssumption, PathAssumption, ContentAssumption, SMTT(30)
       DEF AgentWrites,
           IInv, Typed, Forms, Steps, Values, Keys, Kinds, At, InWorkspace, ReadFile, Own, Is, Absent, Partial
  <2>16. CASE Crash
    BY <1>1, <2>16, RequestAssumption, PathAssumption, ContentAssumption, SMTT(30)
       DEF Crash, Idle,
           IInv, Typed, Forms, Steps, Values, Keys, Kinds, At, InWorkspace, ReadFile, Own, Is, Absent, Partial
  <2>17. CASE UNCHANGED vars
    BY <1>1, <2>17
       DEF vars,
           IInv, Typed, Forms, Steps, Values, Keys, Kinds, At, InWorkspace, ReadFile, Own, Is, Absent, Partial
  <2> QED
    BY <1>1, <2>1, <2>2, <2>3, <2>4, <2>5, <2>6, <2>7, <2>8, <2>9, <2>10, <2>11, <2>12, <2>13, <2>14, <2>15, <2>16, <2>17 DEF Next, Serve
<1> QED
  BY <1>1, IInvHolds, PTL DEF Spec, StaysWhole

\* A success is answered with the content in place, but for what Pi and the clients of another key
\* do and for a short write.
THEOREM SavedIsThereHolds == Spec => SavedIsThere
<1> DEFINE There == \A r \in Requests :
             Saves(r) => disk' \in {req[r].content, Partial} \/ writer' # req[r].key
<1>1. ASSUME IInv, [Next]_vars
      PROVE  There
  <2>1. ASSUME NEW r \in Requests, AskWorkspace(r)
        PROVE  There
    BY <1>1, <2>1, RequestAssumption, PathAssumption, ContentAssumption, SMTT(30)
       DEF AskWorkspace, Ask, Idle,
           IInv, Typed, Forms, Steps, Values, Keys, Kinds, At, InWorkspace, ReadFile, Own, Excluded, Holds, Saves, Is, Absent, Partial
  <2>2. ASSUME NEW r \in Requests, AskFiles(r)
        PROVE  There
    BY <1>1, <2>2, RequestAssumption, PathAssumption, ContentAssumption, SMTT(30)
       DEF AskFiles, Ask, Idle,
           IInv, Typed, Forms, Steps, Values, Keys, Kinds, At, InWorkspace, ReadFile, Own, Excluded, Holds, Saves, Is, Absent, Partial
  <2>3. ASSUME NEW r \in Requests, Lock(r)
        PROVE  There
    BY <1>1, <2>3, RequestAssumption, PathAssumption, ContentAssumption, SMTT(30)
       DEF Lock, Goto,
           IInv, Typed, Forms, Steps, Values, Keys, Kinds, At, InWorkspace, ReadFile, Own, Excluded, Holds, Saves, Is, Absent, Partial
  <2>4. ASSUME NEW r \in Requests, Check(r)
        PROVE  There
    BY <1>1, <2>4, RequestAssumption, PathAssumption, ContentAssumption, SMTT(30)
       DEF Check, Goto, Refuse, Answer, Idle, After,
           IInv, Typed, Forms, Steps, Values, Keys, Kinds, At, InWorkspace, ReadFile, Own, Excluded, Holds, Saves, Is, Absent, Partial
  <2>5. ASSUME NEW r \in Requests, Temp(r)
        PROVE  There
    BY <1>1, <2>5, RequestAssumption, PathAssumption, ContentAssumption, SMTT(30)
       DEF Temp, Answer, Idle,
           IInv, Typed, Forms, Steps, Values, Keys, Kinds, At, InWorkspace, ReadFile, Own, Excluded, Holds, Saves, Is, Absent, Partial
  <2>6. ASSUME NEW r \in Requests, Rename(r)
        PROVE  There
    BY <1>1, <2>6, RequestAssumption, PathAssumption, ContentAssumption, SMTT(30)
       DEF Rename, Put, Answer, Idle,
           IInv, Typed, Forms, Steps, Values, Keys, Kinds, At, InWorkspace, ReadFile, Own, Excluded, Holds, Saves, Is, Absent, Partial
  <2>7. ASSUME NEW r \in Requests, Unlink(r)
        PROVE  There
    BY <1>1, <2>7, RequestAssumption, PathAssumption, ContentAssumption, SMTT(30)
       DEF Unlink, Put, Answer, Idle,
           IInv, Typed, Forms, Steps, Values, Keys, Kinds, At, InWorkspace, ReadFile, Own, Excluded, Holds, Saves, Is, Absent, Partial
  <2>8. ASSUME NEW r \in Requests, Create(r)
        PROVE  There
    BY <1>1, <2>8, RequestAssumption, PathAssumption, ContentAssumption, SMTT(30)
       DEF Create, Put, Goto, Refuse, Answer, Idle,
           IInv, Typed, Forms, Steps, Values, Keys, Kinds, At, InWorkspace, ReadFile, Own, Excluded, Holds, Saves, Is, Absent, Partial
  <2>9. ASSUME NEW r \in Requests, Fill(r)
        PROVE  There
    BY <1>1, <2>9, RequestAssumption, PathAssumption, ContentAssumption, SMTT(30)
       DEF Fill, Filled, Put, Answer, Idle,
           IInv, Typed, Forms, Steps, Values, Keys, Kinds, At, InWorkspace, ReadFile, Own, Excluded, Holds, Saves, Is, Absent, Partial
  <2>10. ASSUME NEW r \in Requests, Upload(r)
        PROVE  There
    BY <1>1, <2>10, RequestAssumption, PathAssumption, ContentAssumption, SMTT(30)
       DEF Upload, Goto,
           IInv, Typed, Forms, Steps, Values, Keys, Kinds, At, InWorkspace, ReadFile, Own, Excluded, Holds, Saves, Is, Absent, Partial
  <2>11. ASSUME NEW r \in Requests, Command(r)
        PROVE  There
    BY <1>1, <2>11, RequestAssumption, PathAssumption, ContentAssumption, SMTT(30)
       DEF Command, Put, Goto,
           IInv, Typed, Forms, Steps, Values, Keys, Kinds, At, InWorkspace, ReadFile, Own, Excluded, Holds, Saves, Is, Absent, Partial
  <2>12. ASSUME NEW r \in Requests, Verify(r)
        PROVE  There
    BY <1>1, <2>12, RequestAssumption, PathAssumption, ContentAssumption, SMTT(30)
       DEF Verify, Written, Download, Answer, Goto, Idle,
           IInv, Typed, Forms, Steps, Values, Keys, Kinds, At, InWorkspace, ReadFile, Own, Excluded, Holds, Saves, Is, Absent, Partial
  <2>13. ASSUME NEW r \in Requests, Cleanup(r)
        PROVE  There
    BY <1>1, <2>13, RequestAssumption, PathAssumption, ContentAssumption, SMTT(30)
       DEF Cleanup, Refuse, Answer, Idle,
           IInv, Typed, Forms, Steps, Values, Keys, Kinds, At, InWorkspace, ReadFile, Own, Excluded, Holds, Saves, Is, Absent, Partial
  <2>14. ASSUME NEW r \in Requests, Execd(r)
        PROVE  There
    BY <1>1, <2>14, RequestAssumption, PathAssumption, ContentAssumption, SMTT(30)
       DEF Execd, Effect, Put, Answer, Idle,
           IInv, Typed, Forms, Steps, Values, Keys, Kinds, At, InWorkspace, ReadFile, Own, Excluded, Holds, Saves, Is, Absent, Partial
  <2>15. ASSUME NEW value \in Contents \cup {Absent}, AgentWrites(value)
        PROVE  There
    BY <1>1, <2>15, RequestAssumption, PathAssumption, ContentAssumption, SMTT(30)
       DEF AgentWrites,
           IInv, Typed, Forms, Steps, Values, Keys, Kinds, At, InWorkspace, ReadFile, Own, Excluded, Holds, Saves, Is, Absent, Partial
  <2>16. CASE Crash
    BY <1>1, <2>16, RequestAssumption, PathAssumption, ContentAssumption, SMTT(30)
       DEF Crash, Idle,
           IInv, Typed, Forms, Steps, Values, Keys, Kinds, At, InWorkspace, ReadFile, Own, Excluded, Holds, Saves, Is, Absent, Partial
  <2>17. CASE UNCHANGED vars
    BY <1>1, <2>17
       DEF vars,
           IInv, Typed, Forms, Steps, Values, Keys, Kinds, At, InWorkspace, ReadFile, Own, Excluded, Holds, Saves, Is, Absent, Partial
  <2> QED
    BY <1>1, <2>1, <2>2, <2>3, <2>4, <2>5, <2>6, <2>7, <2>8, <2>9, <2>10, <2>11, <2>12, <2>13, <2>14, <2>15, <2>16, <2>17 DEF Next, Serve
<1> QED
  BY <1>1, IInvHolds, PTL DEF Spec, SavedIsThere
=============================================================================
