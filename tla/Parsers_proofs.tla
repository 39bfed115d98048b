----------------------------- MODULE Parsers_proofs -----------------------------
(* Proofs about Parsers, for logs of any length and any number of calls: the  *)
(* steps of a trajectory are numbered as they are shown, have their types,    *)
(* only grow, show results with their calls, and tell all that was said, also *)
(* what an earlier parse of the file told.                                    *)
EXTENDS Parsers, SequenceTheorems, FiniteSetTheorems, WellFoundedInduction, TLAPS

-----------------------------------------------------------------------------
(* The inductive invariant: the steps that are closed are numbered from one,  *)
(* the step in the making is the next, and the formats whose entries are      *)
(* steps have none in the making.                                             *)

HasId(step, n) == "id" \in DOMAIN step /\ step.id = n

Counted(s) ==
  /\ \E T : s \in Seq(T)
  /\ \A i \in DOMAIN s : HasId(s[i], i)

IInv ==
  /\ Counted(steps)
  /\ pending = <<>> \/ \E step : pending = <<step>> /\ HasId(step, Len(steps) + 1)
  /\ stepId = Len(steps) + Len(pending)
  /\ agent \in {"claude", "copilot_db"} => pending = <<>>

-----------------------------------------------------------------------------
(* Sequences of steps *)

LEMMA NoneIsCounted == Counted(<<>>) /\ Len(<<>>) = 0
<1>1. <<>> \in Seq({}) OBVIOUS
<1>2. QED BY <1>1 DEF Counted

LEMMA CountedLength ==
  ASSUME NEW s, Counted(s)
  PROVE  Len(s) \in Nat /\ DOMAIN s = 1..Len(s)
BY DEF Counted

(* One more step, with the next number.                                       *)
LEMMA OneMore ==
  ASSUME NEW s, Counted(s), NEW step, HasId(step, Len(s) + 1)
  PROVE  /\ Counted(s \o <<step>>) /\ Len(s \o <<step>>) = Len(s) + 1
         /\ Counted(Append(s, step)) /\ Len(Append(s, step)) = Len(s) + 1
<1>1. PICK T : s \in Seq(T) BY DEF Counted
<1> DEFINE U == T \cup {step}
<1>2. s \in Seq(U) /\ <<step>> \in Seq(U) /\ step \in U
  <2>1. \A i \in 1..Len(s) : s[i] \in U BY <1>1
  <2>2. s = [i \in 1..Len(s) |-> s[i]] /\ Len(s) \in Nat BY <1>1
  <2> HIDE DEF U
  <2>3. s \in Seq(U) BY <2>1, <2>2
  <2>4. step \in U BY DEF U
  <2>5. QED BY <2>3, <2>4
<1> HIDE DEF U
<1>3. /\ Append(s, step) \in Seq(U) /\ Len(Append(s, step)) = Len(s) + 1
      /\ \A i \in 1..Len(s) : Append(s, step)[i] = s[i]
      /\ Append(s, step)[Len(s) + 1] = step
  BY <1>2
<1>4. /\ s \o <<step>> \in Seq(U) /\ Len(s \o <<step>>) = Len(s) + 1
      /\ \A i \in 1..Len(s) : (s \o <<step>>)[i] = s[i]
      /\ (s \o <<step>>)[Len(s) + 1] = step
  BY <1>2
<1>5. ASSUME NEW t, t \in Seq(U), Len(t) = Len(s) + 1, \A i \in 1..Len(s) : t[i] = s[i],
             t[Len(s) + 1] = step
      PROVE  Counted(t)
  <2>1. Len(s) \in Nat /\ DOMAIN s = 1..Len(s) BY CountedLength
  <2>2. ASSUME NEW i \in DOMAIN t PROVE HasId(t[i], i)
    <3>1. i \in 1..Len(s) \/ i = Len(s) + 1 BY <1>5, <2>1
    <3>2. QED BY <1>5, <2>1, <3>1 DEF Counted
  <2>3. QED BY <1>5, <2>2 DEF Counted
<1>6. QED BY <1>3, <1>4, <1>5

LEMMA NoMore ==
  ASSUME NEW s, Counted(s)
  PROVE  s \o <<>> = s
BY DEF Counted

(* Steps with no words are not made.                                          *)
LEMMA WordsAre ==
  ASSUME NEW text
  PROVE  \/ Words(text) = <<>> /\ Len(Words(text)) = 0
         \/ Words(text) = <<text>> /\ Len(Words(text)) = 1
BY DEF Words

LEMMA StepHasId ==
  ASSUME NEW id, NEW source, NEW words
  PROVE  HasId(Step(id, source, words), id)
BY DEF Step, HasId

(* A step that is filled in keeps its number.                                 *)
LEMMA KeepsId ==
  ASSUME NEW step, NEW n, HasId(step, n), NEW field \in {"words", "calls", "results", "used"},
         NEW value
  PROVE  HasId([step EXCEPT ![field] = value], n)
BY DEF HasId

(* The step in the making, closed or changed, after those that are closed.    *)
LEMMA Closing ==
  ASSUME IInv, NEW closed, DOMAIN closed = DOMAIN pending,
         closed = [i \in DOMAIN pending |-> closed[i]],
         \A i \in DOMAIN pending : HasId(pending[i], Len(steps) + 1) =>
                                     HasId(closed[i], Len(steps) + 1)
  PROVE  /\ Counted(steps \o closed) /\ Len(steps \o closed) = stepId
         /\ closed = <<>> \/ \E step : closed = <<step>> /\ HasId(step, Len(steps) + 1)
         /\ Len(closed) = Len(pending)
<1>1. CASE pending = <<>>
  <2>1. closed = <<>> BY <1>1
  <2>2. steps \o closed = steps BY <2>1, NoMore DEF IInv
  <2>3. stepId = Len(steps) BY <1>1, CountedLength DEF IInv
  <2>4. QED BY <1>1, <2>1, <2>2, <2>3 DEF IInv
<1>2. ASSUME NEW step, pending = <<step>>, HasId(step, Len(steps) + 1)
      PROVE  /\ Counted(steps \o closed) /\ Len(steps \o closed) = stepId
             /\ \E x : closed = <<x>> /\ HasId(x, Len(steps) + 1)
             /\ Len(closed) = Len(pending)
  <2>1. DOMAIN pending = {1} /\ pending[1] = step BY <1>2
  <2>2. closed = <<closed[1]>> BY <2>1
  <2>3. HasId(closed[1], Len(steps) + 1) BY <1>2, <2>1
  <2>4. Counted(steps \o <<closed[1]>>) /\ Len(steps \o <<closed[1]>>) = Len(steps) + 1
    BY <2>3, OneMore DEF IInv
  <2>5. stepId = Len(steps) + 1 BY <1>2 DEF IInv
  <2>6. QED BY <1>2, <2>2, <2>3, <2>4, <2>5
<1>3. QED BY <1>1, <1>2 DEF IInv

LEMMA ClosedIsCounted ==
  ASSUME IInv
  PROVE  Counted(Closed) /\ Len(Closed) = stepId
<1> DEFINE closed == [i \in DOMAIN pending |->
              IF agent \in Collecting THEN pending[i] ELSE Answered(pending[i])]
<1>1. ASSUME NEW i \in DOMAIN pending, HasId(pending[i], Len(steps) + 1)
      PROVE  HasId(closed[i], Len(steps) + 1)
  <2>1. HasId(Answered(pending[i]), Len(steps) + 1) BY <1>1 DEF Answered, HasId
  <2>2. QED BY <1>1, <2>1
<1>2. DOMAIN closed = DOMAIN pending /\ closed = [i \in DOMAIN pending |-> closed[i]]
  OBVIOUS
<1>3. Closed = steps \o closed BY DEF Closed
<1> HIDE DEF closed
<1>4. QED BY <1>1, <1>2, <1>3, Closing

LEMMA GrowingIsNext ==
  ASSUME IInv
  PROVE  HasId(Growing, Len(steps) + 1) /\ Growing.id = Len(steps) + 1
<1>1. CASE pending = <<>>
  <2>1. stepId = Len(steps) BY <1>1, CountedLength DEF IInv
  <2>2. Growing = Step(stepId + 1, "agent", <<>>) BY <1>1 DEF Growing
  <2>3. QED BY <2>1, <2>2, StepHasId DEF HasId
<1>2. CASE \E step : pending = <<step>> /\ HasId(step, Len(steps) + 1)
  <2>1. PICK step : pending = <<step>> /\ HasId(step, Len(steps) + 1) BY <1>2
  <2>2. Growing = step BY <2>1 DEF Growing
  <2>3. QED BY <2>1, <2>2 DEF HasId
<1>3. QED BY <1>1, <1>2 DEF IInv

LEMMA GrownIsNext ==
  ASSUME IInv, NEW text, NEW calls
  PROVE  HasId(Grown(text, calls), Len(steps) + 1)
<1>1. HasId(Growing, Len(steps) + 1) BY GrowingIsNext
<1>2. QED BY <1>1 DEF Grown, HasId

-----------------------------------------------------------------------------
(* What an entry can do to the steps *)

(* A step begins or goes on.                                                  *)
LEMMA GoingOn ==
  ASSUME IInv, NEW step, HasId(step, Len(steps) + 1),
         UNCHANGED <<agent, steps>>, pending' = <<step>>, Numbered,
         agent \notin {"claude", "copilot_db"}
  PROVE  IInv'
<1>1. stepId' = Len(steps) + 1 BY GrowingIsNext DEF Numbered
<1>2. Len(pending') = 1 OBVIOUS
<1>3. stepId' = Len(steps') + Len(pending') BY <1>1, <1>2
<1>4. QED BY <1>3 DEF IInv

(* A step is added whole, the one in the making with it if there is one.      *)
LEMMA Ending ==
  ASSUME IInv, NEW step, HasId(step, Len(steps) + 1),
         UNCHANGED agent, steps' = Append(steps, step), pending' = <<>>, Numbered
  PROVE  IInv'
<1>1. stepId' = Len(steps) + 1 BY GrowingIsNext DEF Numbered
<1>2. Counted(steps') /\ Len(steps') = Len(steps) + 1 BY OneMore DEF IInv
<1>3. Len(pending') = 0 BY NoneIsCounted
<1>4. stepId' = Len(steps') + Len(pending') BY <1>1, <1>2, <1>3, CountedLength DEF IInv
<1>5. QED BY <1>2, <1>4 DEF IInv

(* The step in the making is filled in.                                       *)
LEMMA FillingIn ==
  ASSUME IInv, DOMAIN pending' = DOMAIN pending,
         pending' = [i \in DOMAIN pending |-> pending'[i]],
         \A i \in DOMAIN pending : HasId(pending[i], Len(steps) + 1) =>
                                     HasId(pending'[i], Len(steps) + 1),
         UNCHANGED <<agent, steps, stepId>>
  PROVE  IInv'
<1>1. /\ pending' = <<>> \/ \E step : pending' = <<step>> /\ HasId(step, Len(steps) + 1)
      /\ Len(pending') = Len(pending)
  BY Closing
<1>2. agent \in {"claude", "copilot_db"} => pending' = <<>>
  <2>1. HAVE agent \in {"claude", "copilot_db"}
  <2>2. pending = <<>> BY <2>1 DEF IInv
  <2>3. QED BY <2>2
<1>3. QED BY <1>1, <1>2 DEF IInv

(* The steps so far are closed, and the user may have said something.         *)
LEMMA Asking ==
  ASSUME NEW s, Counted(s), NEW text, NEW shift \in [Nat -> Nat], shift[1] = Len(s) + 1
  PROVE  LET asked == s \o [i \in 1..Len(Words(text)) |-> Step(shift[i], "user", Words(text))]
         IN  Counted(asked) /\ Len(asked) = Len(s) + Len(Words(text))
<1> DEFINE new == [i \in 1..Len(Words(text)) |-> Step(shift[i], "user", Words(text))]
<1>1. CASE Words(text) = <<>>
  <2>1. Len(Words(text)) = 0 /\ new = <<>> BY <1>1
  <2>2. s \o new = s BY <2>1, NoMore
  <2>3. QED BY <2>1, <2>2, CountedLength
<1>2. CASE Words(text) = <<text>>
  <2>1. Len(Words(text)) = 1 /\ new = <<Step(shift[1], "user", Words(text))>> BY <1>2
  <2>2. HasId(Step(shift[1], "user", Words(text)), Len(s) + 1) BY StepHasId
  <2> HIDE DEF new
  <2>3. Counted(s \o new) /\ Len(s \o new) = Len(s) + 1 BY <2>1, <2>2, OneMore
  <2>4. QED BY <2>1, <2>3 DEF new
<1>3. QED BY <1>1, <1>2, WordsAre

LEMMA UserSaysSafe ==
  ASSUME IInv, NEW text, UserSays(text), UNCHANGED agent
  PROVE  IInv'
<1> DEFINE shift == [n \in Nat |-> stepId + n]
<1>1. Counted(Closed) /\ Len(Closed) = stepId /\ stepId \in Nat
  BY ClosedIsCounted, CountedLength
<1>2. shift \in [Nat -> Nat] /\ shift[1] = Len(Closed) + 1 BY <1>1
<1>3. steps' = Closed \o [i \in 1..Len(Words(text)) |-> Step(shift[i], "user", Words(text))]
  BY WordsAre DEF UserSays
<1> HIDE DEF shift
<1>4. Counted(steps') /\ Len(steps') = stepId + Len(Words(text)) BY <1>1, <1>2, <1>3, Asking
<1>5. stepId' = stepId + Len(Words(text)) /\ pending' = <<>> /\ Len(<<>>) = 0
  BY NoneIsCounted DEF UserSays
<1>6. stepId' = Len(steps') + Len(pending')
  BY <1>4, <1>5, CountedLength
<1>7. QED BY <1>4, <1>5, <1>6 DEF IInv

LEMMA FlushSafe ==
  ASSUME IInv, Flush, UNCHANGED <<agent, stepId>>
  PROVE  IInv'
<1>1. Counted(steps') /\ Len(steps') = stepId BY ClosedIsCounted DEF Flush
<1>2. pending' = <<>> /\ Len(pending') = 0 BY NoneIsCounted DEF Flush
<1>3. stepId' = Len(steps') + Len(pending') BY <1>1, <1>2, CountedLength
<1>4. QED BY <1>1, <1>2, <1>3 DEF IInv

-----------------------------------------------------------------------------
(* The initial states, and the steps *)

LEMMA InitSafe == Init => IInv
<1>1. HAVE Init
<1>2. steps = <<>> /\ pending = <<>> /\ stepId = 0 /\ agent = agent BY <1>1 DEF Init
<1>3. Len(steps) = 0 /\ Len(pending) = 0 /\ Counted(steps) BY <1>2, NoneIsCounted
<1>4. QED BY <1>2, <1>3 DEF IInv

(* What the steps depend on.                                                  *)
numbers == <<agent, steps, pending, stepId>>

LEMMA SilentSafe == IInv /\ UNCHANGED numbers => IInv'
BY DEF IInv, numbers

(* What every handler keeps.                                                  *)
LEMMA ReadKeepsAgent ==
  ASSUME NEW format, NEW kind, Read(format, kind)
  PROVE  agent = format /\ UNCHANGED agent
BY DEF Read, file

LEMMA FileSafe ==
  ASSUME IInv, (\E e \in Entries : Write(e)) \/ Crash \/ Open \/ UNCHANGED vars
  PROVE  IInv'
<1>1. UNCHANGED numbers BY DEF Write, Crash, Open, vars, file, parsed, numbers
<1>2. QED BY <1>1, SilentSafe

LEMMA ResumeSafe ==
  ASSUME Resume
  PROVE  IInv'
<1>1. steps' = <<>> /\ pending' = <<>> /\ stepId' = 0 BY DEF Resume
<1>2. Len(steps') = 0 /\ Len(pending') = 0 /\ Counted(steps') BY <1>1, NoneIsCounted
<1>3. QED BY <1>1, <1>2 DEF IInv, Counted, HasId

LEMMA SilentEntriesSafe ==
  ASSUME IInv, \/ ClaudeResult \/ ClaudeOther \/ CodexResult \/ CopilotResult \/ HermesTool
               \/ ProbeUsage \/ KnitTask
  PROVE  IInv'
<1>1. UNCHANGED numbers
  BY DEF ClaudeResult, ClaudeOther, CodexResult, CopilotResult, HermesTool, ProbeUsage, KnitTask,
         Read, file, parsed, numbers
<1>2. QED BY <1>1, SilentSafe

LEMMA UserEntriesSafe ==
  ASSUME IInv, \/ ClaudeUser \/ CodexUser \/ CopilotUser \/ HermesUser \/ ProbeUser \/ KnitUser
               \/ ExecPrompt
  PROVE  IInv'
<1>1. UNCHANGED agent
  BY ReadKeepsAgent DEF ClaudeUser, CodexUser, CopilotUser, HermesUser, ProbeUser, KnitUser,
                        ExecPrompt
<1>2. UserSays(Entry.text) \/ UserSays(Unless(Entry.text, lastUser))
  BY DEF ClaudeUser, CodexUser, CopilotUser, HermesUser, ProbeUser, KnitUser, ExecPrompt
<1>3. QED BY <1>1, <1>2, UserSaysSafe

LEMMA EndsSafe ==
  ASSUME IInv, CodexEnd \/ CopilotEnd \/ Close
  PROVE  IInv'
<1>1. UNCHANGED <<agent, stepId>>
  BY DEF CodexEnd, CopilotEnd, Close, Read, file
<1>2. Flush BY DEF CodexEnd, CopilotEnd, Close
<1>3. QED BY <1>1, <1>2, FlushSafe

LEMMA CallsAndMessagesSafe ==
  ASSUME IInv, CodexMessage \/ CodexCall \/ CopilotMessage \/ ProbeCall
  PROVE  IInv'
<1>1. UNCHANGED <<agent, steps>> /\ Numbered /\ agent \notin {"claude", "copilot_db"}
  BY ReadKeepsAgent DEF CodexMessage, CodexCall, CopilotMessage, ProbeCall
<1>2. PICK text, calls : pending' = <<Grown(text, calls)>>
  BY DEF CodexMessage, CodexCall, CopilotMessage, ProbeCall
<1>3. HasId(Grown(text, calls), Len(steps) + 1) BY GrownIsNext
<1>4. QED BY <1>1, <1>2, <1>3, GoingOn

LEMMA ClaudeAssistantSafe ==
  ASSUME IInv, ClaudeAssistant
  PROVE  IInv'
<1> DEFINE grown == Grown(Entry.text, Entry.calls)
           step == Answered([grown EXCEPT !.used = Entry.used])
<1>1. UNCHANGED agent /\ agent = "claude" BY ReadKeepsAgent DEF ClaudeAssistant
<1>2. steps' = Append(steps, step) /\ Numbered /\ pending' = pending BY DEF ClaudeAssistant
<1>3. pending' = <<>> BY <1>1, <1>2 DEF IInv
<1>4. HasId(grown, Len(steps) + 1) BY GrownIsNext
<1> HIDE DEF grown
<1>5. HasId(step, Len(steps) + 1) BY <1>4 DEF Answered, HasId
<1> HIDE DEF step
<1>6. QED BY <1>1, <1>2, <1>3, <1>5, Ending

LEMMA HermesAssistantSafe ==
  ASSUME IInv, HermesAssistant
  PROVE  IInv'
<1> DEFINE step == Grown(Entry.text, Entry.calls)
<1>1. UNCHANGED agent /\ agent = "hermes" /\ Numbered BY ReadKeepsAgent DEF HermesAssistant
<1>2. HasId(step, Len(steps) + 1) BY GrownIsNext
<1>3. HasId(Answered(step), Len(steps) + 1) BY <1>2 DEF Answered, HasId
<1>4. \/ pending' = <<step>> /\ UNCHANGED steps
      \/ pending' = <<>> /\ steps' = Append(steps, Answered(step))
  BY DEF HermesAssistant
<1> HIDE DEF step
<1>5. CASE pending' = <<step>> /\ UNCHANGED steps BY <1>1, <1>2, <1>5, GoingOn
<1>6. CASE pending' = <<>> /\ steps' = Append(steps, Answered(step))
  BY <1>1, <1>3, <1>6, Ending
<1>7. QED BY <1>4, <1>5, <1>6

LEMMA ProbeAssistantSafe ==
  ASSUME IInv, ProbeAssistant
  PROVE  IInv'
<1> DEFINE step == [Growing EXCEPT !.words = Words(Entry.text)]
<1>1. UNCHANGED agent /\ Numbered /\ steps' = Append(steps, step) /\ pending' = <<>>
  BY ReadKeepsAgent DEF ProbeAssistant
<1>2. HasId(step, Len(steps) + 1) BY GrowingIsNext DEF HasId
<1> HIDE DEF step
<1>3. QED BY <1>1, <1>2, Ending

LEMMA FillingEntriesSafe ==
  ASSUME IInv, CodexUsage \/ ProbeResult \/ KnitTool
  PROVE  IInv'
<1>1. UNCHANGED <<agent, steps, stepId>>
  BY ReadKeepsAgent DEF CodexUsage, ProbeResult, KnitTool
<1>2. \/ pending' = [i \in DOMAIN pending |-> [pending[i] EXCEPT !.used = Entry.used]]
      \/ pending' = [i \in DOMAIN pending |-> [pending[i] EXCEPT !.results = Append(@, Entry.id)]]
  BY DEF CodexUsage, ProbeResult, KnitTool
<1>3. DOMAIN pending' = DOMAIN pending /\ pending' = [i \in DOMAIN pending |-> pending'[i]]
  BY <1>2
<1>4. ASSUME NEW i \in DOMAIN pending, HasId(pending[i], Len(steps) + 1)
      PROVE  HasId(pending'[i], Len(steps) + 1)
  <2>1. \/ pending'[i] = [pending[i] EXCEPT !.used = Entry.used]
        \/ pending'[i] = [pending[i] EXCEPT !.results = Append(@, Entry.id)]
    BY <1>2
  <2>2. QED BY <1>4, <2>1 DEF HasId
<1>5. QED BY <1>1, <1>3, <1>4, FillingIn

LEMMA ExecMessageSafe ==
  ASSUME IInv, ExecMessage
  PROVE  IInv'
<1>1. UNCHANGED <<agent, steps>> /\ agent = "exec" BY ReadKeepsAgent DEF ExecMessage
<1>2. HasId(Grown(Entry.text, <<>>), Len(steps) + 1) BY GrownIsNext
<1>3. CASE pending' = <<Grown(Entry.text, <<>>)>> /\ Numbered BY <1>1, <1>2, <1>3, GoingOn
<1>4. CASE UNCHANGED <<pending, stepId>>
  <2>1. UNCHANGED numbers BY <1>1, <1>4 DEF numbers
  <2>2. QED BY <2>1, SilentSafe
<1>5. QED BY <1>3, <1>4 DEF ExecMessage

LEMMA ExecCommandSafe ==
  ASSUME IInv, ExecCommand
  PROVE  IInv'
<1> DEFINE grown == Grown(Blank, Entry.calls)
           output == IF Entry.id = 0 THEN <<>> ELSE <<Entry.id>>
           step == [grown EXCEPT !.results = @ \o output]
<1>1. UNCHANGED <<agent, steps>> /\ agent = "exec" /\ Numbered /\ pending' = <<step>>
  BY ReadKeepsAgent DEF ExecCommand
<1>2. HasId(grown, Len(steps) + 1) BY GrownIsNext
<1> HIDE DEF grown, output
<1>3. HasId(step, Len(steps) + 1) BY <1>2 DEF HasId
<1> HIDE DEF step
<1>4. QED BY <1>1, <1>3, GoingOn

LEMMA ExecEndSafe ==
  ASSUME IInv, ExecEnd
  PROVE  IInv'
<1> DEFINE closed == [i \in DOMAIN pending |-> [pending[i] EXCEPT !.used = Entry.used]]
<1>1. UNCHANGED <<agent, stepId>> /\ steps' = steps \o closed /\ pending' = <<>>
  BY ReadKeepsAgent DEF ExecEnd
<1>2. ASSUME NEW i \in DOMAIN pending, HasId(pending[i], Len(steps) + 1)
      PROVE  HasId(closed[i], Len(steps) + 1)
  BY <1>2 DEF HasId
<1>3. DOMAIN closed = DOMAIN pending /\ closed = [i \in DOMAIN pending |-> closed[i]]
  OBVIOUS
<1> HIDE DEF closed
<1>4. Counted(steps') /\ Len(steps') = stepId BY <1>1, <1>2, <1>3, Closing
<1>5. Len(pending') = 0 BY <1>1, NoneIsCounted
<1>6. stepId' = Len(steps') + Len(pending') BY <1>1, <1>4, <1>5, CountedLength
<1>7. QED BY <1>1, <1>4, <1>6 DEF IInv

(* The task of a turn may become a step of the user's before the answer.      *)
LEMMA KnitAssistantSafe ==
  ASSUME IInv, KnitAssistant
  PROVE  IInv'
<1> DEFINE text == Unless(task, lastUser)
           shift == [n \in Nat |-> stepId + 1]
           id == stepId + Len(Words(text)) + 1
           step == [Step(id, "agent", Words(Entry.text)) EXCEPT !.calls = Entry.calls]
<1>1. UNCHANGED agent /\ agent = "agentknit" BY ReadKeepsAgent DEF KnitAssistant
<1>2. Counted(Closed) /\ Len(Closed) = stepId /\ stepId \in Nat
  BY ClosedIsCounted, CountedLength
<1>3. /\ steps' = Closed \o [i \in 1..Len(Words(text)) |-> Step(stepId + 1, "user", Words(text))]
      /\ pending' = <<step>> /\ stepId' = id
  BY DEF KnitAssistant
<1>4. shift \in [Nat -> Nat] /\ shift[1] = Len(Closed) + 1 BY <1>2
<1>5. steps' = Closed \o [i \in 1..Len(Words(text)) |-> Step(shift[i], "user", Words(text))]
  BY <1>3, WordsAre
<1>6. HasId(step, id)
  <2>1. HasId(Step(id, "agent", Words(Entry.text)), id) BY StepHasId
  <2>2. QED BY <2>1 DEF HasId
<1> HIDE DEF shift, step
<1>7. Counted(steps') /\ Len(steps') = stepId + Len(Words(text)) BY <1>2, <1>4, <1>5, Asking
<1>8. Len(pending') = 1 BY <1>3
<1>9. stepId' = Len(steps') + Len(pending') /\ id = Len(steps') + 1 BY <1>3, <1>7, <1>8
<1>10. QED BY <1>1, <1>3, <1>6, <1>7, <1>9 DEF IInv

(* A row of Copilot's database: what the user said, then the answer.          *)
LEMMA CopilotTurnSafe ==
  ASSUME IInv, CopilotTurn
  PROVE  IInv'
<1> DEFINE said == Words(Entry.text)
           answer == Words(Entry.reply)
           asked == steps \o [i \in 1..Len(said) |-> Step(stepId + 1, "user", said)]
           told == [i \in 1..Len(answer) |-> Step(stepId + Len(said) + 1, "agent", answer)]
           shift == [n \in Nat |-> stepId + 1]
<1>1. UNCHANGED <<agent, pending>> /\ agent = "copilot_db" BY ReadKeepsAgent DEF CopilotTurn
<1>2. steps' = asked \o told /\ stepId' = stepId + Len(said) + Len(answer) BY DEF CopilotTurn
<1>3. pending = <<>> /\ Len(pending) = 0 BY <1>1, NoneIsCounted DEF IInv
<1>4. Counted(steps) /\ stepId = Len(steps) /\ stepId \in Nat
  BY <1>3, CountedLength DEF IInv
<1>5. shift \in [Nat -> Nat] /\ shift[1] = Len(steps) + 1 BY <1>4
<1>6. asked = steps \o [i \in 1..Len(said) |-> Step(shift[i], "user", said)] BY WordsAre
<1> HIDE DEF shift, asked
<1>7. Counted(asked) /\ Len(asked) = stepId + Len(said) BY <1>4, <1>5, <1>6, Asking
<1>8. Counted(asked \o told) /\ Len(asked \o told) = stepId + Len(said) + Len(answer)
  <2>1. CASE answer = <<>>
    <3>1. told = <<>> /\ Len(answer) = 0 BY <2>1
    <3>2. asked \o told = asked BY <1>7, <3>1, NoMore
    <3>3. QED BY <1>7, <3>1, <3>2, CountedLength
  <2>2. CASE Len(answer) = 1
    <3>1. told = <<Step(stepId + Len(said) + 1, "agent", answer)>> BY <2>2
    <3>2. HasId(Step(stepId + Len(said) + 1, "agent", answer), Len(asked) + 1)
      BY <1>7, StepHasId
    <3> HIDE DEF told
    <3>3. Counted(asked \o told) /\ Len(asked \o told) = Len(asked) + 1
      BY <1>7, <3>1, <3>2, OneMore
    <3>4. QED BY <1>7, <2>2, <3>3
  <2>3. QED BY <2>1, <2>2, WordsAre
<1> HIDE DEF told
<1>9. Len(pending') = 0 /\ pending' = <<>> BY <1>1, <1>3
<1>10. stepId' = Len(steps') + Len(pending') BY <1>2, <1>8, <1>9, CountedLength
<1>11. QED BY <1>1, <1>2, <1>8, <1>9, <1>10 DEF IInv

LEMMA NextSafe == IInv /\ [Next]_vars => IInv'
BY FileSafe, ResumeSafe, SilentEntriesSafe, UserEntriesSafe, EndsSafe, CallsAndMessagesSafe,
   ClaudeAssistantSafe, HermesAssistantSafe, ProbeAssistantSafe, FillingEntriesSafe,
   ExecMessageSafe, ExecCommandSafe, ExecEndSafe, KnitAssistantSafe, CopilotTurnSafe
DEF Next

(* Closed or in the making, the steps are numbered as they are shown.         *)
LEMMA ShownNumbered == IInv => StepsNumbered
<1>1. HAVE IInv
<1>2. pending = [i \in DOMAIN pending |-> pending[i]]
  <2>1. CASE pending = <<>> BY <2>1
  <2>2. CASE \E step : pending = <<step>>
    <3>1. PICK step : pending = <<step>> BY <2>2
    <3>2. QED BY <3>1
  <2>3. QED BY <1>1, <2>1, <2>2 DEF IInv
<1>3. Counted(Shown) /\ Len(Shown) = stepId BY <1>1, <1>2, Closing DEF Shown
<1>4. QED BY <1>3 DEF StepsNumbered, Counted, HasId

(* The steps of a trajectory are numbered 1, 2, 3... in the order they are    *)
(* shown, whatever the agent wrote and however its last line ends.            *)
THEOREM StepsAreNumbered == Spec => []StepsNumbered
<1>1. Init => IInv BY InitSafe
<1>2. IInv /\ [Next]_vars => IInv' BY NextSafe
<1>3. IInv => StepsNumbered BY ShownNumbered
<1>4. QED BY <1>1, <1>2, <1>3, PTL DEF Spec

-----------------------------------------------------------------------------
(* Recursion on a number: there is a function, and only numbers matter.       *)

(* A set that has 0, and with each number the next, has every number.         *)
LEMMA EveryNumber ==
  ASSUME NEW S, 0 \in S, \A k \in Nat : k \in S => k + 1 \in S
  PROVE  Nat \subseteq S
<1> DEFINE missing == Nat \ S
           less == {pair \in Nat \X Nat : pair[1] < pair[2]}
<1>1. SUFFICES ASSUME missing # {} PROVE FALSE
  OBVIOUS
<1>2. IsWellFoundedOn(less, Nat) BY NatLessThanWellFounded DEF OpToRel
<1>3. PICK m \in missing : \A k \in missing : ~(<<k, m>> \in less)
  <2>1. missing \subseteq Nat OBVIOUS
  <2> HIDE DEF less, missing
  <2>2. QED BY <1>1, <1>2, <2>1, WFMin
<1>4. m \in Nat /\ m # 0 /\ m \notin S OBVIOUS
<1>5. m - 1 \in Nat /\ m - 1 < m /\ (m - 1) + 1 = m BY <1>4
<1>6. m - 1 \notin S BY <1>4, <1>5
<1>7. <<m - 1, m>> \in less BY <1>4, <1>5
<1>8. m - 1 \in missing BY <1>5, <1>6
<1> HIDE DEF less, missing
<1>9. QED BY <1>3, <1>7, <1>8

Maps(g, n, D) == \A k \in 1..n : g[k] \in [D -> D]
Follows(f, z, g, n) == \A k \in 0..n : f[k] = IF k = 0 THEN z ELSE g[k][f[k - 1]]

LEMMA RecursionExists ==
  ASSUME NEW n \in Nat, NEW D, NEW z \in D, NEW g, Maps(g, n, D)
  PROVE  \E f \in [0..n -> D] : Follows(f, z, g, n)
<1> DEFINE Is(f, m) == f \in [0..m -> D]
                       /\ \A k \in 0..m : f[k] = IF k = 0 THEN z ELSE g[k][f[k - 1]]
           S == {m \in Nat : m <= n => \E f : Is(f, m)}
<1>1. 0 \in S
  <2>1. Is([k \in {0} |-> z], 0)
    <3>1. 0..0 = {0} OBVIOUS
    <3>2. QED BY <3>1
  <2>2. QED BY <2>1
<1>2. ASSUME NEW m \in Nat, m \in S PROVE m + 1 \in S
  <2>1. SUFFICES ASSUME m + 1 <= n PROVE \E f : Is(f, m + 1)
    OBVIOUS
  <2>2. PICK f : Is(f, m)
    <3>1. m <= n BY <2>1
    <3>2. QED BY <1>2, <3>1
  <2> DEFINE h == [k \in 0..m + 1 |-> IF k <= m THEN f[k] ELSE g[m + 1][f[m]]]
  <2>3. g[m + 1] \in [D -> D] /\ f[m] \in D
    <3>1. m + 1 \in 1..n /\ m \in 0..m BY <2>1
    <3>2. QED BY <2>2, <3>1 DEF Maps
  <2>4. g[m + 1][f[m]] \in D BY <2>3
  <2>5. h \in [0..m + 1 -> D]
    <3>1. \A k \in 0..m + 1 : h[k] \in D
      <4>1. SUFFICES ASSUME NEW k \in 0..m + 1 PROVE h[k] \in D
        OBVIOUS
      <4>2. CASE k <= m
        <5>1. k \in 0..m BY <4>2
        <5>2. QED BY <2>2, <4>2, <5>1
      <4>3. CASE ~(k <= m) BY <2>4, <4>3
      <4>4. QED BY <4>2, <4>3
    <3>2. QED BY <3>1
  <2>6. ASSUME NEW k \in 0..m + 1 PROVE h[k] = IF k = 0 THEN z ELSE g[k][h[k - 1]]
    <3>1. CASE k = 0
      <4>1. h[k] = f[0] /\ 0 \in 0..m BY <3>1
      <4>2. QED BY <2>2, <3>1, <4>1
    <3>2. CASE k \in 1..m
      <4>1. h[k] = f[k] /\ k \in 0..m /\ k # 0 BY <3>2
      <4>2. k - 1 \in 0..m + 1 /\ k - 1 <= m BY <3>2
      <4>3. h[k - 1] = f[k - 1] BY <4>2
      <4>4. QED BY <2>2, <4>1, <4>3
    <3>3. CASE k = m + 1
      <4>1. k - 1 = m /\ m \in 0..m + 1 /\ k # 0 /\ ~(k <= m) BY <3>3
      <4>2. h[k - 1] = f[m] BY <4>1
      <4>3. h[k] = g[k][f[m]] BY <3>3, <4>1
      <4>4. QED BY <4>1, <4>2, <4>3
    <3>4. QED BY <3>1, <3>2, <3>3
  <2> HIDE DEF h
  <2>7. QED BY <2>5, <2>6
<1> HIDE DEF S
<1>3. n \in S BY <1>1, <1>2, EveryNumber
<1>4. PICK f : Is(f, n) BY <1>3 DEF S
<1>5. QED BY <1>4 DEF Follows

(* The elements of s that are in S.                                           *)
ChosenTo(f, s, S, n) ==
  \A i \in 0..n : f[i] = IF i = 0 THEN <<>>
                         ELSE IF s[i] \in S THEN Append(f[i - 1], s[i]) ELSE f[i - 1]

LEMMA ChosenIs ==
  ASSUME NEW T, NEW s \in Seq(T), NEW S
  PROVE  \E f \in [0..Len(s) -> Seq(T)] : ChosenTo(f, s, S, Len(s)) /\ Chosen(s, S) = f[Len(s)]
<1> DEFINE D == Seq(T)
           g == [k \in 1..Len(s) |-> [x \in D |-> IF s[k] \in S THEN Append(x, s[k]) ELSE x]]
           Rec(f) == f = [i \in 0..Len(s) |->
                       IF i = 0 THEN <<>>
                       ELSE IF s[i] \in S THEN Append(f[i - 1], s[i]) ELSE f[i - 1]]
<1>1. \A k \in 1..Len(s) : g[k] \in [D -> D]
  <2>1. SUFFICES ASSUME NEW k \in 1..Len(s), NEW x \in Seq(T)
                 PROVE  (IF s[k] \in S THEN Append(x, s[k]) ELSE x) \in Seq(T)
    OBVIOUS
  <2>2. s[k] \in T OBVIOUS
  <2>3. QED BY <2>2
<1>2. <<>> \in D /\ Len(s) \in Nat OBVIOUS
<1>3. PICK f \in [0..Len(s) -> D] : Follows(f, <<>>, g, Len(s))
  <2>1. Maps(g, Len(s), D) BY <1>1 DEF Maps
  <2> HIDE DEF D, g
  <2>2. QED BY <1>2, <2>1, RecursionExists
<1>4. ASSUME NEW i \in 0..Len(s)
      PROVE  f[i] = IF i = 0 THEN <<>>
                    ELSE IF s[i] \in S THEN Append(f[i - 1], s[i]) ELSE f[i - 1]
  <2>1. CASE i = 0 BY <1>3, <2>1 DEF Follows
  <2>2. CASE i # 0
    <3>1. i \in 1..Len(s) /\ i - 1 \in 0..Len(s) BY <2>2
    <3>2. f[i] = g[i][f[i - 1]] BY <1>3, <2>2 DEF Follows
    <3>3. f[i - 1] \in D BY <1>3, <3>1
    <3>4. QED BY <2>2, <3>1, <3>2, <3>3
  <2>3. QED BY <2>1, <2>2
<1> HIDE DEF g
<1>5. Rec(f) BY <1>3, <1>4
<1>6. Chosen(s, S) = (CHOOSE c : Rec(c))[Len(s)] BY DEF Chosen
<1>7. Rec(CHOOSE c : Rec(c)) BY <1>5
<1>8. ASSUME NEW c, Rec(c) PROVE c \in [0..Len(s) -> D] /\ ChosenTo(c, s, S, Len(s))
  <2>1. ChosenTo(c, s, S, Len(s)) BY <1>8 DEF ChosenTo
  <2> DEFINE N == {k \in Nat : k <= Len(s) => c[k] \in D}
  <2>2. 0 \in N BY <1>8
  <2>3. ASSUME NEW k \in Nat, k \in N PROVE k + 1 \in N
    <3>1. SUFFICES ASSUME k + 1 <= Len(s) PROVE c[k + 1] \in D
      OBVIOUS
    <3>2. c[k] \in D BY <1>2, <2>3, <3>1
    <3>3. k + 1 \in 0..Len(s) /\ k + 1 # 0 /\ (k + 1) - 1 = k /\ s[k + 1] \in T BY <3>1
    <3>4. c[k + 1] = IF s[k + 1] \in S THEN Append(c[k], s[k + 1]) ELSE c[k]
      BY <2>1, <3>3 DEF ChosenTo
    <3>5. QED BY <3>2, <3>3, <3>4
  <2> HIDE DEF N
  <2>4. Nat \subseteq N BY <2>2, <2>3, EveryNumber
  <2>5. \A k \in 0..Len(s) : c[k] \in D BY <2>4 DEF N
  <2>6. DOMAIN c = 0..Len(s) /\ c = [k \in DOMAIN c |-> c[k]] BY <1>8
  <2>7. QED BY <2>1, <2>5, <2>6
<1> HIDE DEF Rec
<1>9. QED BY <1>6, <1>7, <1>8

LEMMA ChosenFacts ==
  ASSUME NEW T, NEW s \in Seq(T), NEW S
  PROVE  Chosen(s, S) \in Seq(T) /\ ToSet(Chosen(s, S)) = ToSet(s) \cap S
<1>1. PICK f \in [0..Len(s) -> Seq(T)] :
        ChosenTo(f, s, S, Len(s)) /\ Chosen(s, S) = f[Len(s)]
  BY ChosenIs
<1>2. Len(s) \in Nat /\ Len(s) \in 0..Len(s) OBVIOUS
<1> DEFINE N == {k \in Nat : k <= Len(s) => ToSet(f[k]) = {s[i] : i \in 1..k} \cap S}
<1>3. 0 \in N
  <2>1. f[0] = <<>> BY <1>1, <1>2 DEF ChosenTo
  <2>2. QED BY <2>1 DEF ToSet
<1>4. ASSUME NEW k \in Nat, k \in N PROVE k + 1 \in N
  <2>1. SUFFICES ASSUME k + 1 <= Len(s)
                 PROVE  ToSet(f[k + 1]) = {s[i] : i \in 1..k + 1} \cap S
    OBVIOUS
  <2>2. k <= Len(s) /\ k \in 0..Len(s) /\ k + 1 \in 0..Len(s) /\ k + 1 # 0 /\ (k + 1) - 1 = k
    BY <1>2, <2>1
  <2>3. ToSet(f[k]) = {s[i] : i \in 1..k} \cap S BY <1>4, <2>2
  <2>4. f[k + 1] = IF s[k + 1] \in S THEN Append(f[k], s[k + 1]) ELSE f[k]
    BY <1>1, <2>2 DEF ChosenTo
  <2>5. {s[i] : i \in 1..k + 1} = {s[i] : i \in 1..k} \cup {s[k + 1]}
    <3>1. 1..k + 1 = (1..k) \cup {k + 1} OBVIOUS
    <3>2. QED BY <3>1
  <2>6. CASE s[k + 1] \in S
    <3>1. PICK x \in Seq(T) : x = f[k] BY <2>2
    <3>2. s[k + 1] \in T BY <2>1
    <3>3. /\ Append(x, s[k + 1]) \in Seq(T) /\ Len(Append(x, s[k + 1])) = Len(x) + 1
          /\ \A i \in 1..Len(x) : Append(x, s[k + 1])[i] = x[i]
          /\ Append(x, s[k + 1])[Len(x) + 1] = s[k + 1]
      BY <3>2, AppendProperties
    <3>4. DOMAIN Append(x, s[k + 1]) = (1..Len(x)) \cup {Len(x) + 1} /\ DOMAIN x = 1..Len(x)
      BY <3>3
    <3>5. ToSet(Append(x, s[k + 1])) = ToSet(x) \cup {s[k + 1]} BY <3>3, <3>4 DEF ToSet
    <3>6. QED BY <2>3, <2>4, <2>5, <2>6, <3>1, <3>5
  <2>7. CASE s[k + 1] \notin S BY <2>3, <2>4, <2>5, <2>7
  <2>8. QED BY <2>6, <2>7
<1> HIDE DEF N
<1>5. Len(s) \in N BY <1>2, <1>3, <1>4, EveryNumber
<1>6. ToSet(f[Len(s)]) = {s[i] : i \in 1..Len(s)} \cap S BY <1>2, <1>5 DEF N
<1>7. ToSet(s) = {s[i] : i \in 1..Len(s)} BY DEF ToSet
<1>8. QED BY <1>1, <1>2, <1>6, <1>7

-----------------------------------------------------------------------------
(* Sums, and sequences one after the other *)

AddedTo(f, s, n) == \A i \in 0..n : f[i] = IF i = 0 THEN 0 ELSE f[i - 1] + s[i]

LEMMA AddedIs ==
  ASSUME NEW s \in Seq(Nat)
  PROVE  \E f \in [0..Len(s) -> Nat] : AddedTo(f, s, Len(s)) /\ Added(s) = f[Len(s)]
<1> DEFINE g == [k \in 1..Len(s) |-> [x \in Nat |-> x + s[k]]]
           Rec(f) == f = [i \in 0..Len(s) |-> IF i = 0 THEN 0 ELSE f[i - 1] + s[i]]
<1>1. \A k \in 1..Len(s) : s[k] \in Nat OBVIOUS
<1>2. \A k \in 1..Len(s) : g[k] \in [Nat -> Nat] BY <1>1
<1>3. Len(s) \in Nat OBVIOUS
<1>4. PICK f \in [0..Len(s) -> Nat] : Follows(f, 0, g, Len(s))
  <2>1. Maps(g, Len(s), Nat) BY <1>2 DEF Maps
  <2> HIDE DEF g
  <2>2. QED BY <1>3, <2>1, RecursionExists
<1>5. ASSUME NEW i \in 0..Len(s)
      PROVE  f[i] = IF i = 0 THEN 0 ELSE f[i - 1] + s[i]
  <2>1. CASE i = 0 BY <1>4, <2>1 DEF Follows
  <2>2. CASE i # 0
    <3>1. i \in 1..Len(s) /\ i - 1 \in 0..Len(s) BY <2>2
    <3>2. f[i] = g[i][f[i - 1]] BY <1>4, <2>2 DEF Follows
    <3>3. f[i - 1] \in Nat BY <1>4, <3>1
    <3>4. QED BY <2>2, <3>1, <3>2, <3>3
  <2>3. QED BY <2>1, <2>2
<1> HIDE DEF g
<1>6. Rec(f) BY <1>4, <1>5
<1>7. Added(s) = (CHOOSE c : Rec(c))[Len(s)] BY DEF Added
<1>8. Rec(CHOOSE c : Rec(c)) BY <1>6
<1>9. ASSUME NEW c, Rec(c) PROVE c \in [0..Len(s) -> Nat] /\ AddedTo(c, s, Len(s))
  <2>1. AddedTo(c, s, Len(s)) BY <1>9 DEF AddedTo
  <2> DEFINE N == {k \in Nat : k <= Len(s) => c[k] \in Nat}
  <2>2. 0 \in N BY <1>9
  <2>3. ASSUME NEW k \in Nat, k \in N PROVE k + 1 \in N
    <3>1. SUFFICES ASSUME k + 1 <= Len(s) PROVE c[k + 1] \in Nat
      OBVIOUS
    <3>2. c[k] \in Nat BY <1>3, <2>3, <3>1
    <3>3. k + 1 \in 0..Len(s) /\ k + 1 # 0 /\ (k + 1) - 1 = k /\ k + 1 \in 1..Len(s) BY <3>1
    <3>4. c[k + 1] = c[k] + s[k + 1] BY <2>1, <3>3 DEF AddedTo
    <3>5. s[k + 1] \in Nat BY <1>1, <3>3
    <3>6. QED BY <3>2, <3>4, <3>5
  <2> HIDE DEF N
  <2>4. Nat \subseteq N BY <2>2, <2>3, EveryNumber
  <2>5. \A k \in 0..Len(s) : c[k] \in Nat BY <2>4 DEF N
  <2>6. DOMAIN c = 0..Len(s) /\ c = [k \in DOMAIN c |-> c[k]] BY <1>9
  <2>7. QED BY <2>1, <2>5, <2>6
<1> HIDE DEF Rec
<1>10. QED BY <1>7, <1>8, <1>9

LEMMA EstimateIsNat ==
  ASSUME NEW t \in Seq(Steps)
  PROVE  Estimate(t) \in Nat
<1> DEFINE weights == [i \in DOMAIN t |-> Weight(t[i])]
<1>1. ASSUME NEW i \in DOMAIN t PROVE Weight(t[i]) \in Nat
  <2>1. t[i] \in Steps OBVIOUS
  <2>2. /\ t[i].words \in Seq(Texts \cup Replies) /\ t[i].calls \in Seq(Calls)
        /\ t[i].results \in Seq(Calls)
    BY <2>1 DEF Steps
  <2> HIDE DEF weights
  <2>3. Len(t[i].words) \in Nat /\ Len(t[i].calls) \in Nat /\ Len(t[i].results) \in Nat
    BY <2>2
  <2>4. PICK a \in Nat, b \in Nat, c \in Nat :
          a = Len(t[i].words) /\ b = Len(t[i].calls) /\ c = Len(t[i].results)
    BY <2>3
  <2>5. Weight(t[i]) = a + b + c BY <2>4 DEF Weight
  <2>6. QED BY <2>5
<1>2. weights \in Seq(Nat)
  <2>1. DOMAIN t = 1..Len(t) /\ Len(t) \in Nat OBVIOUS
  <2>2. QED BY <1>1, <2>1
<1> HIDE DEF weights
<1>3. PICK f \in [0..Len(weights) -> Nat] : Added(weights) = f[Len(weights)] BY <1>2, AddedIs
<1>4. Len(weights) \in 0..Len(weights) BY <1>2
<1>5. Added(weights) \in Nat BY <1>3, <1>4
<1>6. QED BY <1>5 DEF Estimate, weights

-----------------------------------------------------------------------------
(* What a step that goes on shows of what it was *)

Begins(s, t) ==
  /\ Len(s) <= Len(t)
  /\ \A i \in 1..Len(s) : t[i] = s[i]

LEMMA BeginsIsPrefix ==
  ASSUME NEW T, NEW s \in Seq(T), NEW t \in Seq(T), Begins(s, t)
  PROVE  IsPrefix(s, t)
<1>1. Len(s) \in Nat /\ Len(t) \in Nat /\ Len(s) <= Len(t) /\ \A i \in 1..Len(s) : t[i] = s[i]
  BY DEF Begins
<1>2. \A i \in 1..Len(s) : s[i] \in T /\ t[i] \in T BY <1>1
<1>3. /\ SubSeq(s, 1, Len(s)) \in Seq(T) /\ SubSeq(t, 1, Len(s)) \in Seq(T)
      /\ Len(SubSeq(s, 1, Len(s))) = Len(s) /\ Len(SubSeq(t, 1, Len(s))) = Len(s)
      /\ \A i \in 1..Len(s) : SubSeq(s, 1, Len(s))[i] = s[i] /\ SubSeq(t, 1, Len(s))[i] = t[i]
  BY <1>1, <1>2
<1>4. SubSeq(s, 1, Len(s)) = SubSeq(t, 1, Len(s))
  <2> DEFINE a == SubSeq(s, 1, Len(s))
             b == SubSeq(t, 1, Len(s))
  <2>1. a \in Seq(T) /\ b \in Seq(T) /\ Len(a) = Len(b) /\ \A i \in 1..Len(a) : a[i] = b[i]
    BY <1>1, <1>3
  <2> HIDE DEF a, b
  <2>2. a = b BY <2>1, SeqEqual
  <2>3. QED BY <2>2 DEF a, b
<1>5. QED BY <1>1, <1>4 DEF IsPrefix

LEMMA GoesOn ==
  ASSUME NEW T, NEW s \in Seq(T), NEW u \in Seq(T)
  PROVE  IsPrefix(s, s \o u) /\ s \o u \in Seq(T)
<1>1. /\ s \o u \in Seq(T) /\ Len(s \o u) = Len(s) + Len(u) /\ Len(s) \in Nat /\ Len(u) \in Nat
      /\ \A i \in 1..Len(s) : (s \o u)[i] = s[i]
  BY ConcatProperties
<1>2. Begins(s, s \o u) BY <1>1 DEF Begins
<1>3. QED BY <1>1, <1>2, BeginsIsPrefix

LEMMA StaysPrefix ==
  ASSUME NEW T, NEW s \in Seq(T)
  PROVE  IsPrefix(s, s) /\ IsPrefix(<<>>, s)
<1>1. <<>> \in Seq(T) OBVIOUS
<1>2. s \o <<>> = s OBVIOUS
<1>3. <<>> \o s = s OBVIOUS
<1>4. IsPrefix(s, s \o <<>>) /\ IsPrefix(<<>>, <<>> \o s) BY <1>1, GoesOn
<1>5. QED BY <1>2, <1>3, <1>4, Zenon

LEMMA OneMoreIsPrefix ==
  ASSUME NEW T, NEW s \in Seq(T), NEW x \in T
  PROVE  IsPrefix(s, Append(s, x))
<1>1. Append(s, x) = s \o <<x>> /\ <<x>> \in Seq(T) OBVIOUS
<1>2. IsPrefix(s, s \o <<x>>) BY <1>1, GoesOn
<1>3. QED BY <1>1, <1>2, Zenon

Continues(new, old) ==
  /\ new.id = old.id /\ new.source = old.source
  /\ IsPrefix(old.words, new.words) /\ IsPrefix(old.calls, new.calls)
  /\ IsPrefix(old.results, new.results)

LEMMA ExtendsItself ==
  ASSUME NEW step \in Steps
  PROVE  Continues(step, step)
<1>1. /\ step.words \in Seq(Texts \cup Replies) /\ step.calls \in Seq(Calls)
      /\ step.results \in Seq(Calls)
  BY DEF Steps
<1>2. /\ IsPrefix(step.words, step.words) /\ IsPrefix(step.calls, step.calls)
      /\ IsPrefix(step.results, step.results)
  BY <1>1, StaysPrefix
<1>3. QED BY <1>2 DEF Continues

-----------------------------------------------------------------------------
(* Types, by part: the file and where the parser is in it, the steps, and     *)
(* what is counted and remembered.  A step in the making has no results yet,  *)
(* unless results are read as they come, and nothing in agent_probe's format  *)
(* puts words in one.                                                         *)

LogLines(format) ==
  {e \in [kind : Kinds[format] \cup {"torn"}, text : Says \cup Replies, reply : Answers,
          calls : Seq(Calls), id : 0..MaxCalls, used : 0..1] :
     /\ e.kind = "result" => e.id \in Calls
     /\ e.kind # "assistant" => e.text \in Says}

FileTyped ==
  /\ agent \in Agents /\ torn \in BOOLEAN /\ log \in Seq(LogLines(agent))
  /\ made \in 0..MaxCalls /\ unanswered \subseteq Calls /\ spent \in Nat
  /\ phase \in {"writing", "reading", "done"}
  /\ pos \in 1..Len(log) + 1 /\ (phase = "writing" => pos = 1)
  /\ results \subseteq Calls

Makes(format, step) ==
  /\ step \in Steps
  /\ format \notin Collecting => step.results = <<>>
  /\ format = "agent_probe" => step.words = <<>>

StepsTyped ==
  /\ steps \in Seq(Steps)
  /\ pending = <<>> \/ \E step \in Steps : pending = <<step>> /\ Makes(agent, step)
  /\ phase = "done" => pending = <<>>

CountersTyped ==
  /\ toolCalls \in Nat /\ prompt \in Nat /\ total \in Nat /\ sawUsage \in BOOLEAN
  /\ task \in Says /\ lastUser \in Says

TInv == FileTyped /\ StepsTyped /\ CountersTyped

(* What a step may do to what is shown: the step in the making goes on, and   *)
(* others follow.                                                             *)
Advances ==
  \/ pending = <<>> /\ \E more \in Seq(Steps) : Shown' = steps \o more
  \/ \E old, new \in Steps, more \in Seq(Steps) :
       pending = <<old>> /\ Continues(new, old) /\ Shown' = Append(steps, new) \o more

LEMMA StepIdIsNat ==
  ASSUME IInv
  PROVE  stepId \in Nat
<1>1. Len(steps) \in Nat BY CountedLength DEF IInv
<1>2. Len(pending) \in {0, 1} BY NoneIsCounted DEF IInv
<1>3. QED BY <1>1, <1>2 DEF IInv

LEMMA AnsweredTyped ==
  ASSUME FileTyped, NEW step \in Steps
  PROVE  /\ Answered(step) \in Steps
         /\ Answered(step) = [step EXCEPT !.results = Answered(step).results]
<1>1. step.calls \in Seq(Calls) BY DEF Steps
<1>2. Chosen(step.calls, results) \in Seq(Calls) BY <1>1, ChosenFacts
<1>3. QED BY <1>2 DEF Answered, Steps

(* A step is closed with what it has, and with its results.                   *)
LEMMA AnsweredExtends ==
  ASSUME FileTyped, NEW step \in Steps, step.results = <<>>
  PROVE  Continues(Answered(step), step)
<1>1. Answered(step) \in Steps BY AnsweredTyped
<1>2. /\ Answered(step).id = step.id /\ Answered(step).source = step.source
      /\ Answered(step).words = step.words /\ Answered(step).calls = step.calls
  BY DEF Answered, Steps
<1>3. /\ step.words \in Seq(Texts \cup Replies) /\ step.calls \in Seq(Calls)
      /\ Answered(step).results \in Seq(Calls)
  BY <1>1 DEF Steps
<1>4. /\ IsPrefix(step.words, step.words) /\ IsPrefix(step.calls, step.calls)
      /\ IsPrefix(<<>>, Answered(step).results)
  BY <1>3, StaysPrefix
<1>5. QED BY <1>2, <1>4 DEF Continues

LEMMA ClosedIs ==
  ASSUME FileTyped, StepsTyped
  PROVE  /\ Closed \in Seq(Steps)
         /\ \/ pending = <<>> /\ Closed = steps
            \/ \E old, new \in Steps :
                 pending = <<old>> /\ Continues(new, old) /\ Closed = Append(steps, new)
<1> DEFINE Shut(step) == IF agent \in Collecting THEN step ELSE Answered(step)
           shut == [i \in DOMAIN pending |-> Shut(pending[i])]
<1>1. Closed = steps \o shut BY DEF Closed
<1>2. CASE pending = <<>>
  <2>1. shut = <<>> BY <1>2
  <2>2. QED BY <1>1, <1>2, <2>1 DEF StepsTyped
<1>3. ASSUME NEW step \in Steps, pending = <<step>>, Makes(agent, step)
      PROVE  \E new \in Steps : Continues(new, step) /\ Closed = Append(steps, new)
  <2>1. shut = <<Shut(step)>> BY <1>3
  <2>2. Shut(step) \in Steps /\ Continues(Shut(step), step)
    BY <1>3, AnsweredTyped, AnsweredExtends, ExtendsItself DEF Makes
  <2> HIDE DEF shut, Shut
  <2>3. steps \o <<Shut(step)>> = Append(steps, Shut(step)) BY <2>2 DEF StepsTyped
  <2>4. QED BY <1>1, <2>1, <2>2, <2>3
<1>4. \/ pending = <<>> /\ Closed = steps
      \/ \E old, new \in Steps :
           pending = <<old>> /\ Continues(new, old) /\ Closed = Append(steps, new)
  BY <1>2, <1>3 DEF StepsTyped
<1>5. QED BY <1>2, <1>4 DEF StepsTyped

(* Steps after those that were closed.                                        *)
LEMMA Onward ==
  ASSUME FileTyped, StepsTyped, NEW more \in Seq(Steps), Shown' = Closed \o more
  PROVE  Advances
BY ClosedIs DEF Advances

LEMMA Still ==
  ASSUME StepsTyped, UNCHANGED <<steps, pending>>
  PROVE  Advances
<1>1. CASE pending = <<>>
  <2>1. Shown' = steps \o <<>> /\ <<>> \in Seq(Steps) BY <1>1 DEF Shown
  <2>2. QED BY <1>1, <2>1 DEF Advances
<1>2. ASSUME NEW step \in Steps, pending = <<step>>
      PROVE  Advances
  <2>1. Shown' = steps \o <<step>> BY <1>2 DEF Shown
  <2>2. steps \o <<step>> = Append(steps, step) \o <<>> /\ <<>> \in Seq(Steps)
    BY DEF StepsTyped
  <2>3. QED BY <1>2, <2>1, <2>2, ExtendsItself DEF Advances
<1>3. QED BY <1>1, <1>2 DEF StepsTyped

-----------------------------------------------------------------------------
(* What an entry can do to the steps, with their types *)

LEMMA WordsTyped ==
  ASSUME NEW text \in Says \cup Replies
  PROVE  Words(text) \in Seq(Texts \cup Replies) /\ (text = Blank => Words(text) = <<>>)
<1>1. CASE text = Blank BY <1>1 DEF Words
<1>2. CASE text # Blank
  <2>1. text \in Texts \cup Replies /\ Words(text) = <<text>> BY <1>2 DEF Words, Says
  <2>2. QED BY <1>2, <2>1
<1>3. QED BY <1>1, <1>2

LEMMA StepTyped ==
  ASSUME NEW id \in Nat, NEW source \in {"user", "agent"}, NEW words \in Seq(Texts \cup Replies)
  PROVE  /\ Step(id, source, words) \in Steps
         /\ Step(id, source, words).words = words /\ Step(id, source, words).results = <<>>
<1>1. <<>> \in Seq(Calls) OBVIOUS
<1>2. QED BY <1>1 DEF Step, Steps

LEMMA SaidTyped ==
  ASSUME NEW text \in Says \cup Replies, NEW source \in {"user", "agent"},
         NEW number \in [Nat -> Nat]
  PROVE  [i \in 1..Len(Words(text)) |-> Step(number[i], source, Words(text))] \in Seq(Steps)
<1> DEFINE said == [i \in 1..Len(Words(text)) |-> Step(number[i], source, Words(text))]
<1>1. Words(text) \in Seq(Texts \cup Replies) /\ Len(Words(text)) \in Nat BY WordsTyped
<1>2. ASSUME NEW i \in 1..Len(Words(text))
      PROVE  Step(number[i], source, Words(text)) \in Steps
  <2>1. number[i] \in Nat BY <1>1
  <2>2. QED BY <1>1, <2>1, StepTyped
<1>3. QED BY <1>1, <1>2

LEMMA GrowingTyped ==
  ASSUME FileTyped, StepsTyped, IInv
  PROVE  Makes(agent, Growing) /\ (pending = <<>> \/ pending = <<Growing>>)
<1>1. CASE pending = <<>>
  <2>1. Growing = Step(stepId + 1, "agent", <<>>) BY <1>1 DEF Growing
  <2>2. stepId + 1 \in Nat /\ <<>> \in Seq(Texts \cup Replies) BY StepIdIsNat
  <2>3. QED BY <1>1, <2>1, <2>2, StepTyped DEF Makes
<1>2. ASSUME NEW step \in Steps, pending = <<step>>, Makes(agent, step)
      PROVE  Makes(agent, Growing) /\ pending = <<Growing>>
  <2>1. Growing = step BY <1>2 DEF Growing
  <2>2. QED BY <1>2, <2>1
<1>3. QED BY <1>1, <1>2 DEF StepsTyped

LEMMA FilledIn ==
  ASSUME NEW step \in Steps, NEW words, NEW calls
  PROVE  [step EXCEPT !.words = words, !.calls = calls] =
           [id |-> step.id, source |-> step.source, words |-> words, calls |-> calls,
            results |-> step.results, used |-> step.used]
<1> DEFINE said == [step EXCEPT !.words = words]
<1>1. said = [id |-> step.id, source |-> step.source, words |-> words, calls |-> step.calls,
              results |-> step.results, used |-> step.used]
  BY DEF Steps
<1>2. [step EXCEPT !.words = words, !.calls = calls] = [said EXCEPT !.calls = calls]
  BY Zenon
<1> HIDE DEF said
<1>3. [said EXCEPT !.calls = calls] =
        [id |-> step.id, source |-> step.source, words |-> words, calls |-> calls,
         results |-> step.results, used |-> step.used]
  BY <1>1
<1>4. QED BY <1>2, <1>3

LEMMA GrownTyped ==
  ASSUME FileTyped, StepsTyped, IInv, NEW text \in Says \cup Replies, NEW calls \in Seq(Calls)
  PROVE  /\ Grown(text, calls) \in Steps /\ Continues(Grown(text, calls), Growing)
         /\ Grown(text, calls).results = Growing.results
         /\ text = Blank => Grown(text, calls).words = Growing.words
<1>1. Growing \in Steps BY GrowingTyped DEF Makes
<1>2. /\ Growing.words \in Seq(Texts \cup Replies) /\ Growing.calls \in Seq(Calls)
      /\ Growing.results \in Seq(Calls)
  BY <1>1 DEF Steps
<1>3. Words(text) \in Seq(Texts \cup Replies) /\ (text = Blank => Words(text) = <<>>)
  BY WordsTyped
<1>4. /\ Growing.words \o Words(text) \in Seq(Texts \cup Replies)
      /\ Growing.calls \o calls \in Seq(Calls)
      /\ IsPrefix(Growing.words, Growing.words \o Words(text))
      /\ IsPrefix(Growing.calls, Growing.calls \o calls)
      /\ IsPrefix(Growing.results, Growing.results)
  BY <1>2, <1>3, GoesOn, StaysPrefix
<1>5. text = Blank => Growing.words \o Words(text) = Growing.words BY <1>2, <1>3
<1>6. Grown(text, calls) = [id |-> Growing.id, source |-> Growing.source,
                            words |-> Growing.words \o Words(text),
                            calls |-> Growing.calls \o calls, results |-> Growing.results,
                            used |-> Growing.used]
  BY <1>1, FilledIn DEF Grown
<1> DEFINE grown == Grown(text, calls)
<1> HIDE DEF grown
<1>7. /\ grown.id = Growing.id /\ grown.source = Growing.source
      /\ grown.words = Growing.words \o Words(text) /\ grown.calls = Growing.calls \o calls
      /\ grown.results = Growing.results
  BY <1>6 DEF grown
<1>8. Continues(grown, Growing) BY <1>4, <1>7 DEF Continues
<1>9. grown \in Steps BY <1>1, <1>4, <1>6 DEF Steps, grown
<1>10. QED BY <1>5, <1>7, <1>8, <1>9 DEF grown

(* The step in the making goes on, or a step begins.                          *)
LEMMA GoesOnGrows ==
  ASSUME FileTyped, StepsTyped, IInv, NEW step, Makes(agent, step), Continues(step, Growing),
         UNCHANGED <<agent, steps>>, pending' = <<step>>, phase' = "reading"
  PROVE  StepsTyped' /\ Advances
<1>1. step \in Steps BY DEF Makes
<1>2. StepsTyped' BY <1>1 DEF StepsTyped, Makes
<1>3. Shown' = steps \o <<step>> BY DEF Shown
<1>4. CASE pending = <<>>
  <2>1. <<step>> \in Seq(Steps) BY <1>1
  <2>2. QED BY <1>2, <1>3, <1>4, <2>1 DEF Advances
<1>5. CASE pending = <<Growing>>
  <2>1. Growing \in Steps BY GrowingTyped DEF Makes
  <2>2. steps \o <<step>> = Append(steps, step) \o <<>> /\ <<>> \in Seq(Steps)
    BY <1>1 DEF StepsTyped
  <2>3. QED BY <1>1, <1>2, <1>3, <1>5, <2>1, <2>2 DEF Advances
<1>6. QED BY <1>4, <1>5, GrowingTyped

(* It ends: it is the last of the steps that are closed.                      *)
LEMMA EndsGrows ==
  ASSUME FileTyped, StepsTyped, IInv, NEW step \in Steps, Continues(step, Growing),
         steps' = Append(steps, step), pending' = <<>>
  PROVE  StepsTyped' /\ Advances
<1>1. StepsTyped' BY DEF StepsTyped
<1>2. Shown' = Append(steps, step) \o <<>> /\ <<>> \in Seq(Steps) BY DEF Shown
<1>3. Append(steps, step) \o <<>> = steps \o <<step>> BY DEF StepsTyped
<1>4. CASE pending = <<>>
  <2>1. <<step>> \in Seq(Steps) OBVIOUS
  <2>2. QED BY <1>1, <1>2, <1>3, <1>4, <2>1 DEF Advances
<1>5. CASE pending = <<Growing>>
  <2>1. Growing \in Steps BY GrowingTyped DEF Makes
  <2>2. QED BY <1>1, <1>2, <1>5, <2>1 DEF Advances
<1>6. QED BY <1>4, <1>5, GrowingTyped

(* It is filled in, if there is one.                                          *)
LEMMA FilledGrows ==
  ASSUME FileTyped, StepsTyped, IInv, NEW filled, pending' = [i \in DOMAIN pending |-> filled[i]],
         pending # <<>> => Makes(agent, filled[1]) /\ Continues(filled[1], Growing),
         UNCHANGED <<agent, steps>>, phase' = "reading"
  PROVE  StepsTyped' /\ Advances
<1>1. CASE pending = <<>>
  <2>1. pending' = <<>> BY <1>1
  <2>2. StepsTyped' BY <2>1 DEF StepsTyped
  <2>3. QED BY <1>1, <2>1, <2>2, Still
<1>2. CASE pending = <<Growing>>
  <2>1. pending' = <<filled[1]>> BY <1>2
  <2>2. pending # <<>> BY <1>2
  <2>3. QED BY <2>1, <2>2, GoesOnGrows
<1>3. QED BY <1>1, <1>2, GrowingTyped

LEMMA UserSaysGrows ==
  ASSUME FileTyped, StepsTyped, IInv, NEW text \in Says, UserSays(text)
  PROVE  StepsTyped' /\ Advances
<1> DEFINE number == [n \in Nat |-> stepId + n]
           said == [i \in 1..Len(Words(text)) |-> Step(number[i], "user", Words(text))]
<1>1. number \in [Nat -> Nat] BY StepIdIsNat
<1>2. said \in Seq(Steps) BY <1>1, SaidTyped
<1>3. steps' = Closed \o said /\ pending' = <<>>
  <2>1. said = [i \in 1..Len(Words(text)) |-> Step(stepId + i, "user", Words(text))]
    <3>1. Len(Words(text)) \in Nat BY WordsAre
    <3>2. \A i \in 1..Len(Words(text)) : number[i] = stepId + i BY <3>1
    <3> HIDE DEF number
    <3>3. QED BY <3>2
  <2> HIDE DEF number, said
  <2>2. QED BY <2>1 DEF UserSays
<1> HIDE DEF number, said
<1>4. Closed \in Seq(Steps) BY ClosedIs
<1>5. steps' \in Seq(Steps) BY <1>2, <1>3, <1>4
<1>6. Shown' = Closed \o said BY <1>3, <1>5 DEF Shown
<1>7. Advances BY <1>2, <1>6, Onward
<1>8. QED BY <1>3, <1>5, <1>7 DEF StepsTyped

LEMMA FlushGrows ==
  ASSUME FileTyped, StepsTyped, Flush
  PROVE  StepsTyped' /\ Advances
<1>1. Closed \in Seq(Steps) BY ClosedIs
<1>2. steps' = Closed /\ pending' = <<>> BY DEF Flush
<1>3. Shown' = Closed \o <<>> /\ <<>> \in Seq(Steps) BY <1>2 DEF Shown
<1>4. QED BY <1>1, <1>2, <1>3, Onward DEF StepsTyped

-----------------------------------------------------------------------------
(* What agents write *)

LEMMA LineIs ==
  ASSUME NEW format, NEW kind \in Kinds[format] \cup {"torn"}, NEW text \in Says \cup Replies,
         NEW reply \in Answers, NEW calls \in Seq(Calls), NEW id \in 0..MaxCalls, NEW used \in 0..1,
         kind = "result" => id \in Calls, kind # "assistant" => text \in Says
  PROVE  [kind |-> kind, text |-> text, reply |-> reply, calls |-> calls, id |-> id,
          used |-> used] \in LogLines(format)
BY DEF LogLines

LEMMA NewCallsTyped ==
  ASSUME FileTyped, NEW calls \in NewCalls
  PROVE  calls \in Seq(Calls) /\ Len(calls) \in Nat /\ made + Len(calls) <= MaxCalls
<1>1. PICK n \in 0..MaxCalls - made : calls = [i \in 1..n |-> made + i] BY DEF NewCalls
<1>2. made \in Nat /\ MaxCalls \in Nat /\ made <= MaxCalls /\ n \in Nat
  BY <1>1, BoundsAssumption DEF FileTyped
<1>3. \A i \in 1..n : made + i \in Calls BY <1>1, <1>2 DEF Calls
<1>4. calls \in Seq(Calls) /\ Len(calls) = n BY <1>1, <1>2, <1>3
<1>5. QED BY <1>1, <1>2, <1>4

LEMMA NextCallTyped ==
  ASSUME FileTyped, made < MaxCalls
  PROVE  /\ <<made + 1>> \in Seq(Calls) /\ Len(<<made + 1>>) = 1
         /\ made + 1 <= MaxCalls /\ made + 1 \in 0..MaxCalls
<1>1. made \in Nat /\ MaxCalls \in Nat BY BoundsAssumption DEF FileTyped
<1>2. made + 1 \in Calls /\ made + 1 <= MaxCalls /\ made + 1 \in 0..MaxCalls
  BY <1>1 DEF Calls
<1>3. QED BY <1>2

(* What an entry is.                                                          *)
LEMMA EntryIs ==
  ASSUME FileTyped, NEW e \in Entries
  PROVE  \/ \E t \in Says, kind \in {"user", "task"} : e = [Line(kind) EXCEPT !.text = t]
         \/ \E t \in Answers, c \in NewCalls, u \in 0..1 :
              e = [Line("assistant") EXCEPT !.text = t, !.calls = c, !.used = u]
         \/ made < MaxCalls /\ e = [Line("call") EXCEPT !.calls = <<made + 1>>]
         \/ \E i \in unanswered : e = [Line("result") EXCEPT !.id = i]
         \/ \E u \in 0..1, kind \in {"usage", "end"} : e = [Line(kind) EXCEPT !.used = u]
         \/ made < MaxCalls /\ \E i \in {0, made + 1} :
              e = [Line("ran") EXCEPT !.calls = <<made + 1>>, !.id = i]
         \/ \E t \in Says, r \in Answers : e = [Line("turn") EXCEPT !.text = t, !.reply = r]
<1> DEFINE Users == {[Line("user") EXCEPT !.text = t] : t \in Says}
           Assistants ==
             {[Line("assistant") EXCEPT !.text = m[1], !.calls = m[2], !.used = m[3]] :
                            m \in Answers \X NewCalls \X (0..1)}
           Asked == {[Line("call") EXCEPT !.calls = <<made + 1>>] : n \in 1..MaxCalls - made}
           Resulted == {[Line("result") EXCEPT !.id = i] : i \in unanswered}
           Ends == {[Line("end") EXCEPT !.used = u] : u \in 0..1}
           Ran == {[Line("ran") EXCEPT !.calls = <<made + 1>>, !.id = i] :
                     i \in {j \in {0, made + 1} : made < MaxCalls}}
           Tasks == {[Line("task") EXCEPT !.text = t] : t \in Says}
           Turns == {[Line("turn") EXCEPT !.text = m[1], !.reply = m[2]] :
                       m \in Says \X Answers}
<1>1. CASE e \in Users BY <1>1
<1>2. CASE e \in Assistants BY <1>2
<1>3. CASE e \in Asked
  <2>1. made \in Nat /\ MaxCalls \in Nat BY BoundsAssumption DEF FileTyped
  <2>2. made < MaxCalls /\ e = [Line("call") EXCEPT !.calls = <<made + 1>>] BY <1>3, <2>1
  <2>3. QED BY <2>2
<1>4. CASE e \in Resulted BY <1>4
<1>5. CASE e = [Line("usage") EXCEPT !.used = 1] BY <1>5
<1>6. CASE e \in Ends BY <1>6
<1>7. CASE e \in Ran BY <1>7
<1>8. CASE e \in Tasks BY <1>8
<1>9. CASE e \in Turns BY <1>9
<1>10. \/ e \in Users \/ e \in Assistants \/ e \in Asked \/ e \in Resulted
       \/ e = [Line("usage") EXCEPT !.used = 1] \/ e \in Ends \/ e \in Ran
       \/ e \in Tasks \/ e \in Turns
  BY Zenon DEF Entries
<1>11. QED BY <1>1, <1>2, <1>3, <1>4, <1>5, <1>6, <1>7, <1>8, <1>9, <1>10

LEMMA EntryTyped ==
  ASSUME FileTyped, NEW e \in Entries, e.kind \in Kinds[agent]
  PROVE  /\ e \in LogLines(agent)
         /\ Len(e.calls) \in Nat /\ made + Len(e.calls) <= MaxCalls
<1> DEFINE Fits(calls) ==
             calls \in Seq(Calls) /\ Len(calls) \in Nat /\ made + Len(calls) <= MaxCalls
           Ok(kind, text, reply, calls, id, used) ==
             /\ text \in Says \cup Replies /\ reply \in Answers /\ Fits(calls)
             /\ id \in 0..MaxCalls /\ used \in 0..1
             /\ (kind = "result" => id \in Calls) /\ (kind # "assistant" => text \in Says)
<1>1. /\ Blank \in Says \cup Replies /\ Blank \in Says /\ Blank \in Answers
      /\ Fits(<<>>) /\ 0 \in 0..MaxCalls /\ 0 \in 0..1 /\ 1 \in 0..1
  BY BoundsAssumption DEF Says, Answers, FileTyped
<1>2. ASSUME NEW kind, NEW text, NEW reply, NEW calls, NEW id, NEW used,
             Ok(kind, text, reply, calls, id, used),
             e = [kind |-> kind, text |-> text, reply |-> reply, calls |-> calls, id |-> id,
                  used |-> used]
      PROVE  e \in LogLines(agent) /\ Fits(e.calls)
  <2>1. e.kind = kind /\ e.calls = calls BY <1>2
  <2>2. e \in LogLines(agent) BY <1>2, <2>1, LineIs
  <2>3. QED BY <1>2, <2>1, <2>2
<1> HIDE DEF Ok, Fits
<1>3. ASSUME NEW t \in Says, NEW kind \in {"user", "task"}, e = [Line(kind) EXCEPT !.text = t]
      PROVE  e \in LogLines(agent) /\ Fits(e.calls)
  <2>1. e = [kind |-> kind, text |-> t, reply |-> Blank, calls |-> <<>>, id |-> 0, used |-> 0]
    BY <1>3 DEF Line
  <2>2. Ok(kind, t, Blank, <<>>, 0, 0) BY <1>1, <1>3 DEF Ok
  <2>3. QED BY <1>2, <2>1, <2>2
<1>4. ASSUME NEW t \in Answers, NEW c \in NewCalls, NEW u \in 0..1,
             e = [Line("assistant") EXCEPT !.text = t, !.calls = c, !.used = u]
      PROVE  e \in LogLines(agent) /\ Fits(e.calls)
  <2>1. e = [kind |-> "assistant", text |-> t, reply |-> Blank, calls |-> c, id |-> 0, used |-> u]
    BY <1>4 DEF Line
  <2>2. t \in Says \cup Replies BY DEF Answers, Says
  <2>3. c \in Seq(Calls) /\ Fits(c) BY NewCallsTyped DEF Fits
  <2>4. Ok("assistant", t, Blank, c, 0, u) BY <1>1, <2>2, <2>3, <1>4 DEF Ok
  <2>5. QED BY <1>2, <2>1, <2>4
<1>5. ASSUME made < MaxCalls, e = [Line("call") EXCEPT !.calls = <<made + 1>>]
      PROVE  e \in LogLines(agent) /\ Fits(e.calls)
  <2>1. e = [kind |-> "call", text |-> Blank, reply |-> Blank, calls |-> <<made + 1>>, id |-> 0,
             used |-> 0]
    BY <1>5 DEF Line
  <2>2. <<made + 1>> \in Seq(Calls) /\ Fits(<<made + 1>>) BY <1>5, NextCallTyped DEF Fits
  <2>3. Ok("call", Blank, Blank, <<made + 1>>, 0, 0) BY <1>1, <2>2, <1>5 DEF Ok
  <2>4. QED BY <1>2, <2>1, <2>3
<1>6. ASSUME NEW i \in unanswered, e = [Line("result") EXCEPT !.id = i]
      PROVE  e \in LogLines(agent) /\ Fits(e.calls)
  <2>1. e = [kind |-> "result", text |-> Blank, reply |-> Blank, calls |-> <<>>, id |-> i,
             used |-> 0]
    BY <1>6 DEF Line
  <2>2. i \in Calls /\ i \in 0..MaxCalls BY BoundsAssumption DEF FileTyped, Calls
  <2>3. Ok("result", Blank, Blank, <<>>, i, 0) BY <1>1, <2>2, <1>6 DEF Ok
  <2>4. QED BY <1>2, <2>1, <2>3
<1>7. ASSUME NEW u \in 0..1, NEW kind \in {"usage", "end"}, e = [Line(kind) EXCEPT !.used = u]
      PROVE  e \in LogLines(agent) /\ Fits(e.calls)
  <2>1. e = [kind |-> kind, text |-> Blank, reply |-> Blank, calls |-> <<>>, id |-> 0, used |-> u]
    BY <1>7 DEF Line
  <2>2. Ok(kind, Blank, Blank, <<>>, 0, u) BY <1>1, <1>7 DEF Ok
  <2>3. QED BY <1>2, <2>1, <2>2
<1>8. ASSUME made < MaxCalls, NEW i \in {0, made + 1},
             e = [Line("ran") EXCEPT !.calls = <<made + 1>>, !.id = i]
      PROVE  e \in LogLines(agent) /\ Fits(e.calls)
  <2>1. e = [kind |-> "ran", text |-> Blank, reply |-> Blank, calls |-> <<made + 1>>, id |-> i,
             used |-> 0]
    BY <1>8 DEF Line
  <2>2. <<made + 1>> \in Seq(Calls) /\ Fits(<<made + 1>>) /\ i \in 0..MaxCalls
    BY <1>1, <1>8, NextCallTyped DEF Fits
  <2>3. Ok("ran", Blank, Blank, <<made + 1>>, i, 0) BY <1>1, <2>2, <1>8 DEF Ok
  <2>4. QED BY <1>2, <2>1, <2>3
<1>9. ASSUME NEW t \in Says, NEW r \in Answers, e = [Line("turn") EXCEPT !.text = t, !.reply = r]
      PROVE  e \in LogLines(agent) /\ Fits(e.calls)
  <2>1. e = [kind |-> "turn", text |-> t, reply |-> r, calls |-> <<>>, id |-> 0, used |-> 0]
    BY <1>9 DEF Line
  <2>2. Ok("turn", t, r, <<>>, 0, 0) BY <1>1, <1>9 DEF Ok
  <2>3. QED BY <1>2, <2>1, <2>2
<1>10. e \in LogLines(agent) /\ Fits(e.calls)
  <2>1. CASE \E t \in Says, kind \in {"user", "task"} : e = [Line(kind) EXCEPT !.text = t]
    BY <2>1, <1>3
  <2>2. CASE \E t \in Answers, c \in NewCalls, u \in 0..1 :
               e = [Line("assistant") EXCEPT !.text = t, !.calls = c, !.used = u]
    BY <2>2, <1>4
  <2>3. CASE made < MaxCalls /\ e = [Line("call") EXCEPT !.calls = <<made + 1>>]
    BY <2>3, <1>5
  <2>4. CASE \E i \in unanswered : e = [Line("result") EXCEPT !.id = i]
    BY <2>4, <1>6
  <2>5. CASE \E u \in 0..1, kind \in {"usage", "end"} : e = [Line(kind) EXCEPT !.used = u]
    BY <2>5, <1>7
  <2>6. CASE made < MaxCalls /\ \E i \in {0, made + 1} :
               e = [Line("ran") EXCEPT !.calls = <<made + 1>>, !.id = i]
    BY <2>6, <1>8
  <2>7. CASE \E t \in Says, r \in Answers : e = [Line("turn") EXCEPT !.text = t, !.reply = r]
    BY <2>7, <1>9
  <2>8. QED BY <2>1, <2>2, <2>3, <2>4, <2>5, <2>6, <2>7, EntryIs, Zenon
<1>11. QED BY <1>10 DEF Fits

LEMMA WriteTyped ==
  ASSUME FileTyped, \E e \in Entries : Write(e)
  PROVE  FileTyped'
<1>1. PICK e \in Entries : Write(e) OBVIOUS
<1>2. /\ phase = "writing" /\ e.kind \in Kinds[agent]
      /\ log' = (IF torn THEN log ELSE Append(log, e)) /\ torn' = FALSE
      /\ made' = made + Len(e.calls) /\ unanswered' = (unanswered \ {e.id}) \cup ToSet(e.calls)
      /\ spent' = spent + (IF torn THEN 0 ELSE e.used) /\ UNCHANGED <<agent, phase, pos, results>>
  BY <1>1 DEF Write, Writes
<1>3. /\ e \in LogLines(agent) /\ Len(e.calls) \in Nat /\ made + Len(e.calls) <= MaxCalls
  BY <1>2, EntryTyped
<1>4. e.calls \in Seq(Calls) /\ e.used \in 0..1 BY <1>3 DEF LogLines
<1>5. ToSet(e.calls) \subseteq Calls BY <1>4 DEF ToSet
<1>6. log' \in Seq(LogLines(agent)) /\ pos \in 1..Len(log') + 1
  <2>1. log \in Seq(LogLines(agent)) /\ Len(log) \in Nat /\ pos = 1 BY <1>2 DEF FileTyped
  <2>2. log' \in Seq(LogLines(agent)) /\ Len(log') \in Nat BY <1>2, <1>3, <2>1
  <2>3. QED BY <2>1, <2>2
<1>7. made' \in 0..MaxCalls /\ spent' \in Nat
  <2>1. made \in Nat /\ spent \in Nat BY BoundsAssumption DEF FileTyped
  <2>2. QED BY <1>2, <1>3, <1>4, <2>1, BoundsAssumption
<1>8. QED BY <1>2, <1>5, <1>6, <1>7 DEF FileTyped

LEMMA CrashTyped ==
  ASSUME FileTyped, Crash
  PROVE  FileTyped'
<1>1. /\ log' = Append(log, Torn) /\ torn' = TRUE /\ unanswered' \in {unanswered, {}}
      /\ UNCHANGED <<agent, made, spent, phase, pos, results>>
  BY DEF Crash
<1>2. Torn \in LogLines(agent)
  <2>1. Torn = [kind |-> "torn", text |-> Blank, reply |-> Blank, calls |-> <<>>, id |-> 0,
                used |-> 0]
    BY DEF Torn, Line
  <2>2. Blank \in Says \cup Replies /\ Blank \in Says /\ Blank \in Answers /\ <<>> \in Seq(Calls)
        /\ 0 \in 0..MaxCalls /\ 0 \in 0..1
    BY BoundsAssumption DEF Says, Answers
  <2>3. QED BY <2>1, <2>2, LineIs
<1>3. log' \in Seq(LogLines(agent)) /\ Len(log') = Len(log) + 1 /\ Len(log) \in Nat
  BY <1>1, <1>2 DEF FileTyped
<1>4. pos \in 1..Len(log') + 1 BY <1>3 DEF FileTyped
<1>5. QED BY <1>1, <1>3, <1>4 DEF FileTyped

LEMMA LoadedTyped ==
  ASSUME FileTyped
  PROVE  Loaded(log) \in Seq(LogLines(agent))
<1>1. log \in Seq(LogLines(agent)) /\ <<>> \in Seq(LogLines(agent)) BY DEF FileTyped
<1>2. Chosen(log, {e \in ToSet(log) : e.kind # "torn"}) \in Seq(LogLines(agent))
  BY <1>1, ChosenFacts
<1>3. QED BY <1>1, <1>2 DEF Loaded, ExecLoaded

LEMMA OpenTyped ==
  ASSUME FileTyped, Open
  PROVE  FileTyped'
<1>1. /\ phase = "writing" /\ phase' = "reading" /\ log' = Loaded(log)
      /\ results' = ToolResults(Loaded(log))
      /\ UNCHANGED <<agent, torn, made, unanswered, spent, pos>>
  BY DEF Open
<1>2. log' \in Seq(LogLines(agent)) /\ Len(log') \in Nat BY <1>1, LoadedTyped
<1>3. ToolResults(Loaded(log)) \subseteq Calls
  <2>1. ASSUME NEW i \in DOMAIN log', log'[i].kind = "result"
        PROVE  log'[i].id \in Calls
    <3>1. log'[i] \in LogLines(agent) BY <1>2
    <3>2. QED BY <2>1, <3>1 DEF LogLines
  <2>2. QED BY <1>1, <2>1 DEF ToolResults
<1>4. pos = 1 /\ pos \in 1..Len(log') + 1 BY <1>1, <1>2 DEF FileTyped
<1>5. QED BY <1>1, <1>2, <1>3, <1>4 DEF FileTyped

(* What every handler finds, and what it keeps.                               *)
LEMMA ReadTyped ==
  ASSUME FileTyped, NEW format, NEW kind, Read(format, kind)
  PROVE  /\ FileTyped' /\ phase' = "reading" /\ agent = format /\ UNCHANGED <<agent, total>>
         /\ Entry \in LogLines(agent) /\ Entry.kind = kind /\ pos \in Nat
         /\ Entry.text \in Says \cup Replies /\ Entry.reply \in Answers
         /\ Entry.calls \in Seq(Calls) /\ Entry.used \in 0..1
         /\ kind = "result" => Entry.id \in Calls
         /\ kind # "assistant" => Entry.text \in Says
<1>1. /\ phase = "reading" /\ agent = format /\ pos <= Len(log) /\ Entry.kind = kind
      /\ pos' = pos + 1
      /\ UNCHANGED <<agent, log, torn, made, unanswered, spent, phase, results, total>>
  BY DEF Read, file
<1>2. log \in Seq(LogLines(agent)) /\ Len(log) \in Nat /\ pos \in 1..Len(log) + 1
  BY DEF FileTyped
<1>3. pos \in 1..Len(log) /\ pos + 1 \in 1..Len(log) + 1 /\ pos \in Nat BY <1>1, <1>2
<1>4. Entry \in LogLines(agent) BY <1>2, <1>3 DEF Entry
<1>5. FileTyped' BY <1>1, <1>3 DEF FileTyped
<1>6. QED BY <1>1, <1>3, <1>4, <1>5 DEF LogLines

-----------------------------------------------------------------------------
(* The handlers: what each does to the steps, and to what is counted *)

Inv == TInv /\ IInv

Grows == StepsTyped' /\ CountersTyped' /\ Advances

LEMMA InvIs == Inv => FileTyped /\ StepsTyped /\ CountersTyped /\ IInv
BY DEF Inv, TInv

LEMMA AnyUserTyped ==
  ASSUME CountersTyped, AnyUser, UNCHANGED total
  PROVE  CountersTyped'
BY DEF CountersTyped, AnyUser

LEMMA CallsTyped ==
  ASSUME CountersTyped, NEW calls \in Seq(Calls), Called(calls),
         UNCHANGED <<prompt, sawUsage, task, lastUser, total>>
  PROVE  CountersTyped'
<1>1. toolCalls' \in Nat
  <2>1. Len(calls) \in Nat /\ toolCalls \in Nat BY DEF CountersTyped
  <2>2. QED BY <2>1 DEF Called
<1>2. QED BY <1>1 DEF CountersTyped

LEMMA StillGrows ==
  ASSUME Inv, UNCHANGED <<agent, steps, pending>>, phase' = "done" => phase = "done"
  PROVE  StepsTyped' /\ Advances
<1>1. StepsTyped BY InvIs
<1>2. QED BY <1>1, Still DEF StepsTyped

LEMMA SilentEntriesGrow ==
  ASSUME Inv, ClaudeResult \/ ClaudeOther \/ CodexResult \/ CopilotResult \/ HermesTool
  PROVE  FileTyped' /\ Grows
<1>1. UNCHANGED parsed /\ \E format, kind : Read(format, kind)
  BY DEF ClaudeResult, ClaudeOther, CodexResult, CopilotResult, HermesTool
<1>2. FileTyped' /\ phase' = "reading" /\ UNCHANGED <<agent, total>>
  BY <1>1, ReadTyped, InvIs
<1>3. UNCHANGED <<steps, pending, toolCalls, prompt, sawUsage, task, lastUser>>
  BY <1>1 DEF parsed
<1>4. CountersTyped' BY <1>2, <1>3, InvIs DEF CountersTyped
<1>5. QED BY <1>2, <1>3, <1>4, StillGrows DEF Grows

LEMMA ProbeUsageGrows ==
  ASSUME Inv, ProbeUsage
  PROVE  FileTyped' /\ Grows
<1>1. /\ FileTyped' /\ phase' = "reading" /\ UNCHANGED <<agent, total>> /\ Entry.used \in 0..1
  BY ReadTyped, InvIs DEF ProbeUsage
<1>2. /\ sawUsage' = TRUE /\ prompt' = prompt + Entry.used
      /\ UNCHANGED <<steps, pending, toolCalls, task, lastUser>>
  BY DEF ProbeUsage, Spent
<1>3. CountersTyped'
  <2>1. prompt \in Nat BY InvIs DEF CountersTyped
  <2>2. prompt' \in Nat BY <1>1, <1>2, <2>1
  <2>3. QED BY <1>1, <1>2, <2>2, InvIs DEF CountersTyped
<1>4. QED BY <1>1, <1>2, <1>3, StillGrows DEF Grows

LEMMA KnitTaskGrows ==
  ASSUME Inv, KnitTask
  PROVE  FileTyped' /\ Grows
<1>1. /\ FileTyped' /\ phase' = "reading" /\ UNCHANGED <<agent, total>> /\ Entry.text \in Says
  BY ReadTyped, InvIs DEF KnitTask
<1>2. /\ task' = (IF Entry.text = Blank THEN task ELSE Entry.text)
      /\ UNCHANGED <<steps, pending, toolCalls, prompt, sawUsage, lastUser>>
  BY DEF KnitTask
<1>3. CountersTyped' BY <1>1, <1>2, InvIs DEF CountersTyped
<1>4. QED BY <1>1, <1>2, <1>3, StillGrows DEF Grows

LEMMA UserEntriesGrow ==
  ASSUME Inv, ClaudeUser \/ CodexUser \/ CopilotUser \/ HermesUser \/ ProbeUser \/ ExecPrompt
  PROVE  FileTyped' /\ Grows
<1>1. UserSays(Entry.text) /\ AnyUser /\ \E format : Read(format, "user")
  BY DEF ClaudeUser, CodexUser, CopilotUser, HermesUser, ProbeUser, ExecPrompt
<1>2. FileTyped' /\ UNCHANGED total /\ Entry.text \in Says BY <1>1, ReadTyped, InvIs
<1>3. StepsTyped' /\ Advances BY <1>1, <1>2, UserSaysGrows, InvIs
<1>4. CountersTyped' BY <1>1, <1>2, AnyUserTyped, InvIs
<1>5. QED BY <1>2, <1>3, <1>4 DEF Grows

LEMMA KnitUserGrows ==
  ASSUME Inv, KnitUser
  PROVE  FileTyped' /\ Grows
<1>1. FileTyped' /\ UNCHANGED total /\ Entry.text \in Says BY ReadTyped, InvIs DEF KnitUser
<1>2. Blank \in Says BY DEF Says
<1>3. Unless(Entry.text, lastUser) \in Says BY <1>1, <1>2 DEF Unless
<1>4. /\ UserSays(Unless(Entry.text, lastUser)) /\ task' = Blank
      /\ lastUser' = (IF Entry.text = Blank THEN lastUser ELSE Entry.text)
      /\ UNCHANGED <<toolCalls, prompt, sawUsage>>
  BY DEF KnitUser
<1>5. StepsTyped' /\ Advances BY <1>3, <1>4, UserSaysGrows, InvIs
<1>6. CountersTyped' BY <1>1, <1>2, <1>4, InvIs DEF CountersTyped
<1>7. QED BY <1>1, <1>5, <1>6 DEF Grows

LEMMA EndsOfTurnsGrow ==
  ASSUME Inv, CodexEnd \/ CopilotEnd
  PROVE  FileTyped' /\ Grows
<1>1. Flush /\ AnyUser /\ \E format : Read(format, "end") BY DEF CodexEnd, CopilotEnd
<1>2. FileTyped' /\ UNCHANGED total BY <1>1, ReadTyped, InvIs
<1>3. StepsTyped' /\ Advances BY <1>1, FlushGrows, InvIs
<1>4. CountersTyped' BY <1>1, <1>2, AnyUserTyped, InvIs
<1>5. QED BY <1>2, <1>3, <1>4 DEF Grows

LEMMA GrownMakes ==
  ASSUME Inv, NEW text \in Says \cup Replies, NEW calls \in Seq(Calls),
         agent = "agent_probe" => text = Blank
  PROVE  /\ Makes(agent, Grown(text, calls)) /\ Continues(Grown(text, calls), Growing)
         /\ Grown(text, calls) \in Steps
BY GrowingTyped, GrownTyped, InvIs DEF Makes

LEMMA CallsAndMessagesGrow ==
  ASSUME Inv, CodexMessage \/ CodexCall \/ CopilotMessage \/ ProbeCall
  PROVE  FileTyped' /\ Grows
<1>1. PICK format, kind : Read(format, kind) /\ format \in {"codex", "copilot", "agent_probe"}
  BY DEF CodexMessage, CodexCall, CopilotMessage, ProbeCall
<1>2. /\ FileTyped' /\ phase' = "reading" /\ UNCHANGED <<agent, total>>
      /\ Entry.text \in Says \cup Replies /\ Entry.calls \in Seq(Calls)
  BY <1>1, ReadTyped, InvIs
<1>3. Blank \in Says \cup Replies /\ <<>> \in Seq(Calls) BY DEF Says
<1>4. ASSUME NEW text \in Says \cup Replies, NEW calls \in Seq(Calls),
             agent = "agent_probe" => text = Blank,
             pending' = <<Grown(text, calls)>>, UNCHANGED steps
      PROVE  StepsTyped' /\ Advances
  BY <1>2, <1>4, GrownMakes, GoesOnGrows, InvIs
<1>5. CASE CodexMessage
  <2>1. agent = "codex" /\ pending' = <<Grown(Entry.text, <<>>)>> /\ UNCHANGED steps /\ AnyUser
    BY <1>5, ReadKeepsAgent DEF CodexMessage
  <2>2. StepsTyped' /\ Advances BY <1>2, <1>3, <1>4, <2>1
  <2>3. CountersTyped' BY <1>2, <2>1, AnyUserTyped, InvIs
  <2>4. QED BY <1>2, <2>2, <2>3 DEF Grows
<1>6. CASE CodexCall \/ CopilotMessage \/ ProbeCall
  <2>1. /\ Called(Entry.calls) /\ UNCHANGED <<steps, prompt, sawUsage, task, lastUser>>
        /\ \/ pending' = <<Grown(Blank, Entry.calls)>>
           \/ agent = "copilot" /\ pending' = <<Grown(Entry.text, Entry.calls)>>
    BY <1>6, ReadKeepsAgent DEF CodexCall, CopilotMessage, ProbeCall
  <2>2. StepsTyped' /\ Advances BY <1>2, <1>3, <1>4, <2>1
  <2>3. CountersTyped' BY <1>2, <2>1, CallsTyped, InvIs
  <2>4. QED BY <1>2, <2>2, <2>3 DEF Grows
<1>7. QED BY <1>5, <1>6

(* Claude Code's entries are steps: none is in the making.                    *)
LEMMA ClaudeAssistantGrows ==
  ASSUME Inv, ClaudeAssistant
  PROVE  FileTyped' /\ Grows
<1> DEFINE grown == Grown(Entry.text, Entry.calls)
           counted == [grown EXCEPT !.used = Entry.used]
           step == Answered(counted)
<1>1. /\ FileTyped' /\ agent = "claude" /\ UNCHANGED <<agent, total>> /\ phase' = "reading"
      /\ Entry.text \in Says \cup Replies /\ Entry.calls \in Seq(Calls) /\ Entry.used \in 0..1
  BY ReadTyped, InvIs DEF ClaudeAssistant
<1>2. /\ steps' = Append(steps, step) /\ Called(Entry.calls) /\ prompt' = prompt + Entry.used
      /\ UNCHANGED <<pending, sawUsage, task, lastUser>>
  BY DEF ClaudeAssistant, Spent
<1>3. pending' = <<>> BY <1>1, <1>2, InvIs DEF IInv
<1>4. Makes(agent, grown) /\ Continues(grown, Growing) /\ grown \in Steps
  BY <1>1, GrownMakes
<1> HIDE DEF grown
<1>5. grown.results = <<>> BY <1>1, <1>4 DEF Makes, Collecting
<1>6. /\ counted \in Steps /\ counted.id = grown.id /\ counted.source = grown.source
      /\ counted.words = grown.words /\ counted.calls = grown.calls
      /\ counted.results = grown.results
  BY <1>1, <1>4 DEF Steps
<1> HIDE DEF counted
<1>7. step \in Steps /\ Continues(step, counted) BY <1>5, <1>6, AnsweredTyped, AnsweredExtends, InvIs
<1>8. Continues(step, Growing)
  <2>1. /\ step.id = counted.id /\ step.source = counted.source /\ step.words = counted.words
        /\ step.calls = counted.calls
    BY <1>6 DEF Answered, Steps
  <2>2. Growing.results = <<>> /\ step.results \in Seq(Calls)
    BY <1>1, <1>7, GrowingTyped, InvIs DEF Makes, Collecting, Steps
  <2>3. IsPrefix(Growing.results, step.results) BY <2>2, StaysPrefix
  <2> HIDE DEF step
  <2>4. QED BY <1>4, <1>6, <2>1, <2>3 DEF Continues
<1> HIDE DEF step
<1>9. StepsTyped' /\ Advances BY <1>2, <1>3, <1>7, <1>8, EndsGrows, InvIs
<1>10. CountersTyped'
  <2>1. prompt \in Nat /\ toolCalls \in Nat /\ Len(Entry.calls) \in Nat
    BY <1>1, InvIs DEF CountersTyped
  <2>2. prompt' \in Nat /\ toolCalls' \in Nat BY <1>1, <1>2, <2>1 DEF Called
  <2>3. QED BY <1>1, <1>2, <2>2, InvIs DEF CountersTyped
<1>11. QED BY <1>1, <1>9, <1>10 DEF Grows

LEMMA HermesAssistantGrows ==
  ASSUME Inv, HermesAssistant
  PROVE  FileTyped' /\ Grows
<1> DEFINE step == Grown(Entry.text, Entry.calls)
<1>1. /\ FileTyped' /\ agent = "hermes" /\ UNCHANGED <<agent, total>> /\ phase' = "reading"
      /\ Entry.text \in Says \cup Replies /\ Entry.calls \in Seq(Calls)
  BY ReadTyped, InvIs DEF HermesAssistant
<1>2. Makes(agent, step) /\ Continues(step, Growing) /\ step \in Steps BY <1>1, GrownMakes
<1>3. /\ \/ pending' = <<step>> /\ UNCHANGED steps
         \/ pending' = <<>> /\ steps' = Append(steps, Answered(step))
      /\ Called(Entry.calls) /\ UNCHANGED <<prompt, sawUsage, task, lastUser>>
  BY DEF HermesAssistant
<1> HIDE DEF step
<1>4. CASE pending' = <<step>> /\ UNCHANGED steps
  <2>1. StepsTyped' /\ Advances BY <1>1, <1>2, <1>4, GoesOnGrows, InvIs
  <2>2. CountersTyped' BY <1>1, <1>3, CallsTyped, InvIs
  <2>3. QED BY <1>1, <2>1, <2>2 DEF Grows
<1>5. CASE pending' = <<>> /\ steps' = Append(steps, Answered(step))
  <2>1. Growing.results = <<>> /\ step.results = <<>>
    BY <1>1, <1>2, GrowingTyped, InvIs DEF Makes, Collecting
  <2>2. Answered(step) \in Steps BY <1>2, AnsweredTyped, InvIs
  <2>3. /\ Answered(step).id = step.id /\ Answered(step).source = step.source
        /\ Answered(step).words = step.words /\ Answered(step).calls = step.calls
    BY <1>2 DEF Answered, Steps
  <2>4. IsPrefix(Growing.results, Answered(step).results)
    <3>1. Answered(step).results \in Seq(Calls) BY <2>2 DEF Steps
    <3>2. QED BY <2>1, <3>1, StaysPrefix
  <2>5. Continues(Answered(step), Growing) BY <1>2, <2>3, <2>4 DEF Continues
  <2>6. StepsTyped' /\ Advances BY <1>5, <2>2, <2>5, EndsGrows, InvIs
  <2>7. CountersTyped' BY <1>1, <1>3, CallsTyped, InvIs
  <2>8. QED BY <1>1, <2>6, <2>7 DEF Grows
<1>6. QED BY <1>3, <1>4, <1>5

LEMMA ProbeAssistantGrows ==
  ASSUME Inv, ProbeAssistant
  PROVE  FileTyped' /\ Grows
<1> DEFINE step == [Growing EXCEPT !.words = Words(Entry.text)]
<1>1. /\ FileTyped' /\ agent = "agent_probe" /\ UNCHANGED total /\ Entry.text \in Says \cup Replies
  BY ReadTyped, InvIs DEF ProbeAssistant
<1>2. steps' = Append(steps, step) /\ pending' = <<>> /\ AnyUser BY DEF ProbeAssistant
<1>3. Growing \in Steps /\ Growing.words = <<>>
  BY <1>1, GrowingTyped, InvIs DEF Makes
<1>4. Words(Entry.text) \in Seq(Texts \cup Replies) BY <1>1, WordsTyped
<1>5. /\ step \in Steps /\ step.id = Growing.id /\ step.source = Growing.source
      /\ step.words = Words(Entry.text) /\ step.calls = Growing.calls
      /\ step.results = Growing.results
  BY <1>3, <1>4 DEF Steps
<1> HIDE DEF step
<1>6. Continues(step, Growing)
  <2>1. Growing.calls \in Seq(Calls) /\ Growing.results \in Seq(Calls) BY <1>3 DEF Steps
  <2>2. /\ IsPrefix(<<>>, Words(Entry.text)) /\ IsPrefix(Growing.calls, Growing.calls)
        /\ IsPrefix(Growing.results, Growing.results)
    BY <1>4, <2>1, StaysPrefix
  <2>3. QED BY <1>3, <1>5, <2>2 DEF Continues
<1>7. StepsTyped' /\ Advances BY <1>2, <1>5, <1>6, EndsGrows, InvIs
<1>8. CountersTyped' BY <1>1, <1>2, AnyUserTyped, InvIs
<1>9. QED BY <1>1, <1>7, <1>8 DEF Grows

(* A count of tokens, or a result, for the step in the making.                *)
LEMMA UsedExtends ==
  ASSUME NEW step \in Steps, NEW used \in 0..1
  PROVE  /\ [step EXCEPT !.used = used] \in Steps
         /\ [step EXCEPT !.used = used].words = step.words
         /\ [step EXCEPT !.used = used].results = step.results
         /\ Continues([step EXCEPT !.used = used], step)
<1> DEFINE new == [step EXCEPT !.used = used]
<1>1. /\ new \in Steps /\ new.id = step.id /\ new.source = step.source
      /\ new.words = step.words /\ new.calls = step.calls /\ new.results = step.results
  BY DEF Steps
<1> HIDE DEF new
<1>2. Continues(step, step) BY ExtendsItself
<1>3. Continues(new, step) BY <1>1, <1>2 DEF Continues
<1>4. QED BY <1>1, <1>3 DEF new

LEMMA ResultExtends ==
  ASSUME NEW step \in Steps, NEW id \in Calls
  PROVE  /\ [step EXCEPT !.results = Append(@, id)] \in Steps
         /\ [step EXCEPT !.results = Append(@, id)].words = step.words
         /\ Continues([step EXCEPT !.results = Append(@, id)], step)
<1> DEFINE new == [step EXCEPT !.results = Append(@, id)]
<1>1. /\ step.words \in Seq(Texts \cup Replies) /\ step.calls \in Seq(Calls)
      /\ step.results \in Seq(Calls)
  BY DEF Steps
<1>2. Append(step.results, id) \in Seq(Calls) BY <1>1
<1>3. /\ new \in Steps /\ new.id = step.id /\ new.source = step.source
      /\ new.words = step.words /\ new.calls = step.calls
      /\ new.results = Append(step.results, id)
  BY <1>2 DEF Steps
<1> HIDE DEF new
<1>4. IsPrefix(step.results, Append(step.results, id)) BY <1>1, OneMoreIsPrefix
<1>5. IsPrefix(step.words, step.words) /\ IsPrefix(step.calls, step.calls) BY <1>1, StaysPrefix
<1>6. Continues(new, step) BY <1>3, <1>4, <1>5 DEF Continues
<1>7. QED BY <1>3, <1>6 DEF new

LEMMA PendingIsMade ==
  ASSUME Inv, pending # <<>>
  PROVE  /\ pending = <<Growing>> /\ pending[1] = Growing /\ 1 \in DOMAIN pending
         /\ Makes(agent, Growing) /\ Growing \in Steps
<1>1. pending = <<Growing>> /\ Makes(agent, Growing) BY GrowingTyped, InvIs
<1>2. pending[1] = Growing /\ 1 \in DOMAIN pending BY <1>1
<1>3. QED BY <1>1, <1>2 DEF Makes

LEMMA CodexUsageGrows ==
  ASSUME Inv, CodexUsage
  PROVE  FileTyped' /\ Grows
<1> DEFINE filled == [i \in DOMAIN pending |-> [pending[i] EXCEPT !.used = Entry.used]]
<1>1. /\ FileTyped' /\ agent = "codex" /\ UNCHANGED <<agent, total>> /\ phase' = "reading"
      /\ Entry.used \in 0..1 /\ pos \in Nat
  BY ReadTyped, InvIs DEF CodexUsage
<1>2. /\ pending' = filled /\ prompt' = (IF UsedBy(pos) > prompt THEN UsedBy(pos) ELSE prompt)
      /\ UNCHANGED <<steps, toolCalls, sawUsage, task, lastUser>>
  BY DEF CodexUsage
<1>3. ASSUME pending # <<>> PROVE Makes(agent, filled[1]) /\ Continues(filled[1], Growing)
  <2>1. filled[1] = [Growing EXCEPT !.used = Entry.used] BY <1>3, PendingIsMade
  <2>2. Makes(agent, Growing) /\ Growing \in Steps BY <1>3, PendingIsMade
  <2>3. /\ [Growing EXCEPT !.used = Entry.used] \in Steps
        /\ [Growing EXCEPT !.used = Entry.used].words = Growing.words
        /\ [Growing EXCEPT !.used = Entry.used].results = Growing.results
        /\ Continues([Growing EXCEPT !.used = Entry.used], Growing)
    BY <1>1, <2>2, UsedExtends
  <2>4. /\ filled[1] \in Steps /\ filled[1].words = Growing.words
        /\ filled[1].results = Growing.results /\ Continues(filled[1], Growing)
    BY <2>1, <2>3, Zenon
  <2> HIDE DEF filled
  <2>5. QED BY <2>2, <2>4 DEF Makes
<1>4. pending' = [i \in DOMAIN pending |-> filled[i]] BY <1>2
<1> HIDE DEF filled
<1>5. StepsTyped' /\ Advances BY <1>1, <1>2, <1>3, <1>4, FilledGrows, InvIs
<1>6. UsedBy(pos) \in Nat
  <2>1. IsFiniteSet(1..pos) BY <1>1, FS_Interval
  <2>2. IsFiniteSet({j \in 1..pos : log[j].kind = "usage"}) BY <2>1, FS_Subset
  <2>3. QED BY <2>2, FS_CardinalityType DEF UsedBy
<1>7. CountersTyped'
  <2>1. prompt' \in Nat BY <1>2, <1>6, InvIs DEF CountersTyped
  <2>2. QED BY <1>1, <1>2, <2>1, InvIs DEF CountersTyped
<1>8. QED BY <1>1, <1>5, <1>7 DEF Grows

LEMMA ResultEntriesGrow ==
  ASSUME Inv, ProbeResult \/ KnitTool
  PROVE  FileTyped' /\ Grows
<1> DEFINE filled == [i \in DOMAIN pending |->
                        [pending[i] EXCEPT !.results = Append(@, Entry.id)]]
<1>1. PICK format \in {"agent_probe", "agentknit"} : Read(format, "result")
  BY DEF ProbeResult, KnitTool
<1>2. /\ FileTyped' /\ agent \in Collecting /\ UNCHANGED <<agent, total>> /\ phase' = "reading"
      /\ Entry.id \in Calls
  BY <1>1, ReadTyped, InvIs DEF Collecting
<1>3. /\ pending' = filled
      /\ UNCHANGED <<steps, stepId, toolCalls, prompt, sawUsage, task, lastUser>>
  BY DEF ProbeResult, KnitTool
<1>4. ASSUME pending # <<>> PROVE Makes(agent, filled[1]) /\ Continues(filled[1], Growing)
  <2>1. filled[1] = [Growing EXCEPT !.results = Append(@, Entry.id)] BY <1>4, PendingIsMade
  <2>2. Makes(agent, Growing) /\ Growing \in Steps BY <1>4, PendingIsMade
  <2>3. /\ [Growing EXCEPT !.results = Append(@, Entry.id)] \in Steps
        /\ [Growing EXCEPT !.results = Append(@, Entry.id)].words = Growing.words
        /\ Continues([Growing EXCEPT !.results = Append(@, Entry.id)], Growing)
    BY <1>2, <2>2, ResultExtends
  <2>4. filled[1] \in Steps /\ filled[1].words = Growing.words /\ Continues(filled[1], Growing)
    BY <2>1, <2>3, Zenon
  <2> HIDE DEF filled
  <2>5. QED BY <1>2, <2>2, <2>4 DEF Makes
<1>5. pending' = [i \in DOMAIN pending |-> filled[i]] BY <1>3
<1> HIDE DEF filled
<1>6. StepsTyped' /\ Advances BY <1>2, <1>3, <1>4, <1>5, FilledGrows, InvIs
<1>7. CountersTyped' BY <1>2, <1>3, InvIs DEF CountersTyped
<1>8. QED BY <1>2, <1>6, <1>7 DEF Grows

LEMMA ExecMessageGrows ==
  ASSUME Inv, ExecMessage
  PROVE  FileTyped' /\ Grows
<1> DEFINE step == Grown(Entry.text, <<>>)
<1>1. /\ FileTyped' /\ agent = "exec" /\ UNCHANGED <<agent, total>> /\ phase' = "reading"
      /\ Entry.text \in Says \cup Replies
  BY ReadTyped, InvIs DEF ExecMessage
<1>2. /\ pending' = <<step>> \/ UNCHANGED pending
      /\ UNCHANGED steps /\ AnyUser
  BY DEF ExecMessage
<1>3. <<>> \in Seq(Calls) OBVIOUS
<1>4. Makes(agent, step) /\ Continues(step, Growing) BY <1>1, <1>3, GrownMakes
<1> HIDE DEF step
<1>5. CASE pending' = <<step>> BY <1>1, <1>2, <1>4, <1>5, GoesOnGrows, AnyUserTyped, InvIs DEF Grows
<1>6. CASE UNCHANGED pending BY <1>1, <1>2, <1>6, StillGrows, AnyUserTyped, InvIs DEF Grows
<1>7. QED BY <1>2, <1>5, <1>6

LEMMA ExecCommandGrows ==
  ASSUME Inv, ExecCommand
  PROVE  FileTyped' /\ Grows
<1> DEFINE grown == Grown(Blank, Entry.calls)
           output == IF Entry.id = 0 THEN <<>> ELSE <<Entry.id>>
           step == [grown EXCEPT !.results = @ \o output]
<1>1. /\ FileTyped' /\ agent = "exec" /\ UNCHANGED <<agent, total>> /\ phase' = "reading"
      /\ Entry.calls \in Seq(Calls) /\ Entry \in LogLines(agent)
  BY ReadTyped, InvIs DEF ExecCommand
<1>2. /\ pending' = <<step>> /\ Called(Entry.calls)
      /\ UNCHANGED <<steps, prompt, sawUsage, task, lastUser>>
  BY DEF ExecCommand
<1>3. Blank \in Says \cup Replies BY DEF Says
<1>4. Makes(agent, grown) /\ Continues(grown, Growing) /\ grown \in Steps
  BY <1>1, <1>3, GrownMakes
<1> HIDE DEF grown
<1>5. output \in Seq(Calls)
  <2>1. Entry.id \in 0..MaxCalls BY <1>1 DEF LogLines
  <2>2. Entry.id # 0 => Entry.id \in Calls BY <2>1, BoundsAssumption DEF Calls
  <2>3. CASE Entry.id = 0 BY <2>3
  <2>4. CASE Entry.id # 0 BY <2>2, <2>4
  <2>5. QED BY <2>3, <2>4
<1> HIDE DEF output
<1>6. /\ grown.results \in Seq(Calls) /\ grown.results \o output \in Seq(Calls)
      /\ IsPrefix(grown.results, grown.results \o output)
  <2>1. grown.results \in Seq(Calls) BY <1>4 DEF Steps
  <2>2. QED BY <1>5, <2>1, GoesOn
<1>7. /\ step \in Steps /\ step.id = grown.id /\ step.source = grown.source
      /\ step.words = grown.words /\ step.calls = grown.calls
      /\ step.results = grown.results \o output
  BY <1>4, <1>6 DEF Steps
<1> HIDE DEF step
<1>8. grown.results = Growing.results
  <2>1. grown = Grown(Blank, Entry.calls) BY DEF grown
  <2>2. QED BY <1>1, <1>3, <2>1, GrownTyped, InvIs
<1>9. Continues(step, Growing) BY <1>4, <1>6, <1>7, <1>8 DEF Continues
<1>10. Makes(agent, step) BY <1>1, <1>7 DEF Makes, Collecting
<1>11. StepsTyped' /\ Advances BY <1>1, <1>2, <1>9, <1>10, GoesOnGrows, InvIs
<1>12. CountersTyped' BY <1>1, <1>2, CallsTyped, InvIs
<1>13. QED BY <1>1, <1>11, <1>12 DEF Grows

LEMMA ExecEndGrows ==
  ASSUME Inv, ExecEnd
  PROVE  FileTyped' /\ Grows
<1> DEFINE filled == [i \in DOMAIN pending |-> [pending[i] EXCEPT !.used = Entry.used]]
           step == [Growing EXCEPT !.used = Entry.used]
<1>1. /\ FileTyped' /\ UNCHANGED <<agent, total>> /\ phase' = "reading" /\ Entry.used \in 0..1
  BY ReadTyped, InvIs DEF ExecEnd
<1>2. /\ steps' = steps \o filled /\ pending' = <<>>
      /\ prompt' = (IF Entry.used > prompt THEN Entry.used ELSE prompt)
      /\ UNCHANGED <<toolCalls, sawUsage, task, lastUser>>
  BY DEF ExecEnd
<1>3. CountersTyped'
  <2>1. prompt' \in Nat BY <1>1, <1>2, InvIs DEF CountersTyped
  <2>2. QED BY <1>1, <1>2, <2>1, InvIs DEF CountersTyped
<1>4. CASE pending = <<>>
  <2>1. filled = <<>> BY <1>4
  <2> HIDE DEF filled
  <2>2. steps \o <<>> = steps BY InvIs DEF StepsTyped
  <2>3. UNCHANGED <<steps, pending>> BY <1>2, <1>4, <2>1, <2>2
  <2>4. QED BY <1>1, <1>3, <2>3, StillGrows DEF Grows
<1>5. CASE pending # <<>>
  <2>1. pending = <<Growing>> /\ Growing \in Steps BY <1>5, PendingIsMade
  <2>2. filled = <<step>> BY <2>1
  <2>3. step \in Steps /\ Continues(step, Growing) BY <1>1, <2>1, UsedExtends
  <2> HIDE DEF filled, step
  <2>4. steps' = Append(steps, step) BY <1>2, <2>2, <2>3, InvIs DEF StepsTyped
  <2>5. StepsTyped' /\ Advances BY <1>2, <2>3, <2>4, EndsGrows, InvIs
  <2>6. QED BY <1>1, <1>3, <2>5 DEF Grows
<1>6. QED BY <1>4, <1>5

(* The task of a turn, if nobody typed it, then the answer in the making.     *)
LEMMA KnitAssistantGrows ==
  ASSUME Inv, KnitAssistant
  PROVE  FileTyped' /\ Grows
<1> DEFINE text == Unless(task, lastUser)
           number == [n \in Nat |-> stepId + 1]
           asked == [i \in 1..Len(Words(text)) |-> Step(number[i], "user", Words(text))]
           id == stepId + Len(Words(text)) + 1
           begun == Step(id, "agent", Words(Entry.text))
           step == [begun EXCEPT !.calls = Entry.calls]
<1>1. /\ FileTyped' /\ agent = "agentknit" /\ UNCHANGED <<agent, total>> /\ phase' = "reading"
      /\ Entry.text \in Says \cup Replies /\ Entry.calls \in Seq(Calls)
  BY ReadTyped, InvIs DEF KnitAssistant
<1>2. task \in Says /\ lastUser \in Says /\ Blank \in Says BY InvIs DEF CountersTyped, Says
<1>3. text \in Says BY <1>2 DEF Unless
<1>4. /\ steps' = Closed \o [i \in 1..Len(Words(text)) |-> Step(stepId + 1, "user", Words(text))]
      /\ pending' = <<step>> /\ lastUser' = (IF Words(text) = <<>> THEN lastUser ELSE task)
      /\ task' = Blank /\ Called(Entry.calls) /\ UNCHANGED <<prompt, sawUsage>>
  BY DEF KnitAssistant
<1> HIDE DEF text
<1>5. asked = [i \in 1..Len(Words(text)) |-> Step(stepId + 1, "user", Words(text))]
  <2>1. Len(Words(text)) \in Nat BY WordsAre
  <2>2. \A i \in 1..Len(Words(text)) : number[i] = stepId + 1 BY <2>1
  <2> HIDE DEF number
  <2>3. QED BY <2>2
<1>6. stepId \in Nat /\ number \in [Nat -> Nat] BY StepIdIsNat, InvIs
<1>7. asked \in Seq(Steps) BY <1>3, <1>6, SaidTyped
<1>8. begun \in Steps /\ begun.results = <<>>
  <2>1. Words(Entry.text) \in Seq(Texts \cup Replies) BY <1>1, WordsTyped
  <2>2. id \in Nat BY <1>6, WordsAre
  <2>3. QED BY <2>1, <2>2, StepTyped
<1> HIDE DEF asked, begun
<1>9. step \in Steps BY <1>1, <1>8 DEF Steps
<1> HIDE DEF step
<1>10. steps' = Closed \o asked BY <1>4, <1>5
<1>11. Closed \in Seq(Steps) /\ steps' \in Seq(Steps) BY <1>7, <1>10, ClosedIs, InvIs
<1>12. Makes(agent, step) BY <1>1, <1>9 DEF Makes, Collecting
<1>13. StepsTyped' BY <1>1, <1>4, <1>9, <1>11, <1>12 DEF StepsTyped
<1>14. Advances
  <2>1. <<step>> \in Seq(Steps) /\ asked \o <<step>> \in Seq(Steps) BY <1>7, <1>9
  <2>2. (Closed \o asked) \o <<step>> = Closed \o (asked \o <<step>>)
    BY <1>7, <1>11, <2>1, ConcatAssociative
  <2>3. Shown' = steps' \o pending' BY DEF Shown
  <2>4. Shown' = Closed \o (asked \o <<step>>) BY <1>4, <1>10, <2>2, <2>3, Zenon
  <2>5. QED BY <2>1, <2>4, Onward, InvIs
<1>15. CountersTyped'
  <2>1. toolCalls \in Nat /\ Len(Entry.calls) \in Nat BY <1>1, InvIs DEF CountersTyped
  <2>2. toolCalls' \in Nat BY <1>4, <2>1 DEF Called
  <2>3. QED BY <1>1, <1>2, <1>4, <2>2, InvIs DEF CountersTyped
<1>16. QED BY <1>1, <1>13, <1>14, <1>15 DEF Grows

LEMMA CopilotTurnGrows ==
  ASSUME Inv, CopilotTurn
  PROVE  FileTyped' /\ Grows
<1> DEFINE said == Words(Entry.text)
           answer == Words(Entry.reply)
           number == [n \in Nat |-> stepId + 1]
           next == [n \in Nat |-> stepId + Len(said) + 1]
           asked == [i \in 1..Len(said) |-> Step(number[i], "user", said)]
           told == [i \in 1..Len(answer) |-> Step(next[i], "agent", answer)]
<1>1. /\ FileTyped' /\ agent = "copilot_db" /\ UNCHANGED <<agent, total>> /\ phase' = "reading"
      /\ Entry.text \in Says \cup Replies /\ Entry.reply \in Answers
  BY ReadTyped, InvIs DEF CopilotTurn
<1>2. /\ steps' = steps \o [i \in 1..Len(said) |-> Step(stepId + 1, "user", said)]
                        \o [i \in 1..Len(answer) |->
                              Step(stepId + Len(said) + 1, "agent", answer)]
      /\ UNCHANGED pending /\ AnyUser
  BY DEF CopilotTurn
<1>3. pending = <<>> BY <1>1, InvIs DEF IInv
<1>4. Len(said) \in Nat /\ Len(answer) \in Nat BY WordsAre
<1>5. /\ asked = [i \in 1..Len(said) |-> Step(stepId + 1, "user", said)]
      /\ told = [i \in 1..Len(answer) |-> Step(stepId + Len(said) + 1, "agent", answer)]
  <2>1. \A i \in 1..Len(said) : number[i] = stepId + 1 BY <1>4
  <2>2. \A i \in 1..Len(answer) : next[i] = stepId + Len(said) + 1 BY <1>4
  <2> HIDE DEF number, next, said, answer
  <2>3. QED BY <2>1, <2>2
<1>6. stepId \in Nat BY StepIdIsNat, InvIs
<1>7. number \in [Nat -> Nat] BY <1>6
<1>8. next \in [Nat -> Nat]
  <2>1. stepId + Len(said) + 1 \in Nat BY <1>4, <1>6
  <2> HIDE DEF said
  <2>2. QED BY <2>1
<1>9. Entry.reply \in Says \cup Replies BY <1>1 DEF Answers, Says
<1> HIDE DEF number, next
<1>10. asked \in Seq(Steps) BY <1>1, <1>7, SaidTyped
<1>11. told \in Seq(Steps) BY <1>8, <1>9, SaidTyped
<1>12. steps' = (steps \o asked) \o told BY <1>2, <1>5
<1> HIDE DEF asked, told, said, answer
<1>13. steps \in Seq(Steps) BY InvIs DEF StepsTyped
<1>14. steps' = steps \o (asked \o told) /\ asked \o told \in Seq(Steps)
  BY <1>10, <1>11, <1>12, <1>13, ConcatAssociative
<1>15. steps' \in Seq(Steps) BY <1>13, <1>14
<1>16. StepsTyped' BY <1>2, <1>3, <1>15 DEF StepsTyped
<1>17. Shown' = steps' BY <1>2, <1>3, <1>15 DEF Shown
<1>18. Advances BY <1>3, <1>14, <1>17 DEF Advances
<1>19. CountersTyped' BY <1>1, <1>2, AnyUserTyped, InvIs
<1>20. QED BY <1>1, <1>16, <1>18, <1>19 DEF Grows

LEMMA CloseGrows ==
  ASSUME Inv, Close
  PROVE  FileTyped' /\ Grows
<1>1. /\ Flush /\ phase' = "done"
      /\ total' = (LET counted == IF agent = "hermes" THEN spent ELSE prompt
                   IN  IF counted > 0 \/ sawUsage THEN counted ELSE Estimate(Closed))
      /\ UNCHANGED <<agent, log, torn, made, unanswered, spent, pos, results, toolCalls, prompt,
                     sawUsage, task, lastUser>>
  BY DEF Close, file
<1>2. phase = "reading" BY DEF Close
<1>3. FileTyped' BY <1>1, <1>2, InvIs DEF FileTyped
<1>4. StepsTyped' /\ Advances BY <1>1, FlushGrows, InvIs
<1>5. total' \in Nat
  <2>1. Estimate(Closed) \in Nat BY ClosedIs, EstimateIsNat, InvIs
  <2>2. spent \in Nat /\ prompt \in Nat BY InvIs DEF FileTyped, CountersTyped
  <2>3. QED BY <1>1, <2>1, <2>2
<1>6. CountersTyped' BY <1>1, <1>5, InvIs DEF CountersTyped
<1>7. QED BY <1>3, <1>4, <1>6 DEF Grows

LEMMA ResumeTyped ==
  ASSUME Inv, Resume
  PROVE  FileTyped' /\ StepsTyped' /\ CountersTyped'
<1>1. /\ phase' = "writing" /\ pos' = 1 /\ results' = {} /\ steps' = <<>> /\ pending' = <<>>
      /\ toolCalls' = 0 /\ prompt' = 0 /\ total' = 0 /\ sawUsage' = FALSE
      /\ task' = Blank /\ lastUser' = Blank
      /\ UNCHANGED <<agent, log, torn, made, unanswered, spent>>
  BY DEF Resume, file
<1>2. Len(log) \in Nat BY InvIs DEF FileTyped
<1>3. 1 \in 1..Len(log) + 1 BY <1>2
<1>4. FileTyped' BY <1>1, <1>3, InvIs DEF FileTyped
<1>5. <<>> \in Seq(Steps) OBVIOUS
<1>6. StepsTyped' BY <1>1, <1>5 DEF StepsTyped
<1>7. CountersTyped' BY <1>1 DEF CountersTyped, Says
<1>8. QED BY <1>4, <1>6, <1>7

LEMMA FileGrows ==
  ASSUME Inv, (\E e \in Entries : Write(e)) \/ Crash \/ Open \/ UNCHANGED vars
  PROVE  FileTyped' /\ Grows
<1>1. FileTyped'
  <2>1. CASE UNCHANGED vars BY <2>1, InvIs DEF FileTyped, vars, file
  <2>2. QED BY <2>1, WriteTyped, CrashTyped, OpenTyped, InvIs
<1>2. /\ UNCHANGED <<agent, steps, pending, toolCalls, prompt, sawUsage, task, lastUser, total>>
      /\ phase' = "done" => phase = "done"
  BY DEF Write, Crash, Open, vars, file, parsed
<1>3. CountersTyped' BY <1>2, InvIs DEF CountersTyped
<1>4. QED BY <1>1, <1>2, <1>3, StillGrows DEF Grows

-----------------------------------------------------------------------------
(* The initial states, the steps, and what follows *)

LEMMA InitTyped == Init => Inv
<1>1. HAVE Init
<1>2. Len(<<>>) = 0 /\ <<>> \in Seq(LogLines(agent)) /\ <<>> \in Seq(Steps) OBVIOUS
<1>3. FileTyped
  <2>1. 0 \in 0..MaxCalls /\ 1 \in 1..0 + 1 BY BoundsAssumption
  <2>2. QED BY <1>1, <1>2, <2>1 DEF Init, FileTyped
<1>4. StepsTyped BY <1>1, <1>2 DEF Init, StepsTyped
<1>5. CountersTyped BY <1>1 DEF Init, CountersTyped, Says
<1>6. QED BY <1>1, <1>3, <1>4, <1>5, InitSafe DEF Inv, TInv

LEMMA NextGrows == Inv /\ [Next]_vars => Inv' /\ (Resume \/ Advances)
<1>1. SUFFICES ASSUME Inv, [Next]_vars PROVE Inv' /\ (Resume \/ Advances)
  OBVIOUS
<1>2. FileTyped' /\ ((Resume /\ StepsTyped' /\ CountersTyped') \/ Grows)
  BY <1>1, ResumeTyped, SilentEntriesGrow, ProbeUsageGrows, KnitTaskGrows, UserEntriesGrow,
     KnitUserGrows, EndsOfTurnsGrow, CallsAndMessagesGrow, ClaudeAssistantGrows, HermesAssistantGrows,
     ProbeAssistantGrows, CodexUsageGrows, ResultEntriesGrow, ExecMessageGrows,
     ExecCommandGrows, ExecEndGrows, KnitAssistantGrows, CopilotTurnGrows, CloseGrows, FileGrows
  DEF Next
<1>3. IInv' BY <1>1, NextSafe, InvIs
<1>4. QED BY <1>2, <1>3 DEF Inv, TInv, Grows

LEMMA NextTyped == Inv /\ [Next]_vars => Inv'
BY NextGrows

-----------------------------------------------------------------------------
(* What was read before: the log begins with it, and lines that do not parse  *)
(* are not in it.                                                             *)

Whole(lines) == \A i \in DOMAIN lines : lines[i].kind # "torn"

EInv ==
  /\ heard \in Seq(LogLines(agent)) /\ before \in Seq(Steps)
  /\ Begins(heard, log) /\ Whole(heard) /\ (agent = "exec" => heard = <<>>)
  /\ phase # "writing" => Whole(log)

(* A file is read entry by entry; the rest is done to it.                     *)
Handles == \E format, kind : Read(format, kind)

LEMMA NextHandles ==
  Next => (\E e \in Entries : Write(e)) \/ Crash \/ Open \/ Close \/ Resume \/ Handles
<1>1. \/ ClaudeUser \/ ClaudeResult \/ ClaudeAssistant \/ ClaudeOther
      \/ CodexUser \/ CodexMessage \/ CodexCall \/ CodexResult \/ CodexUsage \/ CodexEnd
      \/ CopilotUser \/ CopilotMessage \/ CopilotResult \/ CopilotEnd \/ CopilotTurn
      => Handles
  BY DEF Handles, ClaudeUser, ClaudeResult, ClaudeAssistant, ClaudeOther, CodexUser,
         CodexMessage, CodexCall, CodexResult, CodexUsage, CodexEnd, CopilotUser,
         CopilotMessage, CopilotResult, CopilotEnd, CopilotTurn
<1>2. \/ HermesUser \/ HermesAssistant \/ HermesTool
      \/ ProbeUser \/ ProbeCall \/ ProbeResult \/ ProbeAssistant \/ ProbeUsage
      \/ KnitTask \/ KnitUser \/ KnitAssistant \/ KnitTool
      \/ ExecPrompt \/ ExecMessage \/ ExecCommand \/ ExecEnd
      => Handles
  BY DEF Handles, HermesUser, HermesAssistant, HermesTool, ProbeUser, ProbeCall, ProbeResult,
         ProbeAssistant, ProbeUsage, KnitTask, KnitUser, KnitAssistant, KnitTool, ExecPrompt,
         ExecMessage, ExecCommand, ExecEnd
<1>3. QED BY <1>1, <1>2, Zenon DEF Next

(* The lines that parse begin with those at the head of the file that do.     *)
LEMMA ChosenBegins ==
  ASSUME NEW T, NEW s \in Seq(T), NEW S, NEW n \in 0..Len(s), \A i \in 1..n : s[i] \in S
  PROVE  /\ n <= Len(Chosen(s, S))
         /\ \A i \in 1..n : Chosen(s, S)[i] = s[i]
<1>1. PICK f \in [0..Len(s) -> Seq(T)] :
        ChosenTo(f, s, S, Len(s)) /\ Chosen(s, S) = f[Len(s)]
  BY ChosenIs
<1>2. Len(s) \in Nat /\ Len(s) \in 0..Len(s) /\ n \in Nat /\ n <= Len(s) OBVIOUS
<1> DEFINE Begun(x, k) == /\ k <= n => Len(x) = k
                          /\ n <= k => n <= Len(x)
                          /\ \A i \in 1..n : i <= k => x[i] = s[i]
           N == {k \in Nat : k <= Len(s) => Begun(f[k], k)}
<1>3. 0 \in N
  <2>1. f[0] = <<>> /\ Len(f[0]) = 0 BY <1>1, <1>2 DEF ChosenTo
  <2>2. \A i \in 1..n : ~(i <= 0) OBVIOUS
  <2>3. Begun(f[0], 0) BY <1>2, <2>1, <2>2
  <2>4. QED BY <2>3
<1>4. ASSUME NEW k \in Nat, k \in N PROVE k + 1 \in N
  <2>1. SUFFICES ASSUME k + 1 <= Len(s) PROVE Begun(f[k + 1], k + 1)
    OBVIOUS
  <2>2. /\ k <= Len(s) /\ k \in 0..Len(s) /\ k + 1 \in 0..Len(s) /\ k + 1 # 0
        /\ (k + 1) - 1 = k /\ k + 1 \in 1..Len(s)
    BY <1>2, <2>1
  <2>3. f[k + 1] = IF s[k + 1] \in S THEN Append(f[k], s[k + 1]) ELSE f[k]
    BY <1>1, <2>2 DEF ChosenTo
  <2>4. PICK x \in Seq(T) : x = f[k] BY <2>2
  <2>5. Begun(x, k) BY <1>4, <2>2, <2>4
  <2>6. Len(x) \in Nat OBVIOUS
  <2>7. CASE s[k + 1] \in S
    <3>1. PICK y \in T : y = s[k + 1] BY <2>2
    <3>2. /\ Len(Append(x, y)) = Len(x) + 1 /\ Append(x, y)[Len(x) + 1] = y
          /\ \A i \in 1..Len(x) : Append(x, y)[i] = x[i]
      BY AppendProperties
    <3>3. f[k + 1] = Append(x, y) BY <2>3, <2>4, <2>7, <3>1
    <3>4. ASSUME NEW i \in 1..n, i <= k + 1 PROVE Append(x, y)[i] = s[i]
      <4>1. CASE i <= k
        <5>1. i \in 1..Len(x) BY <1>2, <2>5, <2>6, <4>1
        <5>2. QED BY <2>5, <3>2, <4>1, <5>1
      <4>2. CASE i = k + 1
        <5>1. k <= n /\ Len(x) = k BY <1>2, <2>5, <3>4, <4>2
        <5>2. Append(x, y)[k + 1] = y BY <3>2, <5>1
        <5>3. s[k + 1] = y /\ s[i] = s[k + 1] /\ Append(x, y)[i] = Append(x, y)[k + 1] BY <3>1, <4>2
        <5>4. QED BY <5>2, <5>3
      <4>3. i \in Nat /\ (i <= k \/ i = k + 1) BY <1>2, <3>4
      <4>4. QED BY <4>1, <4>2, <4>3
    <3>5. k + 1 <= n => Len(Append(x, y)) = k + 1 BY <1>2, <2>5, <2>6, <3>2
    <3>6. n <= k + 1 => n <= Len(Append(x, y)) BY <1>2, <2>5, <2>6, <3>2
    <3>7. QED BY <3>3, <3>4, <3>5, <3>6
  <2>8. CASE s[k + 1] \notin S
    <3>1. ~(k + 1 <= n) BY <1>2, <2>8
    <3>2. n <= k BY <1>2, <3>1
    <3>3. \A i \in 1..n : i <= k BY <1>2, <3>2
    <3>4. f[k + 1] = x BY <2>3, <2>4, <2>8
    <3>5. QED BY <2>5, <3>1, <3>2, <3>3, <3>4
  <2>9. QED BY <2>7, <2>8
<1> HIDE DEF N
<1>5. Len(s) \in N BY <1>2, <1>3, <1>4, EveryNumber
<1>6. Begun(f[Len(s)], Len(s)) BY <1>2, <1>5 DEF N
<1>7. QED BY <1>1, <1>2, <1>6

LEMMA InitEarlier == Init => EInv
<1>1. SUFFICES ASSUME Init PROVE EInv
  OBVIOUS
<1>2. <<>> \in Seq(LogLines(agent)) /\ <<>> \in Seq(Steps) /\ Len(<<>>) = 0 /\ 1..0 = {}
  OBVIOUS
<1>3. QED BY <1>1, <1>2 DEF Init, EInv, Begins, Whole

LEMMA WritesEarlier ==
  ASSUME FileTyped, FileTyped', EInv, NEW e, log' = log \/ log' = Append(log, e),
         phase' = "writing", UNCHANGED <<agent, heard, before>>
  PROVE  EInv'
<1>1. /\ log \in Seq(LogLines(agent)) /\ log' \in Seq(LogLines(agent))
      /\ Len(heard) \in Nat /\ Len(log) \in Nat
  BY DEF FileTyped, EInv
<1>2. CASE log' = Append(log, e)
  <2>1. Len(log') = Len(log) + 1 /\ \A i \in 1..Len(log) : log'[i] = log[i]
    BY <1>1, <1>2
  <2>2. Len(heard) <= Len(log) /\ \A i \in 1..Len(heard) : log[i] = heard[i]
    BY DEF EInv, Begins
  <2>3. 1..Len(heard) \subseteq 1..Len(log) BY <1>1, <2>2
  <2>4. Len(heard) <= Len(log') /\ \A i \in 1..Len(heard) : log'[i] = heard[i]
    BY <1>1, <2>1, <2>2, <2>3
  <2>5. QED BY <2>4 DEF EInv, Begins, Whole
<1>3. CASE log' = log BY <1>3 DEF EInv, Begins, Whole
<1>4. QED BY <1>2, <1>3

LEMMA OpenEarlier ==
  ASSUME FileTyped, EInv, Open
  PROVE  EInv'
<1>1. log' = Loaded(log) /\ UNCHANGED <<agent, heard, before>> BY DEF Open, earlier
<1>2. log \in Seq(LogLines(agent)) BY DEF FileTyped
<1>3. Begins(heard, log') /\ Whole(log')
  <2>1. CASE agent = "exec"
    <3>1. heard = <<>> /\ Len(heard) = 0 /\ 1..0 = {} BY <2>1 DEF EInv
    <3>2. log' = ExecLoaded(log) BY <1>1, <2>1 DEF Loaded
    <3>3. Whole(log') BY <3>2 DEF ExecLoaded, Whole
    <3>4. Len(log') \in Nat
      <4>1. log' = <<>> \/ log' = log BY <3>2 DEF ExecLoaded
      <4>2. Len(<<>>) = 0 /\ Len(log) \in Nat BY <1>2
      <4>3. QED BY <4>1, <4>2
    <3>5. QED BY <3>1, <3>3, <3>4 DEF Begins
  <2>2. CASE agent # "exec"
    <3> DEFINE S == {e \in ToSet(log) : e.kind # "torn"}
    <3>1. log' = Chosen(log, S) BY <1>1, <2>2 DEF Loaded
    <3>2. /\ Len(heard) \in Nat /\ Len(log) \in Nat /\ Len(heard) <= Len(log)
          /\ \A i \in 1..Len(heard) : log[i] = heard[i]
      BY <1>2 DEF EInv, Begins
    <3>3. ASSUME NEW i \in 1..Len(heard) PROVE log[i] \in S
      <4>1. i \in 1..Len(log) /\ i \in DOMAIN heard /\ i \in DOMAIN log
        BY <1>2, <3>2 DEF EInv
      <4>2. log[i].kind # "torn" BY <3>2, <4>1 DEF EInv, Whole
      <4>3. log[i] \in ToSet(log) BY <4>1 DEF ToSet
      <4>4. QED BY <4>2, <4>3
    <3>4. Chosen(log, S) \in Seq(LogLines(agent)) /\ ToSet(Chosen(log, S)) = ToSet(log) \cap S
      BY <1>2, ChosenFacts
    <3>5. Whole(log')
      <4>1. \A i \in DOMAIN log' : log'[i] \in S BY <3>1, <3>4 DEF ToSet
      <4>2. QED BY <4>1 DEF Whole
    <3> HIDE DEF S
    <3>6. PICK n \in 0..Len(log) : n = Len(heard) BY <3>2
    <3>7. \A i \in 1..n : log[i] \in S BY <3>3, <3>6
    <3>8. /\ n <= Len(Chosen(log, S))
          /\ \A i \in 1..n : Chosen(log, S)[i] = log[i]
      BY <1>2, <3>7, ChosenBegins
    <3>9. Begins(heard, log') BY <3>1, <3>2, <3>6, <3>8 DEF Begins
    <3>10. QED BY <3>5, <3>9
  <2>3. QED BY <2>1, <2>2
<1>4. QED BY <1>1, <1>3 DEF EInv, Begins, Whole

LEMMA ResumeEarlier ==
  ASSUME Inv, EInv, Resume
  PROVE  EInv'
<1>1. /\ heard' = log /\ before' = steps /\ phase = "done" /\ agent # "exec"
      /\ UNCHANGED <<agent, log>> /\ phase' = "writing"
  BY DEF Resume, file
<1>2. log \in Seq(LogLines(agent)) /\ steps \in Seq(Steps) /\ Whole(log)
  BY <1>1, InvIs DEF FileTyped, StepsTyped, EInv
<1>3. Begins(log, log) BY <1>2 DEF Begins
<1>4. QED BY <1>1, <1>2, <1>3 DEF EInv, Begins, Whole

LEMMA NextEarlier == Inv /\ EInv /\ [Next]_vars => EInv'
<1>1. SUFFICES ASSUME Inv, EInv, [Next]_vars PROVE EInv'
  OBVIOUS
<1>2. CASE \E e \in Entries : Write(e)
  <2>1. PICK e \in Entries : Write(e) BY <1>2
  <2>2. /\ log' = log \/ log' = Append(log, e)
        /\ phase' = "writing" /\ UNCHANGED <<agent, heard, before>>
    BY <2>1 DEF Write, earlier
  <2>3. FileTyped /\ FileTyped' BY <1>1, <1>2, WriteTyped, InvIs
  <2>4. QED BY <1>1, <2>2, <2>3, WritesEarlier
<1>3. CASE Crash
  <2>1. log' = Append(log, Torn) /\ phase' = "writing" /\ UNCHANGED <<agent, heard, before>>
    BY <1>3 DEF Crash, earlier
  <2>2. FileTyped /\ FileTyped' BY <1>1, <1>3, CrashTyped, InvIs
  <2>3. QED BY <1>1, <2>1, <2>2, WritesEarlier
<1>4. CASE Handles
  <2>1. UNCHANGED <<agent, log, phase, heard, before>>
    BY <1>4 DEF Handles, Read, file, earlier
  <2>2. QED BY <1>1, <2>1 DEF EInv, Begins, Whole
<1>5. CASE Close
  <2>1. UNCHANGED <<agent, log, heard, before>> /\ phase = "reading"
    BY <1>5 DEF Close, file, earlier
  <2>2. QED BY <1>1, <2>1 DEF EInv, Begins, Whole
<1>6. CASE UNCHANGED vars
  <2>1. UNCHANGED <<agent, log, phase, heard, before>> BY <1>6 DEF vars, file, earlier
  <2>2. QED BY <1>1, <2>1 DEF EInv, Begins, Whole
<1>7. QED BY <1>1, <1>2, <1>3, <1>4, <1>5, <1>6, NextHandles, OpenEarlier, ResumeEarlier, InvIs

LEMMA InvTypes == Inv /\ EInv => TypeOK
<1>1. SUFFICES ASSUME Inv, EInv PROVE TypeOK
  OBVIOUS
<1>2. FileTyped /\ StepsTyped /\ CountersTyped /\ stepId \in Nat
  BY <1>1, InvIs, StepIdIsNat
<1>3. \A i \in DOMAIN log : log[i].kind \in Kinds[agent] \cup {"torn"}
  <2>1. SUFFICES ASSUME NEW i \in DOMAIN log PROVE log[i].kind \in Kinds[agent] \cup {"torn"}
    OBVIOUS
  <2>2. log[i] \in LogLines(agent) BY <1>2 DEF FileTyped
  <2>3. QED BY <2>2 DEF LogLines
<1>4. pending \in Seq(Steps) /\ Len(pending) <= 1
  <2>1. CASE pending = <<>> BY <2>1
  <2>2. CASE \E step \in Steps : pending = <<step>> BY <2>2
  <2>3. QED BY <1>2, <2>1, <2>2 DEF StepsTyped
<1>5. IsPrefix(heard, log) /\ before \in Seq(Steps)
  <2>1. heard \in Seq(LogLines(agent)) /\ log \in Seq(LogLines(agent)) /\ Begins(heard, log)
    BY <1>1, <1>2 DEF EInv, FileTyped
  <2>2. QED BY <1>1, <2>1, BeginsIsPrefix DEF EInv
<1>6. QED BY <1>2, <1>3, <1>4, <1>5 DEF TypeOK, FileTyped, StepsTyped, CountersTyped

(* Every variable has its type, and no step is open when a parser is done,    *)
(* whatever an agent wrote and wherever it was killed.                        *)
THEOREM TypeCorrect == Spec => []TypeOK
<1>1. Init => Inv /\ EInv BY InitTyped, InitEarlier
<1>2. Inv /\ EInv /\ [Next]_vars => (Inv /\ EInv)'
  <2>1. Inv /\ [Next]_vars => Inv' BY NextTyped
  <2>2. QED BY <2>1, NextEarlier
<1>3. Inv /\ EInv => TypeOK BY InvTypes
<1>4. QED BY <1>1, <1>2, <1>3, PTL DEF Spec

(* What is shown grows: by new steps, and the last one by what it is given.   *)
GrowsTo(s, t) ==
  /\ Len(s) <= Len(t)
  /\ \A i \in DOMAIN s : Continues(t[i], s[i]) /\ (i < Len(s) => t[i] = s[i])

LEMMA MoreGrows ==
  ASSUME NEW s \in Seq(Steps), NEW more \in Seq(Steps)
  PROVE  GrowsTo(s, s \o more)
<1>1. /\ Len(s \o more) = Len(s) + Len(more) /\ Len(s) \in Nat /\ Len(more) \in Nat
      /\ \A i \in 1..Len(s) : (s \o more)[i] = s[i]
  BY ConcatProperties
<1>2. \A i \in 1..Len(s) : Continues(s[i], s[i])
  <2>1. \A i \in 1..Len(s) : s[i] \in Steps OBVIOUS
  <2>2. QED BY <2>1, ExtendsItself
<1>3. DOMAIN s = 1..Len(s) OBVIOUS
<1>4. QED BY <1>1, <1>2, <1>3 DEF GrowsTo

LEMMA LastGrows ==
  ASSUME NEW s \in Seq(Steps), NEW old \in Steps, NEW new \in Steps, Continues(new, old),
         NEW more \in Seq(Steps)
  PROVE  GrowsTo(s \o <<old>>, Append(s, new) \o more)
<1> DEFINE was == s \o <<old>>
           begun == Append(s, new)
           is == begun \o more
<1>1. /\ was \in Seq(Steps) /\ Len(was) = Len(s) + 1 /\ was[Len(s) + 1] = old
      /\ \A i \in 1..Len(s) : was[i] = s[i]
  OBVIOUS
<1>2. /\ begun \in Seq(Steps) /\ Len(begun) = Len(s) + 1 /\ begun[Len(s) + 1] = new
      /\ \A i \in 1..Len(s) : begun[i] = s[i]
  OBVIOUS
<1> HIDE DEF was, begun
<1>3. /\ Len(is) = Len(begun) + Len(more) /\ Len(begun) \in Nat /\ Len(more) \in Nat
      /\ \A i \in 1..Len(begun) : is[i] = begun[i]
  <2>1. begun \in Seq(Steps) /\ more \in Seq(Steps) BY <1>2
  <2>2. /\ Len(is) = Len(begun) + Len(more) /\ Len(begun) \in Nat /\ Len(more) \in Nat
        /\ \A i \in 1..Len(begun) + Len(more) :
             is[i] = IF i <= Len(begun) THEN begun[i] ELSE more[i - Len(begun)]
    BY <2>1, ConcatProperties
  <2> HIDE DEF is
  <2>3. \A i \in 1..Len(begun) : i \in 1..Len(begun) + Len(more) /\ i <= Len(begun)
    BY <2>2
  <2>4. QED BY <2>2, <2>3
<1> HIDE DEF is
<1>4. ASSUME NEW i \in DOMAIN was
      PROVE  Continues(is[i], was[i]) /\ (i < Len(was) => is[i] = was[i])
  <2>1. Len(s) \in Nat /\ i \in 1..Len(s) + 1 /\ is[i] = begun[i] BY <1>1, <1>2, <1>3
  <2>2. CASE i = Len(s) + 1 BY <1>1, <1>2, <2>1, <2>2
  <2>3. CASE i \in 1..Len(s)
    <3>1. is[i] = s[i] /\ was[i] = s[i] /\ s[i] \in Steps BY <1>1, <1>2, <2>1, <2>3
    <3>2. QED BY <3>1, ExtendsItself
  <2>4. QED BY <2>1, <2>2, <2>3
<1>5. Len(was) <= Len(is) BY <1>1, <1>2, <1>3
<1>6. GrowsTo(was, is) BY <1>4, <1>5 DEF GrowsTo
<1>7. QED BY <1>6 DEF was, is, begun

LEMMA AdvancesGrows ==
  ASSUME Inv, Advances
  PROVE  GrowsTo(Shown, Shown')
<1>1. steps \in Seq(Steps) BY InvIs DEF StepsTyped
<1>2. CASE pending = <<>> /\ \E more \in Seq(Steps) : Shown' = steps \o more
  <2>1. Shown = steps BY <1>1, <1>2 DEF Shown
  <2>2. PICK more \in Seq(Steps) : Shown' = steps \o more BY <1>2
  <2>3. GrowsTo(steps, steps \o more) BY <1>1, MoreGrows
  <2>4. QED BY <2>1, <2>2, <2>3, Zenon
<1>3. CASE \E old, new \in Steps, more \in Seq(Steps) :
             pending = <<old>> /\ Continues(new, old) /\ Shown' = Append(steps, new) \o more
  <2>1. PICK old \in Steps, new \in Steps, more \in Seq(Steps) :
          pending = <<old>> /\ Continues(new, old) /\ Shown' = Append(steps, new) \o more
    BY <1>3
  <2>2. Shown = steps \o <<old>> BY <2>1, Zenon DEF Shown
  <2>3. GrowsTo(steps \o <<old>>, Append(steps, new) \o more) BY <1>1, <2>1, LastGrows
  <2>4. QED BY <2>1, <2>2, <2>3, Zenon
<1>4. QED BY <1>2, <1>3 DEF Advances

(* While a file is parsed, what is shown only grows: no step is lost or       *)
(* renumbered, one that another follows stays as it is, and the words, calls  *)
(* and results of the last one only grow.  A parser touches no step that it   *)
(* closed; what a later parse of the file shows is another matter.            *)
THEOREM StepsGrow == Spec => [][Resume \/ GrowsTo(Shown, Shown')]_vars
<1>1. Init => Inv BY InitTyped
<1>2. Inv /\ [Next]_vars => Inv' BY NextTyped
<1>3. Inv /\ [Next]_vars => [Resume \/ GrowsTo(Shown, Shown')]_vars
  <2>1. SUFFICES ASSUME Inv, [Next]_vars, ~Resume
                 PROVE  GrowsTo(Shown, Shown')
    OBVIOUS
  <2>2. Advances BY <2>1, NextGrows
  <2>3. QED BY <2>1, <2>2, AdvancesGrows
<1>4. QED BY <1>1, <1>2, <1>3, PTL DEF Spec

-----------------------------------------------------------------------------
(* Results are with their calls.  In the log: a call is made once; in the     *)
(* output of codex exec a command comes with its own output; and agentknit    *)
(* answers the calls of a message before it says anything else, so that what  *)
(* comes between a call and its result is more results, or half a line.       *)

CallsOf(r) == ToSet(r.calls)
ResultsOf(step) == ToSet(step.results)

MadeOnce(lines) ==
  \A i, j \in DOMAIN lines : i # j => CallsOf(lines[i]) \cap CallsOf(lines[j]) = {}

OwnOutput(lines) ==
  \A i \in DOMAIN lines :
    lines[i].kind = "ran" => lines[i].id = 0 \/ CallsOf(lines[i]) = {lines[i].id}

Between(lines, q, p) == \A k \in q + 1..p - 1 : lines[k].kind \in {"result", "torn"}

Callers(lines) ==
  \A i \in DOMAIN lines : CallsOf(lines[i]) # {} => lines[i].kind \in {"assistant", "call", "ran"}

InTurn(lines) ==
  \A p, q \in DOMAIN lines :
    lines[p].kind = "result" /\ lines[p].id \in CallsOf(lines[q]) => q < p /\ Between(lines, q, p)

(* A call that runs is the last thing that the agent said.                    *)
Running ==
  \A q \in DOMAIN log : CallsOf(log[q]) \cap unanswered # {} => Between(log, q, Len(log) + 1)

LogFacts(lines) ==
  /\ MadeOnce(lines) /\ OwnOutput(lines) /\ Callers(lines)
  /\ agent = "agentknit" => InTurn(lines)

OfCallsMade ==
  /\ \A i \in DOMAIN log : CallsOf(log[i]) \subseteq 1..made
  /\ \A i \in DOMAIN log : log[i].kind = "result" => log[i].id \in 1..made
  /\ unanswered \subseteq 1..made
  /\ agent = "agentknit" => Running

LogInv ==
  /\ LogFacts(log) /\ OfCallsMade
  /\ phase = "writing" => steps = <<>> /\ pending = <<>>
  /\ phase # "writing" => results = ToolResults(log)
  /\ phase = "done" => pos > Len(log)

(* In the steps: what was read of the calls and the results so far.           *)
Known == ToSet(steps) \cup ToSet(pending)
ReadCalls == UNION {CallsOf(log[i]) : i \in 1..pos - 1}
ReadResults == {log[i].id : i \in {j \in 1..pos - 1 : log[j].kind \in {"result", "ran"}}}

CallsInv ==
  /\ \A s \in Known : CallsOf(s) \subseteq ReadCalls
  /\ \A s, t \in Known : s.id # t.id => CallsOf(s) \cap CallsOf(t) = {}

(* Results looked up when a step is closed.                                   *)
LookedUp == \A s \in ToSet(steps) : ResultsOf(s) = CallsOf(s) \cap results

(* Results read as they come.                                                 *)
Collected ==
  /\ \A s \in Known : /\ ResultsOf(s) \subseteq ReadResults
                      /\ CallsOf(s) \cap ReadResults \subseteq ResultsOf(s)
  /\ \A s, t \in Known : s.id # t.id => ResultsOf(s) \cap CallsOf(t) = {}

(* The message whose calls may still be answered is in the making.            *)
Answering ==
  \A q \in 1..pos - 1 :
    CallsOf(log[q]) # {} /\ Between(log, q, pos) =>
      \E step \in ToSet(pending) : CallsOf(log[q]) \subseteq CallsOf(step)

AInv ==
  /\ LogInv
  /\ agent # "agent_probe" => CallsInv
  /\ agent \notin Collecting => LookedUp
  /\ agent \in {"agentknit", "exec"} => Collected
  /\ agent = "agentknit" /\ phase = "reading" => Answering

LEMMA SetOfConcat ==
  ASSUME NEW T, NEW s \in Seq(T), NEW t \in Seq(T)
  PROVE  ToSet(s \o t) = ToSet(s) \cup ToSet(t)
<1> DEFINE u == s \o t
<1>1. /\ u \in Seq(T) /\ Len(u) = Len(s) + Len(t) /\ Len(s) \in Nat /\ Len(t) \in Nat
      /\ \A i \in 1..Len(s) + Len(t) : u[i] = IF i <= Len(s) THEN s[i] ELSE t[i - Len(s)]
  BY ConcatProperties
<1>2. DOMAIN u = 1..Len(s) + Len(t) /\ DOMAIN s = 1..Len(s) /\ DOMAIN t = 1..Len(t)
  BY <1>1
<1> HIDE DEF u
<1>3. ASSUME NEW i \in DOMAIN u PROVE u[i] \in ToSet(s) \cup ToSet(t)
  <2>1. CASE i <= Len(s)
    <3>1. i \in DOMAIN s /\ u[i] = s[i] BY <1>1, <1>2, <2>1
    <3>2. QED BY <3>1 DEF ToSet
  <2>2. CASE ~(i <= Len(s))
    <3>1. i - Len(s) \in DOMAIN t /\ u[i] = t[i - Len(s)] BY <1>1, <1>2, <2>2
    <3>2. QED BY <3>1 DEF ToSet
  <2>3. QED BY <2>1, <2>2
<1>4. ASSUME NEW i \in DOMAIN s PROVE s[i] \in ToSet(u)
  <2>1. i \in DOMAIN u /\ u[i] = s[i] BY <1>1, <1>2
  <2>2. QED BY <2>1 DEF ToSet
<1>5. ASSUME NEW i \in DOMAIN t PROVE t[i] \in ToSet(u)
  <2>1. Len(s) + i \in DOMAIN u /\ ~(Len(s) + i <= Len(s)) /\ (Len(s) + i) - Len(s) = i
    BY <1>1, <1>2
  <2>2. u[Len(s) + i] = t[i] BY <1>1, <1>2, <2>1
  <2>3. QED BY <2>1, <2>2 DEF ToSet
<1>6. ToSet(u) = ToSet(s) \cup ToSet(t) BY <1>3, <1>4, <1>5 DEF ToSet
<1>7. QED BY <1>6 DEF u

LEMMA SetOfNone == ToSet(<<>>) = {}
BY DEF ToSet

LEMMA SetOfOne ==
  ASSUME NEW x
  PROVE  ToSet(<<x>>) = {x}
<1>1. DOMAIN <<x>> = {1} /\ <<x>>[1] = x OBVIOUS
<1>2. ToSet(<<x>>) = {<<x>>[i] : i \in {1}} BY <1>1 DEF ToSet
<1>3. QED BY <1>1, <1>2, Zenon

LEMMA SetOfAppend ==
  ASSUME NEW T, NEW s \in Seq(T), NEW x \in T
  PROVE  ToSet(Append(s, x)) = ToSet(s) \cup {x}
<1>1. Append(s, x) = s \o <<x>> /\ <<x>> \in Seq(T) OBVIOUS
<1>2. ToSet(s \o <<x>>) = ToSet(s) \cup ToSet(<<x>>) BY <1>1, SetOfConcat, Zenon
<1>3. QED BY <1>1, <1>2, SetOfOne, Zenon

LEMMA SetTyped ==
  ASSUME NEW T, NEW s \in Seq(T)
  PROVE  ToSet(s) \subseteq T
BY DEF ToSet

(* What is chosen is in its order: h says where each element was.             *)
Picks(c, s, n, h) ==
  /\ h \in [1..Len(c) -> 1..n]
  /\ \A i, j \in 1..Len(c) : i < j => h[i] < h[j]
  /\ \A i \in 1..Len(c) : c[i] = s[h[i]]

LEMMA PicksOne ==
  ASSUME NEW T, NEW c \in Seq(T), NEW s, NEW n \in Nat, NEW h, Picks(c, s, n, h),
         NEW x \in T, x = s[n + 1]
  PROVE  \E g : Picks(Append(c, x), s, n + 1, g)
<1> DEFINE g == [i \in 1..Len(c) + 1 |-> IF i <= Len(c) THEN h[i] ELSE n + 1]
           d == Append(c, x)
<1>1. /\ d \in Seq(T) /\ Len(d) = Len(c) + 1 /\ Len(c) \in Nat /\ d[Len(c) + 1] = x
      /\ \A i \in 1..Len(c) : d[i] = c[i]
  BY AppendProperties
<1> HIDE DEF d
<1>2. \A i \in 1..Len(c) : h[i] \in 1..n BY DEF Picks
<1>3. g \in [1..Len(d) -> 1..n + 1] BY <1>1, <1>2
<1>4. ASSUME NEW i \in 1..Len(d), NEW j \in 1..Len(d), i < j
      PROVE  g[i] < g[j]
  <2>1. i \in 1..Len(c) /\ g[i] = h[i] BY <1>1, <1>4
  <2>2. CASE j \in 1..Len(c)
    <3>1. g[j] = h[j] BY <1>1, <2>2
    <3>2. QED BY <1>4, <2>1, <2>2, <3>1 DEF Picks
  <2>3. CASE j = Len(c) + 1
    <3>1. g[j] = n + 1 BY <1>1, <2>3
    <3>2. QED BY <1>2, <2>1, <3>1
  <2>4. QED BY <1>1, <2>2, <2>3
<1>5. ASSUME NEW i \in 1..Len(d)
      PROVE  d[i] = s[g[i]]
  <2>1. CASE i \in 1..Len(c)
    <3>1. g[i] = h[i] /\ d[i] = c[i] BY <1>1, <2>1
    <3>2. QED BY <2>1, <3>1 DEF Picks
  <2>2. CASE i = Len(c) + 1
    <3>1. g[i] = n + 1 /\ d[i] = x BY <1>1, <2>2
    <3>2. QED BY <3>1
  <2>3. QED BY <1>1, <2>1, <2>2
<1> HIDE DEF g
<1>6. Picks(d, s, n + 1, g) BY <1>3, <1>4, <1>5 DEF Picks
<1>7. QED BY <1>6 DEF d

LEMMA ChosenInOrder ==
  ASSUME NEW T, NEW s \in Seq(T), NEW S
  PROVE  \E h : Picks(Chosen(s, S), s, Len(s), h)
<1>1. PICK f \in [0..Len(s) -> Seq(T)] :
        ChosenTo(f, s, S, Len(s)) /\ Chosen(s, S) = f[Len(s)]
  BY ChosenIs
<1>2. Len(s) \in Nat /\ Len(s) \in 0..Len(s) OBVIOUS
<1> DEFINE N == {k \in Nat : k <= Len(s) => \E h : Picks(f[k], s, k, h)}
<1>3. 0 \in N
  <2>1. f[0] = <<>> /\ Len(f[0]) = 0 BY <1>1, <1>2 DEF ChosenTo
  <2>2. 1..0 = {} OBVIOUS
  <2>3. Picks(f[0], s, 0, [i \in {} |-> i]) BY <2>1, <2>2 DEF Picks
  <2>4. QED BY <2>3
<1>4. ASSUME NEW k \in Nat, k \in N PROVE k + 1 \in N
  <2>1. SUFFICES ASSUME k + 1 <= Len(s) PROVE \E h : Picks(f[k + 1], s, k + 1, h)
    OBVIOUS
  <2>2. /\ k <= Len(s) /\ k \in 0..Len(s) /\ k + 1 \in 0..Len(s) /\ k + 1 # 0
        /\ (k + 1) - 1 = k /\ k + 1 \in 1..Len(s)
    BY <1>2, <2>1
  <2>3. PICK h : Picks(f[k], s, k, h) BY <1>4, <2>2
  <2>4. f[k + 1] = IF s[k + 1] \in S THEN Append(f[k], s[k + 1]) ELSE f[k]
    BY <1>1, <2>2 DEF ChosenTo
  <2>5. PICK c \in Seq(T) : c = f[k] BY <2>2
  <2>6. CASE s[k + 1] \in S
    <3>1. s[k + 1] \in T BY <2>2
    <3>2. PICK x \in T : x = s[k + 1] BY <3>1
    <3>3. Picks(c, s, k, h) BY <2>3, <2>5
    <3>4. \E g : Picks(Append(c, x), s, k + 1, g) BY <3>2, <3>3, PicksOne
    <3>5. f[k + 1] = Append(c, x) BY <2>4, <2>5, <2>6, <3>2
    <3>6. QED BY <3>4, <3>5
  <2>7. CASE s[k + 1] \notin S
    <3>1. f[k + 1] = c BY <2>4, <2>5, <2>7
    <3>2. Picks(c, s, k, h) /\ Len(c) \in Nat BY <2>3, <2>5
    <3>3. 1..k \subseteq 1..k + 1 OBVIOUS
    <3>4. Picks(c, s, k + 1, h) BY <3>2, <3>3 DEF Picks
    <3>5. QED BY <3>1, <3>4
  <2>8. QED BY <2>6, <2>7
<1> HIDE DEF N
<1>5. Len(s) \in N BY <1>2, <1>3, <1>4, EveryNumber
<1>6. QED BY <1>1, <1>2, <1>5 DEF N

-----------------------------------------------------------------------------
(* What agents write, again: what an entry says of calls.                     *)

LEMMA EntryCalls ==
  ASSUME FileTyped, NEW e \in Entries
  PROVE  /\ CallsOf(e) \subseteq made + 1..made + Len(e.calls)
         /\ e.kind = "result" => e.id \in unanswered
         /\ e.kind = "ran" => e.id = 0 \/ CallsOf(e) = {e.id}
         /\ CallsOf(e) # {} => e.kind \in {"assistant", "call", "ran"}
<1> DEFINE Good == /\ CallsOf(e) \subseteq made + 1..made + Len(e.calls)
                   /\ e.kind = "result" => e.id \in unanswered
                   /\ e.kind = "ran" => e.id = 0 \/ CallsOf(e) = {e.id}
                   /\ CallsOf(e) # {} => e.kind \in {"assistant", "call", "ran"}
<1>1. made \in Nat /\ MaxCalls \in Nat BY BoundsAssumption DEF FileTyped
<1>2. ASSUME e.calls = <<>>, e.kind \notin {"result", "ran"} PROVE Good
  <2>1. CallsOf(e) = {} BY <1>2, SetOfNone DEF CallsOf
  <2>2. QED BY <1>2, <2>1
<1>3. ASSUME NEW t \in Says, NEW kind \in {"user", "task"}, e = [Line(kind) EXCEPT !.text = t]
      PROVE  Good
  <2>1. e.calls = <<>> /\ e.kind = kind BY <1>3 DEF Line
  <2>2. QED BY <1>2, <2>1
<1>4. ASSUME NEW t \in Answers, NEW c \in NewCalls, NEW u \in 0..1,
             e = [Line("assistant") EXCEPT !.text = t, !.calls = c, !.used = u]
      PROVE  Good
  <2>1. e.kind = "assistant" /\ e.calls = c BY <1>4 DEF Line
  <2>2. PICK n \in 0..MaxCalls - made : c = [i \in 1..n |-> made + i] BY DEF NewCalls
  <2>3. n \in Nat /\ Len(c) = n /\ DOMAIN c = 1..n BY <1>1, <2>2
  <2>4. \A i \in DOMAIN c : c[i] \in made + 1..made + n BY <1>1, <2>2, <2>3
  <2>5. ToSet(c) \subseteq made + 1..made + n BY <2>4 DEF ToSet
  <2>6. QED BY <2>1, <2>3, <2>5 DEF CallsOf
<1>5. ASSUME e.calls = <<made + 1>> PROVE CallsOf(e) = {made + 1} /\ Len(e.calls) = 1
  BY <1>5, SetOfOne DEF CallsOf
<1>6. ASSUME made < MaxCalls, e = [Line("call") EXCEPT !.calls = <<made + 1>>] PROVE Good
  <2>1. e.kind = "call" /\ e.calls = <<made + 1>> BY <1>6 DEF Line
  <2>2. QED BY <1>1, <1>5, <2>1
<1>7. ASSUME NEW i \in unanswered, e = [Line("result") EXCEPT !.id = i] PROVE Good
  <2>1. e.kind = "result" /\ e.calls = <<>> /\ e.id = i BY <1>7 DEF Line
  <2>2. CallsOf(e) = {} BY <2>1, SetOfNone DEF CallsOf
  <2>3. QED BY <2>1, <2>2
<1>8. ASSUME NEW u \in 0..1, NEW kind \in {"usage", "end"}, e = [Line(kind) EXCEPT !.used = u]
      PROVE  Good
  <2>1. e.calls = <<>> /\ e.kind = kind BY <1>8 DEF Line
  <2>2. QED BY <1>2, <2>1
<1>9. ASSUME made < MaxCalls, NEW i \in {0, made + 1},
             e = [Line("ran") EXCEPT !.calls = <<made + 1>>, !.id = i]
      PROVE  Good
  <2>1. e.kind = "ran" /\ e.calls = <<made + 1>> /\ e.id = i BY <1>9 DEF Line
  <2>2. QED BY <1>1, <1>5, <2>1
<1>10. ASSUME NEW t \in Says, NEW r \in Answers, e = [Line("turn") EXCEPT !.text = t, !.reply = r]
      PROVE  Good
  <2>1. e.calls = <<>> /\ e.kind = "turn" BY <1>10 DEF Line
  <2>2. QED BY <1>2, <2>1
<1> HIDE DEF Good
<1>11. Good
  <2>1. CASE \E t \in Says, kind \in {"user", "task"} : e = [Line(kind) EXCEPT !.text = t]
    BY <2>1, <1>3
  <2>2. CASE \E t \in Answers, c \in NewCalls, u \in 0..1 :
               e = [Line("assistant") EXCEPT !.text = t, !.calls = c, !.used = u]
    BY <2>2, <1>4
  <2>3. CASE made < MaxCalls /\ e = [Line("call") EXCEPT !.calls = <<made + 1>>]
    BY <2>3, <1>6
  <2>4. CASE \E i \in unanswered : e = [Line("result") EXCEPT !.id = i]
    BY <2>4, <1>7
  <2>5. CASE \E u \in 0..1, kind \in {"usage", "end"} : e = [Line(kind) EXCEPT !.used = u]
    BY <2>5, <1>8
  <2>6. CASE made < MaxCalls /\ \E i \in {0, made + 1} :
               e = [Line("ran") EXCEPT !.calls = <<made + 1>>, !.id = i]
    BY <2>6, <1>9
  <2>7. CASE \E t \in Says, r \in Answers : e = [Line("turn") EXCEPT !.text = t, !.reply = r]
    BY <2>7, <1>10
  <2>8. QED BY <2>1, <2>2, <2>3, <2>4, <2>5, <2>6, <2>7, EntryIs, Zenon
<1>12. QED BY <1>11 DEF Good

LEMMA SameLog ==
  ASSUME LogInv, UNCHANGED <<agent, log, made, unanswered>>
  PROVE  LogFacts(log)' /\ OfCallsMade'
<1>1. LogFacts(log)'
  BY DEF LogInv, LogFacts, MadeOnce, OwnOutput, Callers, InTurn, Between, CallsOf
<1>2. Running' <=> Running BY DEF Running, Between, CallsOf
<1>3. OfCallsMade' BY <1>2 DEF LogInv, OfCallsMade, CallsOf
<1>4. QED BY <1>1, <1>3

(* A line goes to the end of the log.                                         *)
LEMMA LogGoesOn ==
  ASSUME FileTyped, LogInv, phase = "writing", NEW e \in LogLines(agent), log' = Append(log, e),
         made' \in Nat, made <= made', CallsOf(e) \subseteq made + 1..made',
         e.kind = "result" => e.id \in unanswered,
         e.kind = "ran" => e.id = 0 \/ CallsOf(e) = {e.id},
         CallsOf(e) # {} => e.kind \in {"assistant", "call", "ran"},
         unanswered' \subseteq unanswered \cup CallsOf(e),
         agent = "agentknit" /\ unanswered # {} => e.kind \in {"result", "torn"},
         UNCHANGED <<agent, phase, steps, pending>>
  PROVE  LogInv'
<1> DEFINE n == Len(log)
<1>1. /\ log \in Seq(LogLines(agent)) /\ n \in Nat /\ made \in Nat /\ DOMAIN log = 1..n
      /\ Len(log') = n + 1 /\ DOMAIN log' = 1..n + 1 /\ log'[n + 1] = e
      /\ \A i \in 1..n : log'[i] = log[i]
  BY AppendProperties, BoundsAssumption DEF FileTyped
<1>2. ASSUME NEW i \in 1..n PROVE i # n + 1 /\ i \in 1..n + 1
  BY <1>1, <1>2
<1>3. ASSUME NEW i \in 1..n + 1, i \notin 1..n PROVE i = n + 1
  BY <1>1, <1>3
<1>4. /\ \A i \in 1..n : CallsOf(log[i]) \subseteq 1..made
      /\ \A i \in 1..n : log[i].kind = "result" => log[i].id \in 1..made
      /\ unanswered \subseteq 1..made
  BY <1>1 DEF LogInv, OfCallsMade
<1>5. (1..made) \cap (made + 1..made') = {} /\ 1..made \subseteq 1..made'
      /\ made + 1..made' \subseteq 1..made'
  BY <1>1
<1> HIDE DEF n
<1>6. MadeOnce(log')
  <2>1. ASSUME NEW i \in 1..n + 1, NEW j \in 1..n + 1, i # j
        PROVE  CallsOf(log'[i]) \cap CallsOf(log'[j]) = {}
    <3>1. CASE i \in 1..n /\ j \in 1..n
      <4>1. CallsOf(log[i]) \cap CallsOf(log[j]) = {}
        BY <1>1, <2>1, <3>1 DEF LogInv, LogFacts, MadeOnce
      <4>2. QED BY <1>1, <3>1, <4>1
    <3>2. CASE i \in 1..n /\ j = n + 1 BY <1>1, <1>4, <1>5, <3>2
    <3>3. CASE i = n + 1 /\ j \in 1..n BY <1>1, <1>4, <1>5, <3>3
    <3>4. QED BY <1>3, <2>1, <3>1, <3>2, <3>3
  <2>2. QED BY <1>1, <2>1 DEF MadeOnce
<1>7. OwnOutput(log')
  <2>1. ASSUME NEW i \in 1..n + 1, log'[i].kind = "ran"
        PROVE  log'[i].id = 0 \/ CallsOf(log'[i]) = {log'[i].id}
    <3>1. CASE i \in 1..n BY <1>1, <2>1, <3>1 DEF LogInv, LogFacts, OwnOutput
    <3>2. CASE i = n + 1 BY <1>1, <2>1, <3>2
    <3>3. QED BY <1>3, <3>1, <3>2
  <2>2. QED BY <1>1, <2>1 DEF OwnOutput
<1>8. Callers(log')
  <2>1. ASSUME NEW i \in 1..n + 1, CallsOf(log'[i]) # {}
        PROVE  log'[i].kind \in {"assistant", "call", "ran"}
    <3>1. CASE i \in 1..n BY <1>1, <2>1, <3>1 DEF LogInv, LogFacts, Callers
    <3>2. CASE i = n + 1 BY <1>1, <2>1, <3>2
    <3>3. QED BY <1>3, <3>1, <3>2
  <2>2. QED BY <1>1, <2>1 DEF Callers
<1>9. ASSUME NEW q \in 1..n, NEW p \in 1..n + 1, Between(log, q, p) PROVE Between(log', q, p)
  <2>1. ASSUME NEW k \in q + 1..p - 1 PROVE log'[k].kind \in {"result", "torn"}
    <3>1. k \in 1..n BY <1>1, <2>1
    <3>2. QED BY <1>1, <1>9, <2>1, <3>1 DEF Between
  <2>2. QED BY <2>1 DEF Between
<1>10. ASSUME agent = "agentknit"
       PROVE  InTurn(log') /\ Running'
  <2>1. InTurn(log) /\ Running BY <1>10 DEF LogInv, LogFacts, OfCallsMade
  <2>2. ASSUME NEW p \in 1..n + 1, NEW q \in 1..n + 1, log'[p].kind = "result",
               log'[p].id \in CallsOf(log'[q])
        PROVE  q < p /\ Between(log', q, p)
    <3>1. CASE p \in 1..n /\ q \in 1..n
      <4>1. q < p /\ Between(log, q, p) BY <1>1, <2>1, <2>2, <3>1 DEF InTurn
      <4>2. QED BY <1>2, <1>9, <3>1, <4>1
    <3>2. CASE p = n + 1 /\ q \in 1..n
      <4>1. e.id \in CallsOf(log[q]) \cap unanswered BY <1>1, <2>2, <3>2
      <4>2. Between(log, q, n + 1) BY <1>1, <2>1, <3>2, <4>1 DEF Running, n
      <4>3. q < p BY <1>1, <3>2
      <4>4. QED BY <1>9, <2>2, <3>2, <4>2, <4>3
    <3>3. CASE q = n + 1
      <4>1. log'[p].id \in CallsOf(e) BY <1>1, <2>2, <3>3
      <4>2. p # n + 1 BY <1>1, <2>2, <4>1
      <4>3. p \in 1..n BY <1>3, <2>2, <4>2
      <4>4. log'[p].id \in 1..made BY <1>1, <1>4, <2>2, <4>3
      <4>5. QED BY <1>5, <4>1, <4>4
    <3>4. QED BY <1>3, <2>2, <3>1, <3>2, <3>3
  <2>3. InTurn(log') BY <1>1, <2>2 DEF InTurn
  <2>4. ASSUME NEW q \in 1..n + 1, CallsOf(log'[q]) \cap unanswered' # {}
        PROVE  Between(log', q, (n + 1) + 1)
    <3>1. CASE q \in 1..n
      <4>1. CallsOf(log[q]) \cap unanswered # {} BY <1>1, <1>4, <1>5, <2>4, <3>1
      <4>2. Between(log, q, n + 1) BY <1>1, <2>1, <3>1, <4>1 DEF Running, n
      <4>3. e.kind \in {"result", "torn"} BY <1>10, <4>1
      <4>4. Between(log', q, n + 1) BY <1>1, <1>9, <3>1, <4>2
      <4>5. ASSUME NEW k \in q + 1..((n + 1) + 1) - 1 PROVE log'[k].kind \in {"result", "torn"}
        <5>1. CASE k = n + 1 BY <1>1, <4>3, <5>1
        <5>2. CASE k # n + 1
          <6>1. k \in q + 1..(n + 1) - 1 BY <1>1, <3>1, <4>5, <5>2
          <6>2. QED BY <4>4, <6>1 DEF Between
        <5>3. QED BY <5>1, <5>2
      <4>6. QED BY <4>5 DEF Between
    <3>2. CASE q = n + 1
      <4>1. q + 1..((n + 1) + 1) - 1 = {} BY <1>1, <3>2
      <4>2. QED BY <4>1 DEF Between
    <3>3. QED BY <1>3, <3>1, <3>2
  <2>5. Running'
    <3>1. Running' = \A q \in DOMAIN log' : CallsOf(log'[q]) \cap unanswered' # {} =>
                                              Between(log', q, Len(log') + 1)
      BY DEF Running, CallsOf, Between
    <3>2. QED BY <1>1, <2>4, <3>1
  <2>6. QED BY <2>3, <2>5
<1>11. agent = "agentknit" => InTurn(log') /\ Running' BY <1>10
<1>12. /\ \A i \in 1..n + 1 : CallsOf(log'[i]) \subseteq 1..made'
       /\ \A i \in 1..n + 1 : log'[i].kind = "result" => log'[i].id \in 1..made'
       /\ unanswered' \subseteq 1..made'
  <2>1. ASSUME NEW i \in 1..n + 1
        PROVE  /\ CallsOf(log'[i]) \subseteq 1..made'
               /\ log'[i].kind = "result" => log'[i].id \in 1..made'
    <3>1. CASE i \in 1..n BY <1>1, <1>4, <1>5, <3>1
    <3>2. CASE i = n + 1 BY <1>1, <1>4, <1>5, <3>2
    <3>3. QED BY <1>3, <3>1, <3>2
  <2>2. QED BY <1>4, <1>5, <2>1
<1>13. steps' = <<>> /\ pending' = <<>> /\ phase' = "writing" /\ agent' = agent BY DEF LogInv
<1>14. LogFacts(log)' BY <1>6, <1>7, <1>8, <1>11, <1>13
         DEF LogFacts, MadeOnce, OwnOutput, Callers, InTurn, Between, CallsOf
<1>15. OfCallsMade' BY <1>1, <1>11, <1>12, <1>13 DEF OfCallsMade, CallsOf
<1>16. QED BY <1>13, <1>14, <1>15 DEF LogInv

(* While the agent writes, nothing is shown.                                  *)
NothingRead == steps = <<>> /\ pending = <<>> /\ pos = 1
LEMMA NothingYet == NothingRead => CallsInv /\ LookedUp /\ Collected /\ Answering
<1> SUFFICES ASSUME NothingRead PROVE CallsInv /\ LookedUp /\ Collected /\ Answering
  OBVIOUS
<1>1. Known = {} /\ ToSet(steps) = {} BY SetOfNone DEF Known, NothingRead
<1>2. 1..pos - 1 = {} BY DEF NothingRead
<1>3. QED BY <1>1, <1>2 DEF CallsInv, LookedUp, Collected, Answering

LEMMA WriteAnswers ==
  ASSUME FileTyped, AInv, \E e \in Entries : Write(e)
  PROVE  AInv'
<1>1. PICK e \in Entries : Write(e) OBVIOUS
<1>2. e \in LogLines(agent) /\ Len(e.calls) \in Nat /\ made + Len(e.calls) <= MaxCalls
  BY <1>1, EntryTyped DEF Write, Writes
<1>3. /\ CallsOf(e) \subseteq made + 1..made + Len(e.calls)
      /\ e.kind = "result" => e.id \in unanswered
      /\ e.kind = "ran" => e.id = 0 \/ CallsOf(e) = {e.id}
      /\ CallsOf(e) # {} => e.kind \in {"assistant", "call", "ran"}
  BY <1>1, EntryCalls
<1>4. made \in Nat /\ LogInv BY BoundsAssumption DEF FileTyped, AInv
<1>5. /\ phase = "writing" /\ made' = made + Len(e.calls) /\ made' \in Nat /\ made <= made'
      /\ unanswered' = (unanswered \ {e.id}) \cup CallsOf(e)
      /\ UNCHANGED <<agent, phase, pos, results, steps, pending>>
  BY <1>1, <1>2, <1>4 DEF Write, parsed, CallsOf
<1>6. LogInv'
  <2>1. CASE ~torn
    <3>1. log' = Append(log, e) BY <1>1, <2>1 DEF Write
    <3>2. agent = "agentknit" /\ unanswered # {} => e.kind \in {"result", "torn"}
      BY <1>1 DEF Write, Writes
    <3>3. unanswered' \subseteq unanswered \cup CallsOf(e) BY <1>5
    <3>4. CallsOf(e) \subseteq made + 1..made' BY <1>3, <1>5
    <3>5. QED BY <1>2, <1>3, <1>4, <1>5, <3>1, <3>2, <3>3, <3>4, LogGoesOn
  <2>2. CASE torn
    <3>1. log' = log BY <1>1, <2>2 DEF Write
    <3>2. /\ \A i \in DOMAIN log : CallsOf(log[i]) \subseteq 1..made
          /\ \A i \in DOMAIN log : log[i].kind = "result" => log[i].id \in 1..made
          /\ unanswered \subseteq 1..made /\ steps = <<>> /\ pending = <<>>
      BY <1>4, <1>5 DEF LogInv, OfCallsMade
    <3>3. /\ 1..made \subseteq 1..made' /\ made + 1..made' \subseteq 1..made'
          /\ (1..made) \cap (made + 1..made') = {}
      BY <1>4, <1>5
    <3>4. CallsOf(e) \subseteq made + 1..made' BY <1>3, <1>5
    <3>5. /\ \A i \in DOMAIN log : CallsOf(log[i]) \subseteq 1..made'
          /\ \A i \in DOMAIN log : log[i].kind = "result" => log[i].id \in 1..made'
          /\ unanswered' \subseteq 1..made'
      BY <1>5, <3>2, <3>3, <3>4
    <3>6. ASSUME NEW q \in DOMAIN log, CallsOf(log[q]) \cap unanswered' # {}
          PROVE  CallsOf(log[q]) \cap unanswered # {}
      BY <1>5, <3>2, <3>3, <3>4, <3>6
    <3>7. agent = "agentknit" => Running' BY <1>4, <1>5, <3>1, <3>6
                                    DEF LogInv, OfCallsMade, Running, CallsOf, Between
    <3>8. LogFacts(log)' BY <1>4, <1>5, <3>1
            DEF LogInv, LogFacts, MadeOnce, OwnOutput, Callers, InTurn, Between, CallsOf
    <3>9. OfCallsMade' BY <1>5, <3>1, <3>5, <3>7 DEF OfCallsMade, CallsOf
    <3>10. QED BY <1>5, <3>2, <3>8, <3>9 DEF LogInv
  <2>3. QED BY <2>1, <2>2
<1>7. NothingRead' BY <1>4, <1>5 DEF LogInv, FileTyped, NothingRead
<1>8. (CallsInv /\ LookedUp /\ Collected /\ Answering)' BY <1>7, NothingYet, PTL
<1>9. QED BY <1>6, <1>8 DEF AInv

LEMMA CrashAnswers ==
  ASSUME FileTyped, AInv, Crash
  PROVE  AInv'
<1>1. /\ phase = "writing" /\ log' = Append(log, Torn) /\ unanswered' \subseteq unanswered
      /\ UNCHANGED <<agent, made, phase, pos, results, steps, pending>>
  BY DEF Crash, parsed
<1>2. made \in Nat /\ LogInv BY BoundsAssumption DEF FileTyped, AInv
<1>3. Torn = [kind |-> "torn", text |-> Blank, reply |-> Blank, calls |-> <<>>, id |-> 0,
              used |-> 0]
  BY DEF Torn, Line
<1>4. CallsOf(Torn) = {} /\ Torn.kind = "torn" BY <1>3, SetOfNone DEF CallsOf
<1>5. Torn \in LogLines(agent)
  <2>1. /\ Blank \in Says \cup Replies /\ Blank \in Says /\ Blank \in Answers
        /\ <<>> \in Seq(Calls) /\ 0 \in 0..MaxCalls /\ 0 \in 0..1
    BY BoundsAssumption DEF Says, Answers
  <2>2. "torn" \in Kinds[agent] \cup {"torn"} OBVIOUS
  <2>3. QED BY <1>3, <2>1, <2>2, LineIs
<1>6. LogInv'
  <2>1. made' \in Nat /\ made <= made' BY <1>1, <1>2
  <2>2. QED BY <1>1, <1>2, <1>4, <1>5, <2>1, LogGoesOn
<1>7. NothingRead' BY <1>1, <1>2 DEF LogInv, FileTyped, NothingRead
<1>8. (CallsInv /\ LookedUp /\ Collected /\ Answering)' BY <1>7, NothingYet, PTL
<1>9. QED BY <1>6, <1>8 DEF AInv

(* What holds of the log holds of the lines that parse.                       *)
LEMMA PicksKeep ==
  ASSUME NEW T, NEW c \in Seq(T), NEW s \in Seq(T), NEW h, Picks(c, s, Len(s), h), LogFacts(s)
  PROVE  LogFacts(c)
<1>1. /\ Len(c) \in Nat /\ Len(s) \in Nat /\ DOMAIN c = 1..Len(c) /\ DOMAIN s = 1..Len(s)
      /\ \A i \in 1..Len(c) : h[i] \in 1..Len(s) /\ h[i] \in Nat /\ c[i] = s[h[i]]
      /\ \A i, j \in 1..Len(c) : i < j => h[i] < h[j]
  BY DEF Picks
<1>2. \A i, j \in 1..Len(c) : i # j => h[i] # h[j] BY <1>1
<1>3. \A i, j \in 1..Len(c) : h[i] < h[j] => i < j BY <1>1
<1>4. MadeOnce(c) BY <1>1, <1>2 DEF LogFacts, MadeOnce
<1>5. OwnOutput(c) /\ Callers(c) BY <1>1 DEF LogFacts, OwnOutput, Callers
<1>6. ASSUME InTurn(s) PROVE InTurn(c)
  <2>1. SUFFICES ASSUME NEW p \in 1..Len(c), NEW q \in 1..Len(c), c[p].kind = "result",
                        c[p].id \in CallsOf(c[q])
                 PROVE  q < p /\ Between(c, q, p)
    BY <1>1 DEF InTurn
  <2>2. h[q] < h[p] /\ Between(s, h[q], h[p]) BY <1>1, <1>6, <2>1 DEF InTurn
  <2>3. q < p BY <1>3, <2>2
  <2>4. ASSUME NEW k \in q + 1..p - 1 PROVE c[k].kind \in {"result", "torn"}
    <3>1. k \in 1..Len(c) /\ q < k /\ k < p BY <1>1, <2>4
    <3>2. h[q] < h[k] /\ h[k] < h[p] BY <1>1, <3>1
    <3>3. h[k] \in h[q] + 1..h[p] - 1 BY <1>1, <3>1, <3>2
    <3>4. s[h[k]].kind \in {"result", "torn"} BY <2>2, <3>3 DEF Between
    <3>5. QED BY <1>1, <3>1, <3>4
  <2>5. QED BY <2>3, <2>4 DEF Between
<1>7. QED BY <1>4, <1>5, <1>6 DEF LogFacts

LEMMA PicksRunning ==
  ASSUME OfCallsMade, log \in Seq(LogLines(agent)), log' \in Seq(LogLines(agent)), NEW h,
         Picks(log', log, Len(log), h), UNCHANGED <<agent, made, unanswered>>
  PROVE  OfCallsMade'
<1>1. /\ Len(log') \in Nat /\ Len(log) \in Nat
      /\ DOMAIN log' = 1..Len(log') /\ DOMAIN log = 1..Len(log)
      /\ \A i \in 1..Len(log') : h[i] \in 1..Len(log) /\ h[i] \in Nat /\ log'[i] = log[h[i]]
      /\ \A i, j \in 1..Len(log') : i < j => h[i] < h[j]
  BY DEF Picks
<1>2. ASSUME Running PROVE Running'
  <2>1. SUFFICES ASSUME NEW q \in 1..Len(log'), CallsOf(log'[q]) \cap unanswered # {}
                 PROVE  Between(log', q, Len(log') + 1)
    BY <1>1 DEF Running, CallsOf, Between
  <2>2. Between(log, h[q], Len(log) + 1) BY <1>1, <1>2, <2>1 DEF Running
  <2>3. ASSUME NEW k \in q + 1..(Len(log') + 1) - 1 PROVE log'[k].kind \in {"result", "torn"}
    <3>1. k \in 1..Len(log') /\ q < k BY <1>1, <2>1, <2>3
    <3>2. h[q] < h[k] /\ h[q] \in Nat /\ h[k] \in 1..Len(log) BY <1>1, <2>1, <3>1
    <3>3. h[k] \in h[q] + 1..(Len(log) + 1) - 1 BY <1>1, <3>2
    <3>4. QED BY <1>1, <2>2, <3>1, <3>3 DEF Between
  <2>4. QED BY <2>3 DEF Between
<1>3. QED BY <1>1, <1>2 DEF OfCallsMade, CallsOf

LEMMA OpenAnswers ==
  ASSUME FileTyped, AInv, Open
  PROVE  AInv'
<1>1. /\ phase = "writing" /\ phase' = "reading" /\ log' = Loaded(log)
      /\ results' = ToolResults(Loaded(log))
      /\ UNCHANGED <<agent, made, unanswered, pos, steps, pending>>
  BY DEF Open, parsed
<1>2. log \in Seq(LogLines(agent)) BY DEF FileTyped
<1>3. LogFacts(log) /\ OfCallsMade BY DEF AInv, LogInv
<1>4. LogFacts(Loaded(log)) /\ OfCallsMade'
  <2>1. CASE agent = "exec"
    <3>1. Loaded(log) = <<>> \/ Loaded(log) = log BY <2>1 DEF Loaded, ExecLoaded
    <3>2. LogFacts(<<>>)
      BY <2>1 DEF LogFacts, MadeOnce, OwnOutput, Callers
    <3>3. OfCallsMade'
      <4>1. DOMAIN log' = {} \/ log' = log BY <1>1, <3>1
      <4>2. QED BY <1>1, <1>3, <2>1, <4>1 DEF OfCallsMade, CallsOf
    <3>4. QED BY <1>3, <3>1, <3>2, <3>3
  <2>2. CASE agent # "exec"
    <3>1. PICK S : Loaded(log) = Chosen(log, S) BY <2>2 DEF Loaded
    <3>2. Chosen(log, S) \in Seq(LogLines(agent)) BY <1>2, ChosenFacts
    <3>3. PICK h : Picks(Chosen(log, S), log, Len(log), h) BY <1>2, ChosenInOrder
    <3>4. LogFacts(Loaded(log)) BY <1>2, <1>3, <3>1, <3>2, <3>3, PicksKeep
    <3>5. Picks(log', log, Len(log), h) /\ log' \in Seq(LogLines(agent)) BY <1>1, <3>1, <3>2, <3>3
    <3>6. OfCallsMade' BY <1>1, <1>2, <1>3, <3>5, PicksRunning
    <3>7. QED BY <3>4, <3>6
  <2>3. QED BY <2>1, <2>2
<1>5. LogFacts(log)'
  BY <1>1, <1>4 DEF LogFacts, MadeOnce, OwnOutput, Callers, InTurn, Between, CallsOf
<1>6. results' = ToolResults(log)' BY <1>1 DEF ToolResults
<1>7. LogInv' BY <1>1, <1>4, <1>5, <1>6 DEF LogInv
<1>8. NothingRead' BY <1>1 DEF AInv, LogInv, FileTyped, NothingRead
<1>9. (CallsInv /\ LookedUp /\ Collected /\ Answering)' BY <1>8, NothingYet, PTL
<1>10. QED BY <1>7, <1>9 DEF AInv

LEMMA ResumeAnswers ==
  ASSUME AInv, Resume
  PROVE  AInv'
<1>1. /\ phase' = "writing" /\ steps' = <<>> /\ pending' = <<>> /\ pos' = 1
      /\ UNCHANGED <<agent, log, made, unanswered>>
  BY DEF Resume, file
<1>2. LogFacts(log)' /\ OfCallsMade' BY <1>1, SameLog DEF AInv
<1>3. LogInv' BY <1>1, <1>2 DEF LogInv
<1>4. NothingRead' BY <1>1 DEF NothingRead
<1>5. (CallsInv /\ LookedUp /\ Collected /\ Answering)' BY <1>4, NothingYet, PTL
<1>6. QED BY <1>3, <1>5 DEF AInv

LEMMA InitAnswers == Init => AInv
<1>1. SUFFICES ASSUME Init PROVE AInv
  OBVIOUS
<1>2. DOMAIN log = {} BY <1>1 DEF Init
<1>3. LogInv
  BY <1>1, <1>2 DEF Init, LogInv, LogFacts, MadeOnce, OwnOutput, Callers, InTurn, OfCallsMade, Running
<1>4. CallsInv /\ LookedUp /\ Collected /\ Answering BY <1>1, NothingYet DEF Init, NothingRead
<1>5. QED BY <1>3, <1>4 DEF AInv

-----------------------------------------------------------------------------
(* What an entry brings: its calls C to the step n, and its result R.  Each   *)
(* step that is known afterwards was known before, with its calls and, where  *)
(* results are read as they come, its results, or is new.                     *)

Only(n, id, S) == IF id = n THEN S ELSE {}

From(s, n, C, R) ==
  \/ \E t \in Known :
       /\ s.id = t.id /\ CallsOf(s) \subseteq CallsOf(t) \cup Only(n, s.id, C)
       /\ agent \in Collecting => ResultsOf(s) = ResultsOf(t) \cup Only(n, s.id, R)
  \/ /\ CallsOf(s) \subseteq Only(n, s.id, C)
     /\ agent \in Collecting => ResultsOf(s) = Only(n, s.id, R)

Comes(n, C, R) == \A s \in Known' : From(s, n, C, R)

(* Results looked up are those of the calls of the step.                      *)
Closes ==
  agent \in Collecting \/
    \A s \in ToSet(steps') : s \in ToSet(steps) \/ ResultsOf(s) = CallsOf(s) \cap results

(* A result, one of D, is of a call of the step n.                            *)
Own(n, C, D, R) ==
  /\ R \subseteq D /\ C \cap ReadResults = {} /\ C \cap D \subseteq R
  /\ \A t \in Known : \A x \in D : x \in CallsOf(t) => t.id = n /\ x \in R

Reads ==
  /\ phase = "reading" /\ pos <= Len(log) /\ pos' = pos + 1
  /\ UNCHANGED <<file, phase, results>>

Result == IF Entry.kind \in {"result", "ran"} THEN {Entry.id} ELSE {}

LEMMA CallsSafe ==
  ASSUME CallsInv, NEW n, NEW C, NEW R, Comes(n, C, R), ReadCalls' = ReadCalls \cup C,
         C \cap ReadCalls = {}
  PROVE  CallsInv'
<1>1. CallsInv' = /\ \A s \in Known' : CallsOf(s) \subseteq ReadCalls'
                  /\ \A s, t \in Known' : s.id # t.id => CallsOf(s) \cap CallsOf(t) = {}
  BY DEF CallsInv, CallsOf
<1>2. ASSUME NEW s \in Known'
      PROVE  \/ \E t \in Known :
                  s.id = t.id /\ CallsOf(s) \subseteq CallsOf(t) \cup Only(n, s.id, C)
             \/ CallsOf(s) \subseteq Only(n, s.id, C)
  BY DEF Comes, From
<1>3. \A id : Only(n, id, C) \subseteq C /\ (id # n => Only(n, id, C) = {}) BY DEF Only
<1>4. ASSUME NEW s \in Known'
      PROVE  \E old \in SUBSET ReadCalls :
               /\ CallsOf(s) \subseteq old \cup Only(n, s.id, C)
               /\ old = {} \/ \E t \in Known : t.id = s.id /\ old = CallsOf(t)
  <2>1. CASE \E t \in Known : s.id = t.id /\ CallsOf(s) \subseteq CallsOf(t) \cup Only(n, s.id, C)
    BY <2>1 DEF CallsInv
  <2>2. CASE CallsOf(s) \subseteq Only(n, s.id, C)
    <3>1. {} \in SUBSET ReadCalls /\ CallsOf(s) \subseteq {} \cup Only(n, s.id, C) BY <2>2
    <3>2. QED BY <3>1
  <2>3. QED BY <1>2, <2>1, <2>2
<1>5. ASSUME NEW s \in Known' PROVE CallsOf(s) \subseteq ReadCalls \cup C
  BY <1>3, <1>4
<1>6. ASSUME NEW s \in Known', NEW t \in Known', s.id # t.id
      PROVE  CallsOf(s) \cap CallsOf(t) = {}
  <2>1. PICK a \in SUBSET ReadCalls :
          /\ CallsOf(s) \subseteq a \cup Only(n, s.id, C)
          /\ a = {} \/ \E u \in Known : u.id = s.id /\ a = CallsOf(u)
    BY <1>4
  <2>2. PICK b \in SUBSET ReadCalls :
          /\ CallsOf(t) \subseteq b \cup Only(n, t.id, C)
          /\ b = {} \/ \E u \in Known : u.id = t.id /\ b = CallsOf(u)
    BY <1>4
  <2>3. a \cap b = {} BY <1>6, <2>1, <2>2 DEF CallsInv
  <2>4. Only(n, s.id, C) = {} \/ Only(n, t.id, C) = {} BY <1>3, <1>6
  <2>5. Only(n, s.id, C) \cap ReadCalls = {} /\ Only(n, t.id, C) \cap ReadCalls = {} BY <1>3
  <2>6. QED BY <2>1, <2>2, <2>3, <2>4, <2>5
<1>7. QED BY <1>1, <1>5, <1>6

LEMMA LookedUpSafe ==
  ASSUME LookedUp, agent \notin Collecting, Closes, UNCHANGED results
  PROVE  LookedUp'
<1>1. LookedUp' = \A s \in ToSet(steps') : ResultsOf(s) = CallsOf(s) \cap results'
  BY DEF LookedUp, ResultsOf, CallsOf, ToSet
<1>2. QED BY <1>1 DEF LookedUp, Closes

LEMMA CollectedSafe ==
  ASSUME Collected, agent \in Collecting, NEW n, NEW C, NEW D, NEW R, Comes(n, C, R),
         Own(n, C, D, R), ReadResults' = ReadResults \cup D
  PROVE  Collected'
<1>1. Collected' =
        /\ \A s \in Known' : /\ ResultsOf(s) \subseteq ReadResults'
                             /\ CallsOf(s) \cap ReadResults' \subseteq ResultsOf(s)
        /\ \A s, t \in Known' : s.id # t.id => ResultsOf(s) \cap CallsOf(t) = {}
  BY DEF Collected, CallsOf, ResultsOf
<1> DEFINE Was(id, c, r) == \/ c = {} /\ r = {}
                            \/ \E t \in Known : t.id = id /\ c = CallsOf(t) /\ r = ResultsOf(t)
<1>2. ASSUME NEW s \in Known'
      PROVE  \E c, r : /\ Was(s.id, c, r) /\ CallsOf(s) \subseteq c \cup Only(n, s.id, C)
                       /\ ResultsOf(s) = r \cup Only(n, s.id, R)
  <2>1. CASE \E t \in Known :
               /\ s.id = t.id /\ CallsOf(s) \subseteq CallsOf(t) \cup Only(n, s.id, C)
               /\ ResultsOf(s) = ResultsOf(t) \cup Only(n, s.id, R)
    BY <2>1
  <2>2. CASE CallsOf(s) \subseteq Only(n, s.id, C) /\ ResultsOf(s) = Only(n, s.id, R)
    <3>1. /\ Was(s.id, {}, {}) /\ CallsOf(s) \subseteq {} \cup Only(n, s.id, C)
          /\ ResultsOf(s) = {} \cup Only(n, s.id, R)
      BY <2>2
    <3>2. QED BY <3>1
  <2>3. QED BY <2>1, <2>2 DEF Comes, From
<1>3. /\ \A id : Only(n, id, C) \subseteq C /\ (id # n => Only(n, id, C) = {})
      /\ \A id : Only(n, id, R) \subseteq R /\ (id # n => Only(n, id, R) = {})
      /\ Only(n, n, R) = R
  BY DEF Only
<1>4. ASSUME NEW id, NEW c, NEW r, Was(id, c, r)
      PROVE  /\ r \subseteq ReadResults /\ c \cap ReadResults \subseteq r
             /\ \A x \in D : x \in c => id = n /\ x \in R
  BY <1>4 DEF Collected, Own
<1>5. ASSUME NEW id, NEW c, NEW r, NEW jd, NEW d, NEW q, Was(id, c, r), Was(jd, d, q), id # jd
      PROVE  r \cap d = {}
  BY <1>5 DEF Collected
<1> HIDE DEF Was
<1>6. ASSUME NEW s \in Known'
      PROVE  /\ ResultsOf(s) \subseteq ReadResults \cup D
             /\ CallsOf(s) \cap (ReadResults \cup D) \subseteq ResultsOf(s)
  <2>1. PICK c, r : /\ Was(s.id, c, r) /\ CallsOf(s) \subseteq c \cup Only(n, s.id, C)
                    /\ ResultsOf(s) = r \cup Only(n, s.id, R)
    BY <1>2
  <2>2. /\ r \subseteq ReadResults /\ c \cap ReadResults \subseteq r
        /\ \A x \in D : x \in c => s.id = n /\ x \in R
    BY <1>4, <2>1
  <2>3. ResultsOf(s) \subseteq ReadResults \cup D BY <1>3, <2>1, <2>2 DEF Own
  <2>4. ASSUME NEW x, x \in CallsOf(s), x \in ReadResults \cup D PROVE x \in ResultsOf(s)
    <3>1. CASE x \in c /\ x \in ReadResults BY <2>1, <2>2, <3>1
    <3>2. CASE x \in c /\ x \in D BY <1>3, <2>1, <2>2, <3>2
    <3>3. CASE x \in Only(n, s.id, C)
      <4>1. s.id = n /\ x \in C BY <3>3 DEF Only
      <4>2. x \in R BY <2>4, <4>1 DEF Own
      <4>3. QED BY <1>3, <2>1, <4>1, <4>2
    <3>4. QED BY <2>1, <2>4, <3>1, <3>2, <3>3
  <2>5. QED BY <2>3, <2>4
<1>7. ASSUME NEW s \in Known', NEW t \in Known', s.id # t.id
      PROVE  ResultsOf(s) \cap CallsOf(t) = {}
  <2>1. PICK c, r : /\ Was(s.id, c, r) /\ CallsOf(s) \subseteq c \cup Only(n, s.id, C)
                    /\ ResultsOf(s) = r \cup Only(n, s.id, R)
    BY <1>2
  <2>2. PICK d, q : /\ Was(t.id, d, q) /\ CallsOf(t) \subseteq d \cup Only(n, t.id, C)
                    /\ ResultsOf(t) = q \cup Only(n, t.id, R)
    BY <1>2
  <2>3. r \cap d = {} BY <1>5, <1>7, <2>1, <2>2
  <2>4. r \subseteq ReadResults /\ (\A x \in D : x \in d => t.id = n /\ x \in R)
    BY <1>4, <2>1, <2>2
  <2>5. r \cap Only(n, t.id, C) = {} BY <1>3, <2>4 DEF Own
  <2>6. Only(n, s.id, R) \cap d = {} BY <1>3, <1>7, <2>4 DEF Own
  <2>7. Only(n, s.id, R) = {} \/ Only(n, t.id, C) = {} BY <1>3, <1>7
  <2>8. QED BY <2>1, <2>2, <2>3, <2>5, <2>6, <2>7
<1>8. QED BY <1>1, <1>6, <1>7

LEMMA ReadsOn ==
  ASSUME FileTyped, LogInv, Reads
  PROVE  /\ ReadCalls' = ReadCalls \cup CallsOf(Entry) /\ CallsOf(Entry) \cap ReadCalls = {}
         /\ ReadResults' = ReadResults \cup Result
         /\ LogInv'
<1>1. /\ pos \in Nat /\ Len(log) \in Nat /\ DOMAIN log = 1..Len(log) /\ pos \in 1..Len(log)
      /\ log' = log /\ pos' = pos + 1
  BY DEF FileTyped, Reads, file
<1>2. /\ 1..pos' - 1 = (1..pos - 1) \cup {pos} /\ pos \notin 1..pos - 1
      /\ 1..pos - 1 \subseteq 1..Len(log)
  BY <1>1
<1>3. ReadCalls' = UNION {CallsOf(log[i]) : i \in (1..pos - 1) \cup {pos}}
  BY <1>1, <1>2 DEF ReadCalls, CallsOf
<1>4. ReadCalls' = ReadCalls \cup CallsOf(Entry) BY <1>3 DEF ReadCalls, Entry
<1>5. CallsOf(Entry) \cap ReadCalls = {}
  <2>1. ASSUME NEW i \in 1..pos - 1 PROVE CallsOf(log[i]) \cap CallsOf(log[pos]) = {}
    <3>1. i # pos /\ i \in DOMAIN log /\ pos \in DOMAIN log BY <1>1, <1>2
    <3>2. QED BY <3>1 DEF LogInv, LogFacts, MadeOnce
  <2>2. QED BY <2>1 DEF ReadCalls, Entry
<1>6. ReadResults' =
        {log[i].id : i \in {j \in (1..pos - 1) \cup {pos} : log[j].kind \in {"result", "ran"}}}
  BY <1>1, <1>2 DEF ReadResults
<1>7. ReadResults' = ReadResults \cup Result
  BY <1>6 DEF ReadResults, Result, Entry
<1>8. LogInv'
  <2>1. UNCHANGED <<agent, log, made, unanswered, phase, results>> /\ phase = "reading"
    BY DEF Reads, file
  <2>2. LogFacts(log)' /\ OfCallsMade' BY <2>1, SameLog
  <2>3. (results = ToolResults(log))' BY <2>1 DEF LogInv, ToolResults
  <2>4. QED BY <2>1, <2>2, <2>3 DEF LogInv
<1>9. QED BY <1>4, <1>5, <1>7, <1>8

LEMMA LinesTyped ==
  ASSUME FileTyped, NEW i \in 1..Len(log)
  PROVE  /\ log[i].kind \in Kinds[agent] \cup {"torn"} /\ CallsOf(log[i]) \subseteq Calls
         /\ agent = "exec" => log[i].kind # "result"
         /\ agent = "agentknit" => log[i].kind # "ran"
         /\ agent \notin Collecting => log[i].kind # "ran"
<1>1. log[i] \in LogLines(agent) /\ agent \in Formats BY AgentsAssumption DEF FileTyped
<1>2. log[i].kind \in Kinds[agent] \cup {"torn"} /\ log[i].calls \in Seq(Calls)
  BY <1>1 DEF LogLines
<1>3. CallsOf(log[i]) \subseteq Calls BY <1>2, SetTyped DEF CallsOf
<1>4. /\ agent = "exec" => "result" \notin Kinds[agent] \cup {"torn"}
      /\ agent = "agentknit" => "ran" \notin Kinds[agent] \cup {"torn"}
      /\ agent \notin Collecting => "ran" \notin Kinds[agent] \cup {"torn"}
  BY <1>1 DEF Kinds, Formats, Collecting
<1>5. QED BY <1>2, <1>3, <1>4

(* No result comes before its call, in the formats that tell it from there.   *)
LEMMA NotAnsweredYet ==
  ASSUME FileTyped, LogInv, Reads, agent \in {"agentknit", "exec"}
  PROVE  CallsOf(Entry) \cap ReadResults = {}
<1>1. /\ pos \in Nat /\ Len(log) \in Nat /\ DOMAIN log = 1..Len(log) /\ pos \in 1..Len(log)
      /\ Entry = log[pos]
  BY DEF FileTyped, Reads, Entry
<1>2. SUFFICES ASSUME NEW i \in 1..pos - 1, log[i].kind \in {"result", "ran"},
                      log[i].id \in CallsOf(log[pos])
               PROVE  FALSE
  BY <1>1 DEF ReadResults
<1>3. i \in 1..Len(log) /\ i # pos /\ ~(pos < i) BY <1>1, <1>2
<1>4. CASE log[i].kind = "result" /\ agent = "agentknit"
  <2>1. InTurn(log) BY <1>4 DEF LogInv, LogFacts
  <2>2. pos < i BY <1>1, <1>2, <1>3, <1>4, <2>1 DEF InTurn
  <2>3. QED BY <1>3, <2>2
<1>5. CASE log[i].kind = "ran" /\ agent = "exec"
  <2>1. log[i].id # 0 BY <1>1, <1>2, LinesTyped DEF Calls
  <2>2. CallsOf(log[i]) = {log[i].id} BY <1>1, <1>3, <1>5, <2>1 DEF LogInv, LogFacts, OwnOutput
  <2>3. CallsOf(log[i]) \cap CallsOf(log[pos]) = {}
    BY <1>1, <1>3 DEF LogInv, LogFacts, MadeOnce
  <2>4. QED BY <1>2, <2>2, <2>3
<1>6. QED BY <1>2, <1>3, <1>4, <1>5, LinesTyped

LEMMA NoResult ==
  ASSUME FileTyped, LogInv, Reads, agent \in {"agentknit", "exec"},
         Entry.kind \notin {"result", "ran"}, NEW n
  PROVE  Own(n, CallsOf(Entry), Result, {})
<1>1. Result = {} BY DEF Result
<1>2. QED BY <1>1, NotAnsweredYet DEF Own

(* A command comes with its output: of no call before it.                     *)
LEMMA OwnCommand ==
  ASSUME FileTyped, AInv, Reads, agent = "exec", Entry.kind = "ran", NEW n
  PROVE  Own(n, CallsOf(Entry), Result, IF Entry.id = 0 THEN {} ELSE {Entry.id})
<1> DEFINE R == IF Entry.id = 0 THEN {} ELSE {Entry.id}
<1>1. LogInv /\ CallsInv BY DEF AInv
<1>2. /\ pos \in Nat /\ Len(log) \in Nat /\ DOMAIN log = 1..Len(log) /\ pos \in 1..Len(log)
      /\ Entry = log[pos] /\ 1..pos - 1 \subseteq 1..Len(log)
  BY DEF FileTyped, Reads, Entry
<1>3. Result = {Entry.id} BY DEF Result
<1>4. CallsOf(Entry) \cap ReadResults = {} BY <1>1, NotAnsweredYet
<1>5. CallsOf(Entry) \subseteq Calls /\ 0 \notin Calls BY <1>2, LinesTyped DEF Calls
<1>6. CallsOf(Entry) \cap Result \subseteq R BY <1>3, <1>5
<1>7. \A i \in 1..pos - 1 : CallsOf(log[i]) \subseteq Calls BY <1>2, LinesTyped
<1>8. ReadCalls \subseteq Calls BY <1>7 DEF ReadCalls
<1>9. Entry.id = 0 \/ CallsOf(Entry) = {Entry.id} BY <1>1, <1>2 DEF LogInv, LogFacts, OwnOutput
<1>10. Entry.id \notin ReadCalls
  <2>1. CallsOf(Entry) \cap ReadCalls = {} BY <1>1, ReadsOn
  <2>2. QED BY <1>5, <1>8, <1>9, <2>1
<1>11. \A t \in Known : CallsOf(t) \subseteq ReadCalls BY <1>1 DEF CallsInv
<1>12. \A t \in Known : \A x \in Result : x \notin CallsOf(t) BY <1>3, <1>10, <1>11
<1>13. R \subseteq Result BY <1>3
<1> HIDE DEF R
<1>14. Own(n, CallsOf(Entry), Result, R) BY <1>4, <1>6, <1>12, <1>13 DEF Own
<1>15. QED BY <1>14 DEF R

(* A wire message answers a call of the step in the making, or none.          *)
LEMMA OwnAnswer ==
  ASSUME FileTyped, AInv, Reads, agent = "agentknit", Entry.kind = "result"
  PROVE  /\ pending = <<>> => \A n : Own(n, CallsOf(Entry), Result, {})
         /\ \A step : pending = <<step>> => Own(step.id, CallsOf(Entry), Result, {Entry.id})
<1>1. LogInv /\ CallsInv /\ Answering /\ InTurn(log) /\ Callers(log)
  BY DEF AInv, LogInv, LogFacts, Reads
<1>2. /\ pos \in Nat /\ Len(log) \in Nat /\ DOMAIN log = 1..Len(log) /\ pos \in 1..Len(log)
      /\ Entry = log[pos] /\ 1..pos - 1 \subseteq 1..Len(log)
  BY DEF FileTyped, Reads, Entry
<1>3. Result = {Entry.id} BY DEF Result
<1>4. CallsOf(Entry) = {} BY <1>1, <1>2 DEF Callers
<1>5. ASSUME NEW t \in Known, Entry.id \in CallsOf(t)
      PROVE  \E step \in ToSet(pending) : Entry.id \in CallsOf(step)
  <2>1. Entry.id \in ReadCalls BY <1>1, <1>5 DEF CallsInv
  <2>2. PICK q \in 1..pos - 1 : Entry.id \in CallsOf(log[q]) BY <2>1 DEF ReadCalls
  <2>3. Between(log, q, pos) BY <1>1, <1>2, <2>2 DEF InTurn
  <2>4. QED BY <1>1, <2>2, <2>3 DEF Answering
<1>6. CASE pending = <<>>
  <2>1. \A t \in Known : Entry.id \notin CallsOf(t) BY <1>5, <1>6, SetOfNone
  <2>2. QED BY <1>3, <1>4, <1>6, <2>1 DEF Own
<1>7. ASSUME NEW step, pending = <<step>>
      PROVE  Own(step.id, CallsOf(Entry), Result, {Entry.id})
  <2>1. ToSet(pending) = {step} BY <1>7, SetOfOne
  <2>2. ASSUME NEW t \in Known, Entry.id \in CallsOf(t) PROVE t.id = step.id
    <3>1. Entry.id \in CallsOf(step) /\ step \in Known BY <1>5, <2>1, <2>2 DEF Known
    <3>2. QED BY <1>1, <2>2, <3>1 DEF CallsInv
  <2>3. QED BY <1>3, <1>4, <2>2 DEF Own
<1>8. QED BY <1>6, <1>7

LEMMA AnsweringSafe ==
  ASSUME FileTyped, AInv, Reads, agent = "agentknit",
         \/ Entry.kind \in {"user", "task"}
         \/ /\ Entry.kind = "result"
            /\ \A s \in ToSet(pending) : \E t \in ToSet(pending') : CallsOf(s) \subseteq CallsOf(t)
         \/ /\ Entry.kind = "assistant"
            /\ \E t \in ToSet(pending') : CallsOf(Entry) \subseteq CallsOf(t)
  PROVE  Answering'
<1>1. Answering /\ Callers(log) BY DEF AInv, LogInv, LogFacts, Reads
<1>2. /\ pos \in Nat /\ Len(log) \in Nat /\ DOMAIN log = 1..Len(log) /\ pos \in 1..Len(log)
      /\ Entry = log[pos] /\ log' = log /\ pos' = pos + 1 /\ 1..pos' - 1 = (1..pos - 1) \cup {pos}
  BY DEF FileTyped, Reads, Entry, file
<1>3. Answering' = \A q \in 1..pos' - 1 :
                     CallsOf(log[q]) # {} /\ Between(log, q, pos + 1) =>
                       \E step \in ToSet(pending') : CallsOf(log[q]) \subseteq CallsOf(step)
  BY <1>2 DEF Answering, CallsOf, Between
<1>4. ASSUME NEW q \in 1..pos - 1, CallsOf(log[q]) # {}, Between(log, q, pos + 1)
      PROVE  \E step \in ToSet(pending') : CallsOf(log[q]) \subseteq CallsOf(step)
  <2>1. pos \in q + 1..(pos + 1) - 1 BY <1>2
  <2>2. Entry.kind \in {"result", "torn"} BY <1>2, <1>4, <2>1 DEF Between
  <2>3. \A k \in q + 1..pos - 1 : k \in q + 1..(pos + 1) - 1 BY <1>2
  <2>4. Between(log, q, pos) BY <1>4, <2>3 DEF Between
  <2>5. PICK s \in ToSet(pending) : CallsOf(log[q]) \subseteq CallsOf(s)
    BY <1>1, <1>4, <2>4 DEF Answering
  <2>6. PICK t \in ToSet(pending') : CallsOf(s) \subseteq CallsOf(t) BY <2>2
  <2>7. QED BY <2>5, <2>6
<1>5. CallsOf(log[pos]) # {} =>
        \E step \in ToSet(pending') : CallsOf(log[pos]) \subseteq CallsOf(step)
  BY <1>1, <1>2 DEF Callers
<1>6. QED BY <1>2, <1>3, <1>4, <1>5

(* An entry read, whatever its format.                                        *)
LEMMA ReadAnswers ==
  ASSUME FileTyped, AInv, Reads, agent # "agent_probe",
         NEW n, NEW R, Comes(n, CallsOf(Entry), R), Closes,
         agent \in Collecting => Own(n, CallsOf(Entry), Result, R),
         agent = "agentknit" => Answering'
  PROVE  AInv'
<1>1. LogInv /\ CallsInv BY DEF AInv
<1>2. agent' = agent /\ results' = results BY DEF Reads, file
<1>3. LogInv' /\ CallsInv' BY <1>1, ReadsOn, CallsSafe
<1>4. agent \notin Collecting => LookedUp' BY <1>2, LookedUpSafe DEF AInv
<1>5. agent \in {"agentknit", "exec"} => Collected'
  <2>1. CASE agent \in {"agentknit", "exec"}
    <3>1. Collected /\ agent \in Collecting BY <2>1 DEF AInv, Collecting
    <3>2. QED BY <1>1, <3>1, ReadsOn, CollectedSafe
  <2>2. QED BY <2>1
<1>6. QED BY <1>2, <1>3, <1>4, <1>5 DEF AInv

-----------------------------------------------------------------------------
(* Where the steps come from, handler by handler.                             *)

LEMMA KeptFrom ==
  ASSUME NEW s, NEW t \in Known, s.id = t.id, CallsOf(s) = CallsOf(t),
         agent \in Collecting => ResultsOf(s) = ResultsOf(t), NEW n, NEW C, NEW R,
         R = {} \/ s.id # n
  PROVE  From(s, n, C, R)
<1>1. Only(n, s.id, R) = {} BY DEF Only
<1>2. QED BY <1>1 DEF From

LEMMA NewFrom ==
  ASSUME NEW s, CallsOf(s) = {}, ResultsOf(s) = {}, NEW n, NEW C, NEW R, R = {} \/ s.id # n
  PROVE  From(s, n, C, R)
<1>1. Only(n, s.id, R) = {} BY DEF Only
<1>2. QED BY <1>1 DEF From

(* A step that goes on with calls of C and the results R.                     *)
LEMMA GoneOnFrom ==
  ASSUME NEW s, NEW t, t \in Known \/ (CallsOf(t) = {} /\ ResultsOf(t) = {}), s.id = t.id,
         NEW C, NEW R, CallsOf(s) \subseteq CallsOf(t) \cup C,
         agent \in Collecting => ResultsOf(s) = ResultsOf(t) \cup R
  PROVE  From(s, t.id, C, R)
<1>1. Only(t.id, s.id, C) = C /\ Only(t.id, s.id, R) = R BY DEF Only
<1>2. CASE t \in Known BY <1>1, <1>2 DEF From
<1>3. CASE CallsOf(t) = {} /\ ResultsOf(t) = {} BY <1>1, <1>3 DEF From
<1>4. QED BY <1>2, <1>3

LEMMA EmptySteps ==
  ASSUME NEW f, \A i \in DOMAIN f : f[i].calls = <<>> /\ f[i].results = <<>>
  PROVE  \A s \in ToSet(f) : CallsOf(s) = {} /\ ResultsOf(s) = {}
BY SetOfNone DEF ToSet, CallsOf, ResultsOf

LEMMA StepHasNone ==
  ASSUME NEW id, NEW source, NEW words
  PROVE  Step(id, source, words).calls = <<>> /\ Step(id, source, words).results = <<>>
BY DEF Step

LEMMA SaidHasNone ==
  ASSUME NEW said, \A i \in DOMAIN said : \E id, source, words : said[i] = Step(id, source, words)
  PROVE  \A s \in ToSet(said) : CallsOf(s) = {} /\ ResultsOf(s) = {}
<1>1. \A i \in DOMAIN said : said[i].calls = <<>> /\ said[i].results = <<>> BY StepHasNone
<1>2. QED BY <1>1, EmptySteps

(* Steps that were closed have other numbers than the one in the making.      *)
LEMMA ClosedBefore ==
  ASSUME IInv
  PROVE  \A s \in ToSet(steps) : s.id # Growing.id
<1>1. Len(steps) \in Nat /\ DOMAIN steps = 1..Len(steps) BY CountedLength DEF IInv
<1>2. \A i \in DOMAIN steps : steps[i].id = i BY DEF IInv, Counted, HasId
<1>3. \A s \in ToSet(steps) : s.id \in 1..Len(steps) BY <1>1, <1>2 DEF ToSet
<1>4. Growing.id = Len(steps) + 1
  <2>1. CASE pending = <<>>
    <3>1. Growing = Step(stepId + 1, "agent", <<>>) /\ stepId = Len(steps) + 0
      BY <2>1, NoneIsCounted DEF Growing, IInv
    <3>2. QED BY <1>1, <3>1 DEF Step
  <2>2. ASSUME NEW step, pending = <<step>>, HasId(step, Len(steps) + 1)
        PROVE  Growing.id = Len(steps) + 1
    <3>1. Growing = step BY <2>2 DEF Growing
    <3>2. QED BY <2>2, <3>1 DEF HasId
  <2>3. QED BY <2>1, <2>2 DEF IInv
<1>5. QED BY <1>1, <1>3, <1>4

LEMMA GrowingKnown ==
  ASSUME Inv
  PROVE  /\ Growing \in Known \/ (CallsOf(Growing) = {} /\ ResultsOf(Growing) = {})
         /\ ToSet(pending) = {} \/ ToSet(pending) = {Growing}
<1>1. CASE pending = <<>>
  <2>1. Growing = Step(stepId + 1, "agent", <<>>) BY <1>1 DEF Growing
  <2>2. Growing.calls = <<>> /\ Growing.results = <<>> BY <2>1, StepHasNone
  <2>3. QED BY <1>1, <2>2, SetOfNone DEF CallsOf, ResultsOf
<1>2. CASE pending = <<Growing>>
  <2>1. ToSet(pending) = {Growing} BY <1>2, SetOfOne
  <2>2. QED BY <2>1 DEF Known
<1>3. QED BY <1>1, <1>2, GrowingTyped, InvIs

LEMMA AnsweredHas ==
  ASSUME FileTyped, NEW step \in Steps
  PROVE  /\ Answered(step).id = step.id /\ CallsOf(Answered(step)) = CallsOf(step)
         /\ ResultsOf(Answered(step)) = CallsOf(Answered(step)) \cap results
<1>1. step.calls \in Seq(Calls) BY DEF Steps
<1>2. ToSet(Chosen(step.calls, results)) = ToSet(step.calls) \cap results BY <1>1, ChosenFacts
<1>3. /\ Answered(step).id = step.id /\ Answered(step).calls = step.calls
      /\ Answered(step).results = Chosen(step.calls, results)
  BY DEF Answered, Steps
<1>4. QED BY <1>2, <1>3 DEF CallsOf, ResultsOf

(* The steps that _flush_pending leaves.                                      *)
LEMMA ClosedHas ==
  ASSUME Inv
  PROVE  \A s \in ToSet(Closed) :
           /\ \E t \in Known : /\ s.id = t.id /\ CallsOf(s) = CallsOf(t)
                               /\ agent \in Collecting => ResultsOf(s) = ResultsOf(t)
           /\ agent \in Collecting \/ s \in ToSet(steps) \/ ResultsOf(s) = CallsOf(s) \cap results
<1> DEFINE Shut(step) == IF agent \in Collecting THEN step ELSE Answered(step)
           shut == [i \in DOMAIN pending |-> Shut(pending[i])]
<1>1. Closed = steps \o shut BY DEF Closed
<1>2. steps \in Seq(Steps) /\ FileTyped BY InvIs DEF StepsTyped
<1>3. \A s \in ToSet(steps) : s \in Known BY DEF Known
<1>4. CASE pending = <<>>
  <2>1. shut = <<>> BY <1>4
  <2> HIDE DEF shut
  <2>2. Closed = steps BY <1>1, <1>2, <2>1
  <2>3. QED BY <1>3, <2>2
<1>5. CASE pending # <<>>
  <2>1. pending = <<Growing>> /\ Growing \in Steps BY <1>5, PendingIsMade
  <2>2. shut = <<Shut(Growing)>> BY <2>1
  <2>3. Growing \in Known BY <2>1, SetOfOne DEF Known
  <2>4. /\ Shut(Growing) \in Steps /\ Shut(Growing).id = Growing.id
        /\ CallsOf(Shut(Growing)) = CallsOf(Growing)
        /\ agent \in Collecting => ResultsOf(Shut(Growing)) = ResultsOf(Growing)
        /\ \/ agent \in Collecting
           \/ ResultsOf(Shut(Growing)) = CallsOf(Shut(Growing)) \cap results
    BY <1>2, <2>1, AnsweredTyped, AnsweredHas
  <2> HIDE DEF shut, Shut
  <2>5. <<Shut(Growing)>> \in Seq(Steps) BY <2>4
  <2>6. ToSet(Closed) = ToSet(steps) \cup ToSet(<<Shut(Growing)>>)
    <3>1. Closed = steps \o <<Shut(Growing)>> BY <1>1, <2>2, Zenon
    <3>2. ToSet(steps \o <<Shut(Growing)>>) = ToSet(steps) \cup ToSet(<<Shut(Growing)>>)
      BY <1>2, <2>5, SetOfConcat, Zenon
    <3>3. QED BY <3>1, <3>2, Zenon
  <2>7. ToSet(Closed) = ToSet(steps) \cup {Shut(Growing)} BY <2>6, SetOfOne
  <2>8. ASSUME NEW s \in ToSet(Closed)
        PROVE  /\ \E t \in Known : /\ s.id = t.id /\ CallsOf(s) = CallsOf(t)
                                   /\ agent \in Collecting => ResultsOf(s) = ResultsOf(t)
               /\ \/ agent \in Collecting \/ s \in ToSet(steps)
                  \/ ResultsOf(s) = CallsOf(s) \cap results
    <3>1. CASE s \in ToSet(steps) BY <1>3, <3>1
    <3>2. CASE s = Shut(Growing) BY <2>3, <2>4, <3>2
    <3>3. QED BY <2>7, <3>1, <3>2
  <2>9. QED BY <2>8
<1>6. QED BY <1>4, <1>5

LEMMA KnownNext == Known' = ToSet(steps') \cup ToSet(pending')
BY DEF Known, ToSet

LEMMA StillAnswers ==
  ASSUME UNCHANGED <<steps, pending>>
  PROVE  \A n, C : Comes(n, C, {}) /\ Closes
<1>1. Known' = Known BY KnownNext DEF Known
<1>2. \A n, C : \A s \in Known : From(s, n, C, {}) BY KeptFrom
<1>3. QED BY <1>1, <1>2 DEF Comes, Closes

LEMMA FlushAnswers ==
  ASSUME Inv, Flush
  PROVE  \A n, C : Comes(n, C, {}) /\ Closes
<1>1. steps' = Closed /\ pending' = <<>> BY DEF Flush
<1>2. Known' = ToSet(Closed) BY <1>1, KnownNext, SetOfNone
<1>3. ASSUME NEW n, NEW C, NEW s \in ToSet(Closed) PROVE From(s, n, C, {})
  BY ClosedHas, KeptFrom
<1>4. Closes BY <1>1, ClosedHas DEF Closes
<1>5. QED BY <1>2, <1>3, <1>4 DEF Comes

LEMMA SaysAnswers ==
  ASSUME Inv, NEW text \in Says, UserSays(text)
  PROVE  \A n, C : Comes(n, C, {}) /\ Closes
<1> DEFINE number == [n \in Nat |-> stepId + n]
           said == [i \in 1..Len(Words(text)) |-> Step(number[i], "user", Words(text))]
<1>1. number \in [Nat -> Nat] BY StepIdIsNat, InvIs
<1>2. said \in Seq(Steps) BY <1>1, SaidTyped
<1>3. \A s \in ToSet(said) : CallsOf(s) = {} /\ ResultsOf(s) = {}
  <2>1. \A i \in DOMAIN said : said[i] = Step(number[i], "user", Words(text)) OBVIOUS
  <2> HIDE DEF said
  <2>2. QED BY <2>1, SaidHasNone
<1>4. steps' = Closed \o said /\ pending' = <<>>
  <2>1. said = [i \in 1..Len(Words(text)) |-> Step(stepId + i, "user", Words(text))]
    <3>1. Len(Words(text)) \in Nat BY WordsAre
    <3>2. \A i \in 1..Len(Words(text)) : number[i] = stepId + i BY <3>1
    <3> HIDE DEF number
    <3>3. QED BY <3>2
  <2> HIDE DEF number, said
  <2>2. QED BY <2>1 DEF UserSays
<1> HIDE DEF number, said
<1>5. Closed \in Seq(Steps) BY ClosedIs, InvIs
<1>6. ToSet(steps') = ToSet(Closed) \cup ToSet(said) BY <1>2, <1>4, <1>5, SetOfConcat
<1>7. Known' = ToSet(Closed) \cup ToSet(said) BY <1>4, <1>6, KnownNext, SetOfNone
<1>8. ASSUME NEW n, NEW C, NEW s \in ToSet(Closed) PROVE From(s, n, C, {})
  BY ClosedHas, KeptFrom
<1>9. ASSUME NEW n, NEW C, NEW s \in ToSet(said) PROVE From(s, n, C, {})
  BY <1>3, NewFrom
<1>10. Closes BY <1>3, <1>6, ClosedHas DEF Closes
<1>11. QED BY <1>7, <1>8, <1>9, <1>10 DEF Comes

(* The step in the making goes on.                                            *)
LEMMA GoesOnAnswers ==
  ASSUME Inv, NEW step, step.id = Growing.id, NEW C, NEW R,
         CallsOf(step) \subseteq CallsOf(Growing) \cup C,
         agent \in Collecting => ResultsOf(step) = ResultsOf(Growing) \cup R,
         pending' = <<step>>, UNCHANGED steps
  PROVE  Comes(Growing.id, C, R) /\ Closes
<1>1. Known' = ToSet(steps) \cup {step} BY KnownNext, SetOfOne
<1>2. ASSUME NEW s \in ToSet(steps) PROVE From(s, Growing.id, C, R)
  <2>1. s \in Known /\ s.id # Growing.id BY ClosedBefore, InvIs DEF Known
  <2>2. QED BY <2>1, KeptFrom
<1>3. From(step, Growing.id, C, R) BY GrowingKnown, GoneOnFrom
<1>4. QED BY <1>1, <1>2, <1>3 DEF Comes, Closes

(* It goes on and ends.                                                       *)
LEMMA EndsAnswers ==
  ASSUME Inv, NEW step \in Steps, step.id = Growing.id, NEW C, NEW R,
         CallsOf(step) \subseteq CallsOf(Growing) \cup C,
         agent \in Collecting => ResultsOf(step) = ResultsOf(Growing) \cup R,
         agent \notin Collecting => ResultsOf(step) = CallsOf(step) \cap results,
         pending' = <<>>, steps' = Append(steps, step)
  PROVE  Comes(Growing.id, C, R) /\ Closes
<1>1. steps \in Seq(Steps) BY InvIs DEF StepsTyped
<1>2. ToSet(steps') = ToSet(steps) \cup {step} BY <1>1, SetOfAppend
<1>3. Known' = ToSet(steps) \cup {step} BY <1>2, KnownNext, SetOfNone
<1>4. ASSUME NEW s \in ToSet(steps) PROVE From(s, Growing.id, C, R)
  <2>1. s \in Known /\ s.id # Growing.id BY ClosedBefore, InvIs DEF Known
  <2>2. QED BY <2>1, KeptFrom
<1>5. From(step, Growing.id, C, R) BY GrowingKnown, GoneOnFrom
<1>6. QED BY <1>2, <1>3, <1>4, <1>5 DEF Comes, Closes

LEMMA GrownHas ==
  ASSUME Inv, NEW text \in Says \cup Replies, NEW calls \in Seq(Calls)
  PROVE  /\ Grown(text, calls) \in Steps /\ Grown(text, calls).id = Growing.id
         /\ CallsOf(Grown(text, calls)) = CallsOf(Growing) \cup ToSet(calls)
         /\ ResultsOf(Grown(text, calls)) = ResultsOf(Growing)
<1>1. /\ Grown(text, calls) \in Steps /\ Continues(Grown(text, calls), Growing)
      /\ Grown(text, calls).results = Growing.results
  BY GrownTyped, InvIs
<1>2. Growing \in Steps BY GrowingTyped, InvIs DEF Makes
<1>3. Growing.calls \in Seq(Calls) BY <1>2 DEF Steps
<1>4. Grown(text, calls) = [id |-> Growing.id, source |-> Growing.source,
                            words |-> Growing.words \o Words(text),
                            calls |-> Growing.calls \o calls, results |-> Growing.results,
                            used |-> Growing.used]
  BY <1>2, FilledIn DEF Grown
<1>5. Grown(text, calls).calls = Growing.calls \o calls BY <1>4
<1>6. ToSet(Growing.calls \o calls) = ToSet(Growing.calls) \cup ToSet(calls)
  BY <1>3, SetOfConcat
<1>7. QED BY <1>1, <1>5, <1>6 DEF CallsOf, ResultsOf, Continues

LEMMA ReadReads ==
  ASSUME NEW format, NEW kind, Read(format, kind)
  PROVE  Reads /\ agent = format /\ Entry.kind = kind
BY DEF Read, Reads

LEMMA SilentEntriesAnswer ==
  ASSUME Inv, AInv, ClaudeResult \/ ClaudeOther \/ CodexResult \/ CopilotResult \/ HermesTool
  PROVE  AInv'
<1>1. /\ UNCHANGED parsed
      /\ \E kind : \E format \in {"claude", "codex", "copilot", "hermes"} : Read(format, kind)
  BY DEF ClaudeResult, ClaudeOther, CodexResult, CopilotResult, HermesTool
<1>2. Reads /\ agent \notin Collecting /\ agent # "agent_probe" /\ agent # "agentknit"
  BY <1>1, ReadReads DEF Collecting
<1>3. UNCHANGED <<steps, pending>> BY <1>1 DEF parsed
<1>4. Comes(0, CallsOf(Entry), {}) /\ Closes BY <1>3, StillAnswers
<1>5. QED BY <1>2, <1>4, ReadAnswers, InvIs

LEMMA UserEntriesAnswer ==
  ASSUME Inv, AInv, ClaudeUser \/ CodexUser \/ CopilotUser \/ HermesUser \/ ExecPrompt
  PROVE  AInv'
<1>1. /\ UserSays(Entry.text)
      /\ \E format \in {"claude", "codex", "copilot", "hermes", "exec"} : Read(format, "user")
  BY DEF ClaudeUser, CodexUser, CopilotUser, HermesUser, ExecPrompt
<1>2. Entry.text \in Says BY <1>1, ReadTyped, InvIs
<1>3. /\ Reads /\ Entry.kind = "user" /\ agent # "agent_probe" /\ agent # "agentknit"
      /\ agent \in Collecting => agent = "exec"
  BY <1>1, ReadReads DEF Collecting
<1>4. Comes(0, CallsOf(Entry), {}) /\ Closes BY <1>1, <1>2, SaysAnswers
<1>5. LogInv BY DEF AInv
<1>6. agent \in Collecting => Own(0, CallsOf(Entry), Result, {})
  BY <1>3, <1>5, NoResult, InvIs
<1>7. QED BY <1>3, <1>4, <1>6, ReadAnswers, InvIs

LEMMA EndsOfTurnsAnswer ==
  ASSUME Inv, AInv, CodexEnd \/ CopilotEnd
  PROVE  AInv'
<1>1. Flush /\ \E format \in {"codex", "copilot"} : Read(format, "end") BY DEF CodexEnd, CopilotEnd
<1>2. Reads /\ agent \notin Collecting /\ agent # "agent_probe" /\ agent # "agentknit"
  BY <1>1, ReadReads DEF Collecting
<1>3. Comes(0, CallsOf(Entry), {}) /\ Closes BY <1>1, FlushAnswers
<1>4. QED BY <1>2, <1>3, ReadAnswers, InvIs

LEMMA KnitTaskAndUserAnswer ==
  ASSUME Inv, AInv, KnitTask \/ KnitUser
  PROVE  AInv'
<1>1. PICK kind \in {"task", "user"} : Read("agentknit", kind) BY DEF KnitTask, KnitUser
<1>2. /\ Reads /\ agent = "agentknit" /\ Entry.kind \in {"task", "user"} /\ agent # "agent_probe"
  BY <1>1, ReadReads
<1>3. Entry.text \in Says BY <1>1, ReadTyped, InvIs
<1>4. Comes(0, CallsOf(Entry), {}) /\ Closes
  <2>1. CASE KnitTask
    <3>1. UNCHANGED <<steps, pending>> BY <2>1 DEF KnitTask
    <3>2. QED BY <3>1, StillAnswers
  <2>2. CASE KnitUser
    <3>1. UserSays(Unless(Entry.text, lastUser)) BY <2>2 DEF KnitUser
    <3>2. Unless(Entry.text, lastUser) \in Says BY <1>3 DEF Unless, Says
    <3>3. QED BY <3>1, <3>2, SaysAnswers
  <2>3. QED BY <2>1, <2>2
<1>5. LogInv BY DEF AInv
<1>6. Own(0, CallsOf(Entry), Result, {}) BY <1>2, <1>5, NoResult, InvIs
<1>7. Answering' BY <1>2, AnsweringSafe, InvIs
<1>8. QED BY <1>2, <1>4, <1>6, <1>7, ReadAnswers, InvIs

LEMMA CallsAndMessagesAnswer ==
  ASSUME Inv, AInv, CodexMessage \/ CodexCall \/ CopilotMessage
  PROVE  AInv'
<1>1. PICK kind : \E format \in {"codex", "copilot"} : Read(format, kind)
  BY DEF CodexMessage, CodexCall, CopilotMessage
<1>2. Reads /\ agent \notin Collecting /\ agent # "agent_probe" /\ agent # "agentknit"
  BY <1>1, ReadReads DEF Collecting
<1>3. Entry.text \in Says \cup Replies /\ Entry.calls \in Seq(Calls) BY <1>1, ReadTyped, InvIs
<1>4. Blank \in Says \cup Replies /\ <<>> \in Seq(Calls) BY DEF Says
<1>5. PICK text \in Says \cup Replies, calls \in {<<>>, Entry.calls} :
        pending' = <<Grown(text, calls)>> /\ UNCHANGED steps
  BY <1>3, <1>4 DEF CodexMessage, CodexCall, CopilotMessage
<1>6. calls \in Seq(Calls) /\ ToSet(calls) \subseteq CallsOf(Entry)
  BY <1>3, <1>4, SetOfNone DEF CallsOf
<1>7. /\ Grown(text, calls).id = Growing.id
      /\ CallsOf(Grown(text, calls)) \subseteq CallsOf(Growing) \cup CallsOf(Entry)
  BY <1>6, GrownHas
<1>8. Comes(Growing.id, CallsOf(Entry), {}) /\ Closes BY <1>2, <1>5, <1>7, GoesOnAnswers
<1>9. QED BY <1>2, <1>8, ReadAnswers, InvIs

LEMMA FilledAnswers ==
  ASSUME Inv, NEW filled, pending' = [i \in DOMAIN pending |-> filled[i]], UNCHANGED steps,
         NEW C, NEW R, pending = <<>> => R = {},
         pending # <<>> =>
           /\ filled[1].id = Growing.id /\ CallsOf(filled[1]) \subseteq CallsOf(Growing) \cup C
           /\ agent \in Collecting => ResultsOf(filled[1]) = ResultsOf(Growing) \cup R
  PROVE  Comes(Growing.id, C, R) /\ Closes
<1>1. CASE pending = <<>>
  <2>1. pending' = pending BY <1>1
  <2>2. QED BY <1>1, <2>1, StillAnswers
<1>2. CASE pending # <<>>
  <2>1. pending' = <<filled[1]>> BY <1>2, PendingIsMade
  <2>2. QED BY <1>2, <2>1, GoesOnAnswers
<1>3. QED BY <1>1, <1>2

LEMMA UsedHas ==
  ASSUME NEW step \in Steps, NEW used \in 0..1
  PROVE  /\ [step EXCEPT !.used = used] \in Steps /\ [step EXCEPT !.used = used].id = step.id
         /\ CallsOf([step EXCEPT !.used = used]) = CallsOf(step)
         /\ ResultsOf([step EXCEPT !.used = used]) = ResultsOf(step)
<1> DEFINE new == [step EXCEPT !.used = used]
<1>1. new \in Steps /\ new.id = step.id /\ new.calls = step.calls /\ new.results = step.results
  BY DEF Steps
<1> HIDE DEF new
<1>2. CallsOf(new) = CallsOf(step) /\ ResultsOf(new) = ResultsOf(step)
  BY <1>1 DEF CallsOf, ResultsOf
<1>3. QED BY <1>1, <1>2 DEF new

LEMMA CodexUsageAnswers ==
  ASSUME Inv, AInv, CodexUsage
  PROVE  AInv'
<1> DEFINE filled == [i \in DOMAIN pending |-> [pending[i] EXCEPT !.used = Entry.used]]
<1>1. /\ Reads /\ agent = "codex" /\ agent \notin Collecting /\ Entry.used \in 0..1
  BY ReadReads, ReadTyped, InvIs DEF CodexUsage, Collecting
<1>2. pending' = filled /\ UNCHANGED steps BY DEF CodexUsage
<1>3. ASSUME pending # <<>>
      PROVE  /\ filled[1].id = Growing.id
             /\ CallsOf(filled[1]) \subseteq CallsOf(Growing) \cup CallsOf(Entry)
  <2>1. filled[1] = [Growing EXCEPT !.used = Entry.used] /\ Growing \in Steps
    BY <1>3, PendingIsMade
  <2>2. /\ [Growing EXCEPT !.used = Entry.used].id = Growing.id
        /\ CallsOf([Growing EXCEPT !.used = Entry.used]) = CallsOf(Growing)
    BY <1>1, <2>1, UsedHas
  <2> HIDE DEF filled
  <2>3. QED BY <2>1, <2>2
<1>4. pending' = [i \in DOMAIN pending |-> filled[i]] BY <1>2
<1> HIDE DEF filled
<1>5. Comes(Growing.id, CallsOf(Entry), {}) /\ Closes BY <1>1, <1>2, <1>3, <1>4, FilledAnswers
<1>6. QED BY <1>1, <1>5, ReadAnswers, InvIs

(* A step that ends with its answer: Claude's and Hermes' messages.           *)
LEMMA AnswerEnds ==
  ASSUME Inv, AInv, Reads, agent \in {"claude", "hermes"}, NEW step \in Steps,
         step.id = Growing.id, CallsOf(step) \subseteq CallsOf(Growing) \cup CallsOf(Entry),
         pending' = <<>>, steps' = Append(steps, Answered(step))
  PROVE  AInv'
<1>1. agent \notin Collecting /\ agent # "agent_probe" /\ agent # "agentknit" BY DEF Collecting
<1>2. /\ Answered(step) \in Steps /\ Answered(step).id = Growing.id
      /\ CallsOf(Answered(step)) \subseteq CallsOf(Growing) \cup CallsOf(Entry)
      /\ ResultsOf(Answered(step)) = CallsOf(Answered(step)) \cap results
  BY AnsweredTyped, AnsweredHas, InvIs
<1>3. Comes(Growing.id, CallsOf(Entry), {}) /\ Closes BY <1>1, <1>2, EndsAnswers
<1>4. QED BY <1>1, <1>3, ReadAnswers, InvIs

LEMMA ClaudeAssistantAnswers ==
  ASSUME Inv, AInv, ClaudeAssistant
  PROVE  AInv'
<1> DEFINE grown == Grown(Entry.text, Entry.calls)
           counted == [grown EXCEPT !.used = Entry.used]
<1>1. /\ Reads /\ agent = "claude" /\ Entry.text \in Says \cup Replies
      /\ Entry.calls \in Seq(Calls) /\ Entry.used \in 0..1
  BY ReadReads, ReadTyped, InvIs DEF ClaudeAssistant
<1>2. steps' = Append(steps, Answered(counted)) /\ UNCHANGED pending BY DEF ClaudeAssistant
<1>3. pending' = <<>> BY <1>1, <1>2, InvIs DEF IInv
<1>4. /\ grown \in Steps /\ grown.id = Growing.id
      /\ CallsOf(grown) = CallsOf(Growing) \cup CallsOf(Entry)
  BY <1>1, GrownHas DEF CallsOf
<1> HIDE DEF grown
<1>5. counted \in Steps /\ counted.id = grown.id /\ CallsOf(counted) = CallsOf(grown)
  BY <1>1, <1>4, UsedHas
<1> HIDE DEF counted
<1>6. CallsOf(counted) \subseteq CallsOf(Growing) \cup CallsOf(Entry) BY <1>4, <1>5
<1>7. QED BY <1>1, <1>2, <1>3, <1>4, <1>5, <1>6, AnswerEnds

LEMMA HermesAssistantAnswers ==
  ASSUME Inv, AInv, HermesAssistant
  PROVE  AInv'
<1> DEFINE step == Grown(Entry.text, Entry.calls)
<1>1. /\ Reads /\ agent = "hermes" /\ agent \notin Collecting /\ Entry.text \in Says \cup Replies
      /\ Entry.calls \in Seq(Calls)
  BY ReadReads, ReadTyped, InvIs DEF HermesAssistant, Collecting
<1>2. \/ pending' = <<step>> /\ UNCHANGED steps
      \/ pending' = <<>> /\ steps' = Append(steps, Answered(step))
  BY DEF HermesAssistant
<1>3. /\ step \in Steps /\ step.id = Growing.id
      /\ CallsOf(step) \subseteq CallsOf(Growing) \cup CallsOf(Entry)
  BY <1>1, GrownHas DEF CallsOf
<1> HIDE DEF step
<1>4. CASE pending' = <<step>> /\ UNCHANGED steps
  <2>1. Comes(Growing.id, CallsOf(Entry), {}) /\ Closes BY <1>1, <1>3, <1>4, GoesOnAnswers
  <2>2. QED BY <1>1, <2>1, ReadAnswers, InvIs
<1>5. CASE pending' = <<>> /\ steps' = Append(steps, Answered(step))
  BY <1>1, <1>3, <1>5, AnswerEnds
<1>6. QED BY <1>2, <1>4, <1>5

LEMMA CopilotTurnAnswers ==
  ASSUME Inv, AInv, CopilotTurn
  PROVE  AInv'
<1> DEFINE said == Words(Entry.text)
           answer == Words(Entry.reply)
           number == [n \in Nat |-> stepId + 1]
           next == [n \in Nat |-> stepId + Len(said) + 1]
           asked == [i \in 1..Len(said) |-> Step(number[i], "user", said)]
           told == [i \in 1..Len(answer) |-> Step(next[i], "agent", answer)]
<1>1. /\ Reads /\ agent = "copilot_db" /\ agent \notin Collecting
      /\ Entry.text \in Says \cup Replies /\ Entry.reply \in Says \cup Replies
  BY ReadReads, ReadTyped, InvIs DEF CopilotTurn, Collecting, Answers, Says
<1>2. /\ steps' = steps \o [i \in 1..Len(said) |-> Step(stepId + 1, "user", said)]
                        \o [i \in 1..Len(answer) |->
                              Step(stepId + Len(said) + 1, "agent", answer)]
      /\ UNCHANGED pending
  BY DEF CopilotTurn
<1>3. Len(said) \in Nat /\ Len(answer) \in Nat BY WordsAre
<1>4. /\ asked = [i \in 1..Len(said) |-> Step(stepId + 1, "user", said)]
      /\ told = [i \in 1..Len(answer) |-> Step(stepId + Len(said) + 1, "agent", answer)]
  <2>1. \A i \in 1..Len(said) : number[i] = stepId + 1 BY <1>3
  <2>2. \A i \in 1..Len(answer) : next[i] = stepId + Len(said) + 1 BY <1>3
  <2> HIDE DEF number, next, said, answer
  <2>3. QED BY <2>1, <2>2
<1>5. stepId \in Nat /\ number \in [Nat -> Nat] BY StepIdIsNat, InvIs
<1>6. next \in [Nat -> Nat]
  <2>1. stepId + Len(said) + 1 \in Nat BY <1>3, <1>5
  <2> HIDE DEF said
  <2>2. QED BY <2>1
<1> HIDE DEF number, next
<1>7. asked \in Seq(Steps) BY <1>1, <1>5, SaidTyped
<1>8. told \in Seq(Steps) BY <1>1, <1>6, SaidTyped
<1>9. /\ \A i \in DOMAIN asked : asked[i] = Step(number[i], "user", said)
      /\ \A i \in DOMAIN told : told[i] = Step(next[i], "agent", answer)
  OBVIOUS
<1>10. steps' = (steps \o asked) \o told BY <1>2, <1>4
<1> HIDE DEF asked, told, said, answer
<1>11. /\ \A s \in ToSet(asked) : CallsOf(s) = {} /\ ResultsOf(s) = {}
       /\ \A s \in ToSet(told) : CallsOf(s) = {} /\ ResultsOf(s) = {}
  BY <1>9, SaidHasNone
<1>12. steps \in Seq(Steps) /\ steps \o asked \in Seq(Steps) BY <1>7, InvIs DEF StepsTyped
<1>13. ToSet(steps') = ToSet(steps \o asked) \cup ToSet(told)
  <2>1. ToSet((steps \o asked) \o told) = ToSet(steps \o asked) \cup ToSet(told)
    BY <1>8, <1>12, SetOfConcat, Zenon
  <2>2. QED BY <1>10, <2>1, Zenon
<1>14. ToSet(steps \o asked) = ToSet(steps) \cup ToSet(asked) BY <1>7, <1>12, SetOfConcat
<1>15. Closes BY <1>11, <1>13, <1>14 DEF Closes
<1>16. Comes(0, CallsOf(Entry), {})
  <2>1. Known' = Known \cup ToSet(asked) \cup ToSet(told)
    BY <1>2, <1>13, <1>14, KnownNext DEF Known
  <2>2. \A s \in Known : From(s, 0, CallsOf(Entry), {}) BY KeptFrom
  <2>3. \A s \in ToSet(asked) \cup ToSet(told) : From(s, 0, CallsOf(Entry), {})
    BY <1>11, NewFrom
  <2>4. QED BY <2>1, <2>2, <2>3 DEF Comes
<1>17. QED BY <1>1, <1>15, <1>16, ReadAnswers, InvIs

LEMMA ExecMessageAnswers ==
  ASSUME Inv, AInv, ExecMessage
  PROVE  AInv'
<1> DEFINE step == Grown(Entry.text, <<>>)
<1>1. /\ Reads /\ agent = "exec" /\ Entry.kind = "assistant" /\ Entry.text \in Says \cup Replies
  BY ReadReads, ReadTyped, InvIs DEF ExecMessage
<1>2. pending' = <<step>> \/ UNCHANGED pending BY DEF ExecMessage
<1>3. UNCHANGED steps BY DEF ExecMessage
<1>4. /\ step.id = Growing.id /\ CallsOf(step) \subseteq CallsOf(Growing) \cup CallsOf(Entry)
      /\ ResultsOf(step) = ResultsOf(Growing) \cup {}
  <2>1. <<>> \in Seq(Calls) OBVIOUS
  <2>2. QED BY <1>1, <2>1, GrownHas, SetOfNone
<1> HIDE DEF step
<1>5. Comes(Growing.id, CallsOf(Entry), {}) /\ Closes
  <2>1. CASE pending' = <<step>> BY <1>3, <1>4, <2>1, GoesOnAnswers
  <2>2. CASE UNCHANGED pending BY <1>3, <2>2, StillAnswers
  <2>3. QED BY <1>2, <2>1, <2>2
<1>6. LogInv BY DEF AInv
<1>7. Own(Growing.id, CallsOf(Entry), Result, {}) BY <1>1, <1>6, NoResult, InvIs
<1>8. QED BY <1>1, <1>5, <1>7, ReadAnswers, InvIs

LEMMA ExecCommandAnswers ==
  ASSUME Inv, AInv, ExecCommand
  PROVE  AInv'
<1> DEFINE grown == Grown(Blank, Entry.calls)
           output == IF Entry.id = 0 THEN <<>> ELSE <<Entry.id>>
           R == IF Entry.id = 0 THEN {} ELSE {Entry.id}
           step == [grown EXCEPT !.results = @ \o output]
<1>1. /\ Reads /\ agent = "exec" /\ Entry.kind = "ran" /\ Entry.calls \in Seq(Calls)
      /\ Entry \in LogLines(agent)
  BY ReadReads, ReadTyped, InvIs DEF ExecCommand
<1>2. pending' = <<step>> /\ UNCHANGED steps BY DEF ExecCommand
<1>3. /\ grown \in Steps /\ grown.id = Growing.id
      /\ CallsOf(grown) = CallsOf(Growing) \cup CallsOf(Entry)
      /\ ResultsOf(grown) = ResultsOf(Growing)
  <2>1. Blank \in Says \cup Replies BY DEF Says
  <2>2. QED BY <1>1, <2>1, GrownHas DEF CallsOf
<1> HIDE DEF grown
<1>4. output \in Seq(Calls) /\ ToSet(output) = R
  <2>1. Entry.id \in 0..MaxCalls BY <1>1 DEF LogLines
  <2>2. Entry.id # 0 => Entry.id \in Calls BY <2>1, BoundsAssumption DEF Calls
  <2>3. CASE Entry.id = 0 BY <2>3, SetOfNone
  <2>4. CASE Entry.id # 0 BY <2>2, <2>4, SetOfOne
  <2>5. QED BY <2>3, <2>4
<1> HIDE DEF output, R
<1>5. step.id = grown.id /\ step.calls = grown.calls /\ step.results = grown.results \o output
  BY <1>3 DEF Steps
<1> HIDE DEF step
<1>6. ToSet(grown.results \o output) = ToSet(grown.results) \cup R
  <2>1. grown.results \in Seq(Calls) BY <1>3 DEF Steps
  <2>2. ToSet(grown.results \o output) = ToSet(grown.results) \cup ToSet(output)
    BY <1>4, <2>1, SetOfConcat
  <2>3. QED BY <1>4, <2>2
<1>7. /\ step.id = Growing.id /\ CallsOf(step) \subseteq CallsOf(Growing) \cup CallsOf(Entry)
      /\ ResultsOf(step) = ResultsOf(Growing) \cup R
  BY <1>3, <1>5, <1>6 DEF CallsOf, ResultsOf
<1>8. Comes(Growing.id, CallsOf(Entry), R) /\ Closes BY <1>2, <1>7, GoesOnAnswers
<1>9. Own(Growing.id, CallsOf(Entry), Result, R) BY <1>1, OwnCommand, InvIs DEF R
<1>10. QED BY <1>1, <1>8, <1>9, ReadAnswers, InvIs

LEMMA ExecEndAnswers ==
  ASSUME Inv, AInv, ExecEnd
  PROVE  AInv'
<1> DEFINE filled == [i \in DOMAIN pending |-> [pending[i] EXCEPT !.used = Entry.used]]
           step == [Growing EXCEPT !.used = Entry.used]
<1>1. /\ Reads /\ agent = "exec" /\ Entry.kind = "end" /\ Entry.used \in 0..1
  BY ReadReads, ReadTyped, InvIs DEF ExecEnd
<1>2. steps' = steps \o filled /\ pending' = <<>> BY DEF ExecEnd
<1>3. Comes(Growing.id, CallsOf(Entry), {}) /\ Closes
  <2>1. CASE pending = <<>>
    <3>1. filled = <<>> BY <2>1
    <3> HIDE DEF filled
    <3>2. steps \o <<>> = steps BY InvIs DEF StepsTyped
    <3>3. UNCHANGED <<steps, pending>> BY <1>2, <2>1, <3>1, <3>2
    <3>4. QED BY <3>3, StillAnswers
  <2>2. CASE pending # <<>>
    <3>1. pending = <<Growing>> /\ Growing \in Steps BY <2>2, PendingIsMade
    <3>2. filled = <<step>> BY <3>1
    <3>3. /\ step \in Steps /\ step.id = Growing.id /\ CallsOf(step) = CallsOf(Growing)
          /\ ResultsOf(step) = ResultsOf(Growing)
      BY <1>1, <3>1, UsedHas
    <3> HIDE DEF filled, step
    <3>4. steps' = Append(steps, step) BY <1>2, <3>2, <3>3, InvIs DEF StepsTyped
    <3>5. agent \in Collecting BY <1>1 DEF Collecting
    <3>6. /\ CallsOf(step) \subseteq CallsOf(Growing) \cup CallsOf(Entry)
          /\ ResultsOf(step) = ResultsOf(Growing) \cup {}
      BY <3>3
    <3>7. QED BY <1>2, <3>3, <3>4, <3>5, <3>6, EndsAnswers
  <2>3. QED BY <2>1, <2>2
<1>4. LogInv BY DEF AInv
<1>5. Own(Growing.id, CallsOf(Entry), Result, {}) BY <1>1, <1>4, NoResult, InvIs
<1>6. QED BY <1>1, <1>3, <1>5, ReadAnswers, InvIs

LEMMA KnitAssistantAnswers ==
  ASSUME Inv, AInv, KnitAssistant
  PROVE  AInv'
<1> DEFINE text == Unless(task, lastUser)
           number == [n \in Nat |-> stepId + 1]
           asked == [i \in 1..Len(Words(text)) |-> Step(number[i], "user", Words(text))]
           id == stepId + Len(Words(text)) + 1
           begun == Step(id, "agent", Words(Entry.text))
           step == [begun EXCEPT !.calls = Entry.calls]
<1>1. /\ Reads /\ agent = "agentknit" /\ Entry.kind = "assistant"
      /\ Entry.text \in Says \cup Replies /\ Entry.calls \in Seq(Calls)
  BY ReadReads, ReadTyped, InvIs DEF KnitAssistant
<1>2. text \in Says BY InvIs DEF CountersTyped, Says, Unless
<1>3. /\ steps' = Closed \o [i \in 1..Len(Words(text)) |-> Step(stepId + 1, "user", Words(text))]
      /\ pending' = <<step>>
  BY DEF KnitAssistant
<1> HIDE DEF text
<1>4. Len(Words(text)) \in Nat BY WordsAre
<1>5. asked = [i \in 1..Len(Words(text)) |-> Step(stepId + 1, "user", Words(text))]
  <2>1. \A i \in 1..Len(Words(text)) : number[i] = stepId + 1 BY <1>4
  <2> HIDE DEF number
  <2>2. QED BY <2>1
<1>6. stepId \in Nat /\ number \in [Nat -> Nat] BY StepIdIsNat, InvIs
<1>7. asked \in Seq(Steps) BY <1>2, <1>6, SaidTyped
<1>8. \A s \in ToSet(asked) : CallsOf(s) = {} /\ ResultsOf(s) = {}
  <2>1. \A i \in DOMAIN asked : asked[i] = Step(number[i], "user", Words(text)) OBVIOUS
  <2> HIDE DEF asked
  <2>2. QED BY <2>1, SaidHasNone
<1>9. step.id = id /\ CallsOf(step) = CallsOf(Entry) /\ ResultsOf(step) = {}
  <2>1. begun \in Steps /\ begun.id = id /\ begun.results = <<>>
    <3>1. Words(Entry.text) \in Seq(Texts \cup Replies) /\ id \in Nat
      BY <1>1, <1>4, <1>6, WordsTyped
    <3>2. Step(id, "agent", Words(Entry.text)).id = id BY DEF Step
    <3>3. QED BY <3>1, <3>2, StepTyped
  <2> HIDE DEF begun, id
  <2>2. step.id = id /\ step.calls = Entry.calls /\ step.results = <<>> BY <2>1 DEF Steps
  <2> HIDE DEF step
  <2>3. QED BY <2>2, SetOfNone DEF CallsOf, ResultsOf
<1> HIDE DEF asked, begun, step, number, id
<1>10. Closed \in Seq(Steps) BY ClosedIs, InvIs
<1>11. ToSet(steps') = ToSet(Closed) \cup ToSet(asked)
  <2>1. steps' = Closed \o asked BY <1>3, <1>5
  <2>2. QED BY <1>7, <1>10, <2>1, SetOfConcat
<1>12. Known' = ToSet(Closed) \cup ToSet(asked) \cup {step}
  BY <1>3, <1>11, KnownNext, SetOfOne
<1>13. \A s \in ToSet(Closed) : From(s, id, CallsOf(Entry), {}) BY ClosedHas, KeptFrom
<1>14. \A s \in ToSet(asked) : From(s, id, CallsOf(Entry), {}) BY <1>8, NewFrom
<1>15. From(step, id, CallsOf(Entry), {})
  <2>1. Only(id, step.id, CallsOf(Entry)) = CallsOf(step) /\ Only(id, step.id, {}) = {}
    BY <1>9 DEF Only
  <2>2. QED BY <1>9, <2>1 DEF From
<1>16. Comes(id, CallsOf(Entry), {}) BY <1>12, <1>13, <1>14, <1>15 DEF Comes
<1>17. Closes BY <1>1 DEF Closes, Collecting
<1>18. LogInv BY DEF AInv
<1>19. Own(id, CallsOf(Entry), Result, {}) BY <1>1, <1>18, NoResult, InvIs
<1>20. Answering'
  <2>1. \E t \in ToSet(pending') : CallsOf(Entry) \subseteq CallsOf(t) BY <1>3, <1>9, SetOfOne
  <2>2. QED BY <1>1, <2>1, AnsweringSafe, InvIs
<1>21. QED BY <1>1, <1>16, <1>17, <1>19, <1>20, ReadAnswers, InvIs

LEMMA KnitToolAnswers ==
  ASSUME Inv, AInv, KnitTool
  PROVE  AInv'
<1> DEFINE filled == [i \in DOMAIN pending |->
                        [pending[i] EXCEPT !.results = Append(@, Entry.id)]]
           R == IF pending = <<>> THEN {} ELSE {Entry.id}
<1>1. /\ Reads /\ agent = "agentknit" /\ Entry.kind = "result" /\ Entry.id \in Calls
      /\ agent \in Collecting
  BY ReadReads, ReadTyped, InvIs DEF KnitTool, Collecting
<1>2. pending' = filled /\ UNCHANGED steps BY DEF KnitTool
<1>3. ASSUME pending # <<>>
      PROVE  /\ filled[1].id = Growing.id /\ CallsOf(filled[1]) = CallsOf(Growing)
             /\ ResultsOf(filled[1]) = ResultsOf(Growing) \cup {Entry.id}
  <2>1. filled[1] = [Growing EXCEPT !.results = Append(@, Entry.id)] /\ Growing \in Steps
    BY <1>3, PendingIsMade
  <2> HIDE DEF filled
  <2>2. /\ filled[1].id = Growing.id /\ filled[1].calls = Growing.calls
        /\ filled[1].results = Append(Growing.results, Entry.id)
    BY <2>1 DEF Steps
  <2>3. Growing.results \in Seq(Calls) BY <2>1 DEF Steps
  <2>4. ToSet(Append(Growing.results, Entry.id)) = ToSet(Growing.results) \cup {Entry.id}
    BY <1>1, <2>3, SetOfAppend
  <2>5. QED BY <2>2, <2>4 DEF CallsOf, ResultsOf
<1>4. pending' = [i \in DOMAIN pending |-> filled[i]] BY <1>2
<1>5. ASSUME pending # <<>>
      PROVE  ToSet(pending) = {Growing} /\ ToSet(pending') = {filled[1]}
  <2>1. pending = <<Growing>> BY <1>5, PendingIsMade
  <2> HIDE DEF filled
  <2>2. pending' = <<filled[1]>> BY <1>4, <2>1
  <2>3. QED BY <2>1, <2>2, SetOfOne
<1> HIDE DEF filled
<1>6. Comes(Growing.id, CallsOf(Entry), R) /\ Closes
  BY <1>1, <1>2, <1>3, <1>4, FilledAnswers
<1>7. Own(Growing.id, CallsOf(Entry), Result, R)
  <2>1. CASE pending = <<>> BY <1>1, <2>1, OwnAnswer, InvIs
  <2>2. CASE pending # <<>>
    <3>1. pending = <<Growing>> BY <2>2, PendingIsMade
    <3>2. QED BY <1>1, <2>2, <3>1, OwnAnswer, InvIs
  <2>3. QED BY <2>1, <2>2
<1>8. Answering'
  <2>1. \A s \in ToSet(pending) : \E t \in ToSet(pending') : CallsOf(s) \subseteq CallsOf(t)
    <3>1. CASE pending = <<>> BY <3>1, SetOfNone
    <3>2. CASE pending # <<>> BY <1>3, <1>5, <3>2
    <3>3. QED BY <3>1, <3>2
  <2>2. QED BY <1>1, <2>1, AnsweringSafe, InvIs
<1> HIDE DEF R
<1>9. QED BY <1>1, <1>6, <1>7, <1>8, ReadAnswers, InvIs

(* The first generation of agent_probe does not say which call a result is of. *)
LEMMA ProbesAnswer ==
  ASSUME Inv, AInv, ProbeUser \/ ProbeCall \/ ProbeResult \/ ProbeAssistant \/ ProbeUsage
  PROVE  AInv'
<1>1. \E kind : Read("agent_probe", kind)
  BY DEF ProbeUser, ProbeCall, ProbeResult, ProbeAssistant, ProbeUsage
<1>2. Reads /\ agent = "agent_probe" /\ LogInv BY <1>1, ReadReads DEF AInv
<1>3. LogInv' BY <1>2, ReadsOn, InvIs
<1>4. agent' = "agent_probe" BY <1>2 DEF Reads, file
<1>5. "agent_probe" \in Collecting BY DEF Collecting
<1>6. QED BY <1>3, <1>4, <1>5 DEF AInv

(* The end of the file: nothing comes.                                        *)
LEMMA CloseAnswers ==
  ASSUME Inv, AInv, Close
  PROVE  AInv'
<1>1. /\ phase = "reading" /\ phase' = "done" /\ pos > Len(log) /\ Flush
      /\ UNCHANGED <<agent, log, made, unanswered, pos, results>>
  BY DEF Close, file
<1>2. Comes(0, {}, {}) /\ Closes BY <1>1, FlushAnswers
<1>3. LogInv'
  <2>1. LogInv BY DEF AInv
  <2>2. LogFacts(log)' /\ OfCallsMade' BY <1>1, <2>1, SameLog
  <2>3. (results = ToolResults(log))' BY <1>1, <2>1 DEF LogInv, ToolResults
  <2>4. QED BY <1>1, <2>1, <2>2, <2>3 DEF LogInv
<1>4. ReadCalls' = ReadCalls \cup {} /\ ReadResults' = ReadResults \cup {}
  BY <1>1 DEF ReadCalls, ReadResults, CallsOf
<1>5. agent # "agent_probe" => CallsInv' BY <1>2, <1>4, CallsSafe DEF AInv
<1>6. agent \notin Collecting => LookedUp' BY <1>1, <1>2, LookedUpSafe DEF AInv
<1>7. agent \in {"agentknit", "exec"} => Collected'
  <2>1. Own(0, {}, {}, {}) BY DEF Own
  <2>2. agent \in {"agentknit", "exec"} => agent \in Collecting /\ Collected
    BY DEF AInv, Collecting
  <2>3. QED BY <1>2, <1>4, <2>1, <2>2, CollectedSafe
<1>8. QED BY <1>1, <1>3, <1>5, <1>6, <1>7 DEF AInv

LEMMA NothingAnswers ==
  ASSUME AInv, UNCHANGED vars
  PROVE  AInv'
<1>1. UNCHANGED <<agent, log, made, unanswered, phase, pos, results, steps, pending>>
  BY DEF vars, file, parsed
<1>2. LogInv'
  <2>1. LogInv BY DEF AInv
  <2>2. LogFacts(log)' /\ OfCallsMade' BY <1>1, <2>1, SameLog
  <2>3. (results = ToolResults(log))' <=> results = ToolResults(log) BY <1>1 DEF ToolResults
  <2>4. QED BY <1>1, <2>1, <2>2, <2>3 DEF LogInv
<1>3. Known' = Known /\ ReadCalls' = ReadCalls /\ ReadResults' = ReadResults
  BY <1>1, KnownNext DEF Known, ReadCalls, ReadResults, CallsOf
<1>4. CallsInv' <=> CallsInv BY <1>3 DEF CallsInv, CallsOf
<1>5. LookedUp' <=> LookedUp BY <1>1 DEF LookedUp, CallsOf, ResultsOf, ToSet
<1>6. Collected' <=> Collected BY <1>3 DEF Collected, CallsOf, ResultsOf
<1>7. Answering' <=> Answering BY <1>1 DEF Answering, Between, CallsOf, ToSet
<1>8. QED BY <1>1, <1>2, <1>4, <1>5, <1>6, <1>7 DEF AInv

LEMMA NextAnswers == Inv /\ AInv /\ [Next]_vars => AInv'
<1>1. SUFFICES ASSUME Inv, AInv, [Next]_vars PROVE AInv'
  OBVIOUS
<1>2. CASE (\E e \in Entries : Write(e)) \/ Crash \/ Open \/ Close \/ Resume \/ UNCHANGED vars
  BY <1>1, <1>2, WriteAnswers, CrashAnswers, OpenAnswers, CloseAnswers, ResumeAnswers,
     NothingAnswers, InvIs
<1>3. CASE \/ ClaudeUser \/ ClaudeResult \/ ClaudeAssistant \/ ClaudeOther
           \/ CodexUser \/ CodexMessage \/ CodexCall \/ CodexResult \/ CodexUsage \/ CodexEnd
           \/ CopilotUser \/ CopilotMessage \/ CopilotResult \/ CopilotEnd \/ CopilotTurn
           \/ HermesUser \/ HermesAssistant \/ HermesTool
  BY <1>1, <1>3, UserEntriesAnswer, SilentEntriesAnswer, ClaudeAssistantAnswers,
     CallsAndMessagesAnswer, CodexUsageAnswers, EndsOfTurnsAnswer, CopilotTurnAnswers,
     HermesAssistantAnswers
<1>4. CASE \/ ProbeUser \/ ProbeCall \/ ProbeResult \/ ProbeAssistant \/ ProbeUsage
           \/ KnitTask \/ KnitUser \/ KnitAssistant \/ KnitTool
           \/ ExecPrompt \/ ExecMessage \/ ExecCommand \/ ExecEnd
  BY <1>1, <1>4, ProbesAnswer, KnitTaskAndUserAnswer, KnitAssistantAnswers, KnitToolAnswers,
     UserEntriesAnswer, ExecMessageAnswers, ExecCommandAnswers, ExecEndAnswers
<1>5. QED BY <1>1, <1>2, <1>3, <1>4, Zenon DEF Next

(* When the file is read, every result that is in it is with its call.        *)
LEMMA AnswersAreShown ==
  ASSUME Inv, AInv
  PROVE  AnswersShown
<1>1. SUFFICES ASSUME phase = "done", agent # "agent_probe", NEW i \in DOMAIN steps,
                      NEW j \in DOMAIN steps
               PROVE  /\ ToSet(steps[i].calls) \cap ResultsInLog =
                           ToSet(steps[i].calls) \cap ToSet(steps[i].results)
                      /\ i # j => ToSet(steps[i].results) \cap ToSet(steps[j].calls) = {}
  BY DEF AnswersShown
<1> DEFINE s == steps[i]
           t == steps[j]
<1>2. SUFFICES /\ CallsOf(s) \cap ResultsInLog = CallsOf(s) \cap ResultsOf(s)
               /\ i # j => ResultsOf(s) \cap CallsOf(t) = {}
  BY DEF CallsOf, ResultsOf
<1>3. /\ s \in ToSet(steps) /\ t \in ToSet(steps) /\ s \in Known /\ t \in Known
      /\ i # j => s.id # t.id
  <2>1. s.id = i /\ t.id = j BY InvIs DEF IInv, Counted, HasId
  <2>2. QED BY <2>1 DEF Known, ToSet
<1> HIDE DEF s, t
<1>4. LogInv /\ CallsInv /\ pos > Len(log) /\ results = ToolResults(log)
  BY <1>1 DEF AInv, LogInv
<1>5. /\ 1..pos - 1 = DOMAIN log /\ 1..pos - 1 = 1..Len(log)
      /\ DOMAIN log = 1..Len(log)
  BY <1>4, InvIs DEF FileTyped
<1>6. ReadResults = ResultsInLog BY <1>5 DEF ReadResults, ResultsInLog
<1>7. CASE agent \in Collecting
  <2>1. agent \in {"agentknit", "exec"} BY <1>1, <1>7 DEF Collecting
  <2>2. Collected BY <2>1 DEF AInv
  <2>3. /\ ResultsOf(s) \subseteq ResultsInLog
        /\ CallsOf(s) \cap ResultsInLog \subseteq ResultsOf(s)
        /\ i # j => ResultsOf(s) \cap CallsOf(t) = {}
    BY <1>3, <1>6, <2>2 DEF Collected
  <2>4. QED BY <2>3
<1>8. CASE agent \notin Collecting
  <2>1. LookedUp BY <1>8 DEF AInv
  <2>2. ResultsOf(s) = CallsOf(s) \cap results BY <1>3, <2>1 DEF LookedUp
  <2>3. \A k \in DOMAIN log : log[k].kind \in {"result", "ran"} <=> log[k].kind = "result"
    BY <1>5, <1>8, LinesTyped, InvIs
  <2>4. results = ResultsInLog BY <1>4, <1>8, <2>3 DEF ToolResults, ResultsInLog
  <2>5. i # j => CallsOf(s) \cap CallsOf(t) = {} BY <1>3, <1>4 DEF CallsInv
  <2>6. QED BY <2>2, <2>4, <2>5
<1>9. QED BY <1>7, <1>8

(* A call shows its result, wherever in the file the result is, and a step    *)
(* shows no result of a call of another step: _collect_tool_results, the      *)
(* steps of every format, and the order in which agents write.                *)
THEOREM AnswersAreWithCalls == Spec => []AnswersShown
<1>1. Init => Inv /\ AInv BY InitTyped, InitAnswers
<1>2. Inv /\ AInv /\ [Next]_vars => (Inv /\ AInv)'
  <2>1. Inv /\ [Next]_vars => Inv' BY NextTyped
  <2>2. QED BY <2>1, NextAnswers
<1>3. Inv /\ AInv => AnswersShown BY AnswersAreShown
<1>4. QED BY <1>1, <1>2, <1>3, PTL DEF Spec

-----------------------------------------------------------------------------
(* Nothing is lost.  What is told, called and used by steps.                  *)

Speech(s) == Joined([i \in DOMAIN s |-> Voiced(s[i])])
Used(s) == Added([i \in DOMAIN s |-> s[i].used])

(* What a line of the log says and uses, by its kind.                         *)
Plain(e) ==
  /\ e.kind \notin {"assistant", "call", "ran"} => e.calls = <<>>
  /\ e.kind = "assistant" /\ agent \in {"codex", "agent_probe", "exec"} => e.calls = <<>>
  /\ e.kind \notin {"user", "assistant", "task", "turn"} => e.text = Blank
  /\ e.kind # "turn" => e.reply = Blank

PlainLog ==
  /\ \A i \in DOMAIN log : Plain(log[i])
  /\ agent = "exec" =>
       \A i, j \in DOMAIN log : log[i].kind = "end" /\ i < j => log[j].kind = "torn"

(* Of the first n lines of agentknit's: the task that is held back, as no     *)
(* message followed, and the last of the prompts that were shown.             *)
Quiet(e) == e.kind \notin {"user", "assistant"} /\ (e.kind = "task" => e.text = Blank)

HeldIn(lines, i, n) ==
  /\ lines[i].kind = "task" /\ lines[i].text # Blank
  /\ \A k \in i + 1..n : Quiet(lines[k])

HoldsIn(lines, n, text) ==
  IF text = Blank THEN \A i \in 1..n : ~HeldIn(lines, i, n)
  ELSE \E i \in 1..n : HeldIn(lines, i, n) /\ lines[i].text = text

LastIn(lines, P, n, text) ==
  \/ P = {} /\ text = Blank
  \/ \E i \in P : lines[i].text = text /\ P \cap i + 1..n = {}

HoldsTask == HoldsIn(log, pos - 1, task)
LastPrompt == LastIn(log, Prompts, pos - 1, lastUser)

Metered == {"claude", "codex", "exec"}   \* the formats whose steps say what they used

SpentSoFar ==
  /\ Used(Shown) <= IF agent \in Metered THEN prompt ELSE 0
  /\ agent = "codex" => prompt = UsedBy(pos - 1)
  /\ agent = "exec" /\ pos <= Len(log) => Entry.kind = "torn" \/ Used(Shown) <= 0
  /\ phase = "done" => Used(steps) <= total

Making == \A i \in DOMAIN pending : pending[i].source = "agent"

NothingShown ==
  /\ steps = <<>> /\ pending = <<>> /\ toolCalls = 0 /\ prompt = 0
  /\ task = Blank /\ lastUser = Blank

Telling ==
  /\ Speech(Shown) = Said
  /\ AllCalls(Shown) = AllCalls(Seen) /\ toolCalls = Len(AllCalls(Seen))

Holding == agent = "agentknit" => HoldsTask /\ LastPrompt

LInv ==
  /\ PlainLog /\ Making
  /\ phase = "writing" => NothingShown
  /\ Telling /\ Holding /\ SpentSoFar

-----------------------------------------------------------------------------
(* Sequences one after the other, and sums: one more of them *)

JoinedTo(f, s, n) == \A i \in 0..n : f[i] = IF i = 0 THEN <<>> ELSE f[i - 1] \o s[i]

LEMMA NoneAfter ==
  ASSUME NEW D, NEW x \in Seq(D)
  PROVE  x \o <<>> = x
OBVIOUS

LEMMA JoinedIs ==
  ASSUME NEW D, NEW s \in Seq(Seq(D))
  PROVE  \E f \in [0..Len(s) -> Seq(D)] : JoinedTo(f, s, Len(s)) /\ Joined(s) = f[Len(s)]
<1> DEFINE g == [k \in 1..Len(s) |-> [x \in Seq(D) |-> x \o s[k]]]
           Rec(f) == f = [i \in 0..Len(s) |-> IF i = 0 THEN <<>> ELSE f[i - 1] \o s[i]]
<1>1. \A k \in 1..Len(s) : s[k] \in Seq(D) OBVIOUS
<1>2. \A k \in 1..Len(s) : g[k] \in [Seq(D) -> Seq(D)]
  <2>1. ASSUME NEW k \in 1..Len(s), NEW x \in Seq(D) PROVE x \o s[k] \in Seq(D)
    BY <1>1, ConcatProperties
  <2>2. QED BY <2>1
<1>3. Len(s) \in Nat /\ <<>> \in Seq(D) OBVIOUS
<1>4. PICK f \in [0..Len(s) -> Seq(D)] : Follows(f, <<>>, g, Len(s))
  <2>1. Maps(g, Len(s), Seq(D)) BY <1>2 DEF Maps
  <2> HIDE DEF g
  <2>2. QED BY <1>3, <2>1, RecursionExists
<1>5. ASSUME NEW i \in 0..Len(s)
      PROVE  f[i] = IF i = 0 THEN <<>> ELSE f[i - 1] \o s[i]
  <2>1. CASE i = 0 BY <1>4, <2>1 DEF Follows
  <2>2. CASE i # 0
    <3>1. i \in 1..Len(s) /\ i - 1 \in 0..Len(s) BY <2>2
    <3>2. f[i] = g[i][f[i - 1]] BY <1>4, <2>2 DEF Follows
    <3>3. f[i - 1] \in Seq(D) BY <1>4, <3>1
    <3>4. QED BY <2>2, <3>1, <3>2, <3>3
  <2>3. QED BY <2>1, <2>2
<1> HIDE DEF g
<1>6. Rec(f) BY <1>4, <1>5
<1>7. Joined(s) = (CHOOSE c : Rec(c))[Len(s)] BY DEF Joined
<1>8. Rec(CHOOSE c : Rec(c)) BY <1>6
<1>9. ASSUME NEW c, Rec(c) PROVE c \in [0..Len(s) -> Seq(D)] /\ JoinedTo(c, s, Len(s))
  <2>1. JoinedTo(c, s, Len(s)) BY <1>9 DEF JoinedTo
  <2> DEFINE N == {k \in Nat : k <= Len(s) => c[k] \in Seq(D)}
  <2>2. 0 \in N BY <1>9
  <2>3. ASSUME NEW k \in Nat, k \in N PROVE k + 1 \in N
    <3>1. SUFFICES ASSUME k + 1 <= Len(s) PROVE c[k + 1] \in Seq(D)
      OBVIOUS
    <3>2. c[k] \in Seq(D) BY <1>3, <2>3, <3>1
    <3>3. k + 1 \in 0..Len(s) /\ k + 1 # 0 /\ (k + 1) - 1 = k /\ k + 1 \in 1..Len(s) BY <3>1
    <3>4. c[k + 1] = c[k] \o s[k + 1] BY <2>1, <3>3 DEF JoinedTo
    <3>5. s[k + 1] \in Seq(D) BY <1>1, <3>3
    <3>6. QED BY <3>2, <3>4, <3>5, ConcatProperties
  <2> HIDE DEF N
  <2>4. Nat \subseteq N BY <2>2, <2>3, EveryNumber
  <2>5. \A k \in 0..Len(s) : c[k] \in Seq(D) BY <2>4 DEF N
  <2>6. DOMAIN c = 0..Len(s) /\ c = [k \in DOMAIN c |-> c[k]] BY <1>9
  <2>7. QED BY <2>1, <2>5, <2>6
<1> HIDE DEF Rec
<1>10. QED BY <1>7, <1>8, <1>9

LEMMA JoinedTyped ==
  ASSUME NEW D, NEW s \in Seq(Seq(D))
  PROVE  Joined(s) \in Seq(D)
<1>1. PICK f \in [0..Len(s) -> Seq(D)] : JoinedTo(f, s, Len(s)) /\ Joined(s) = f[Len(s)]
  BY JoinedIs
<1>2. Len(s) \in 0..Len(s) OBVIOUS
<1>3. QED BY <1>1, <1>2

LEMMA JoinedNone == Joined(<<>>) = <<>>
<1>1. <<>> \in Seq(Seq({})) OBVIOUS
<1>2. Joined(<<>>) \in Seq({}) BY <1>1, JoinedTyped
<1>3. QED BY <1>2

LEMMA JoinedMore ==
  ASSUME NEW D, NEW s \in Seq(Seq(D)), NEW x \in Seq(D)
  PROVE  Joined(Append(s, x)) = Joined(s) \o x
<1> DEFINE t == Append(s, x)
<1>1. /\ t \in Seq(Seq(D)) /\ Len(s) \in Nat /\ Len(t) = Len(s) + 1 /\ t[Len(s) + 1] = x
      /\ \A i \in 1..Len(s) : t[i] = s[i]
  BY AppendProperties
<1> HIDE DEF t
<1>2. PICK f \in [0..Len(s) -> Seq(D)] : JoinedTo(f, s, Len(s)) /\ Joined(s) = f[Len(s)]
  BY JoinedIs
<1>3. PICK g \in [0..Len(t) -> Seq(D)] : JoinedTo(g, t, Len(t)) /\ Joined(t) = g[Len(t)]
  BY <1>1, JoinedIs
<1> DEFINE N == {k \in Nat : k <= Len(s) => g[k] = f[k]}
<1>4. 0 \in N
  <2>1. 0 \in 0..Len(s) /\ 0 \in 0..Len(t) BY <1>1
  <2>2. f[0] = <<>> /\ g[0] = <<>> BY <1>2, <1>3, <2>1 DEF JoinedTo
  <2>3. QED BY <2>2
<1>5. ASSUME NEW k \in Nat, k \in N PROVE k + 1 \in N
  <2>1. SUFFICES ASSUME k + 1 <= Len(s) PROVE g[k + 1] = f[k + 1]
    OBVIOUS
  <2>2. /\ k + 1 \in 0..Len(s) /\ k + 1 \in 0..Len(t) /\ k + 1 # 0 /\ (k + 1) - 1 = k
        /\ k + 1 \in 1..Len(s) /\ k <= Len(s)
    BY <1>1, <2>1
  <2>3. g[k] = f[k] /\ t[k + 1] = s[k + 1] BY <1>1, <1>5, <2>2
  <2>4. g[k + 1] = g[k] \o t[k + 1] BY <1>3, <2>2 DEF JoinedTo
  <2>5. f[k + 1] = f[k] \o s[k + 1] BY <1>2, <2>2 DEF JoinedTo
  <2>6. QED BY <2>3, <2>4, <2>5
<1> HIDE DEF N
<1>6. Len(s) \in N BY <1>1, <1>4, <1>5, EveryNumber
<1>7. g[Len(s)] = f[Len(s)] BY <1>1, <1>6 DEF N
<1>8. Len(t) \in 0..Len(t) /\ Len(t) # 0 /\ Len(t) - 1 = Len(s) BY <1>1
<1>9. g[Len(t)] = g[Len(t) - 1] \o t[Len(t)] BY <1>3, <1>8 DEF JoinedTo
<1>10. QED BY <1>1, <1>2, <1>3, <1>7, <1>8, <1>9 DEF t

(* An empty one of them is filled, and those after it are empty.              *)
LEMMA JoinedFilled ==
  ASSUME NEW D, NEW s \in Seq(Seq(D)), NEW t \in Seq(Seq(D)), Len(s) = Len(t), NEW i \in 1..Len(s),
         s[i] = <<>>, \A k \in 1..i - 1 : t[k] = s[k],
         \A k \in i + 1..Len(s) : t[k] = <<>> /\ s[k] = <<>>
  PROVE  Joined(t) = Joined(s) \o t[i]
<1>1. PICK n \in Nat : n = Len(s) OBVIOUS
<1>2. i \in Nat /\ i - 1 \in 0..n /\ i \in 0..n /\ i # 0 /\ ~(n < i) BY <1>1
<1>3. PICK f \in [0..n -> Seq(D)] : JoinedTo(f, s, n) /\ Joined(s) = f[n]
  BY <1>1, JoinedIs
<1>4. PICK g \in [0..n -> Seq(D)] : JoinedTo(g, t, n) /\ Joined(t) = g[n]
  BY <1>1, JoinedIs
<1>5. \A k \in 0..n : f[k] \in Seq(D) /\ g[k] \in Seq(D) BY <1>3, <1>4
<1>6. t[i] \in Seq(D) BY <1>1
<1> DEFINE Same(k) == g[k] = IF k < i THEN f[k] ELSE f[k] \o t[i]
           N == {k \in Nat : k <= n => Same(k)}
<1>7. Same(0)
  <2>1. 0 \in 0..n /\ 0 < i BY <1>2
  <2>2. g[0] = <<>> /\ f[0] = <<>> BY <1>3, <1>4, <2>1 DEF JoinedTo
  <2>3. QED BY <2>1, <2>2
<1>8. ASSUME NEW k \in Nat, k + 1 <= n, Same(k) PROVE Same(k + 1)
  <2>0. k + 1 <= n BY <1>8
  <2>1. k + 1 \in 0..n /\ k + 1 # 0 /\ (k + 1) - 1 = k /\ k + 1 \in 1..n /\ k \in 0..n
    BY <2>0
  <2>2. g[k + 1] = g[k] \o t[k + 1] BY <1>4, <2>1 DEF JoinedTo
  <2>3. f[k + 1] = f[k] \o s[k + 1] BY <1>3, <2>1 DEF JoinedTo
  <2>4. f[k] \in Seq(D) /\ g[k] \in Seq(D) BY <1>5, <2>1
  <2>5. CASE k + 1 < i
    <3>1. k + 1 \in 1..i - 1 /\ k < i BY <1>2, <2>5
    <3>2. t[k + 1] = s[k + 1] BY <3>1
    <3>3. g[k] = f[k] BY <1>8, <3>1
    <3>4. g[k + 1] = f[k + 1] BY <2>2, <2>3, <3>2, <3>3
    <3>5. QED BY <2>5, <3>4
  <2>6. CASE k + 1 = i
    <3>1. k < i /\ ~(k + 1 < i) BY <1>2, <2>6
    <3>2. f[k] \o <<>> = f[k] /\ s[k + 1] = <<>> BY <2>4, <2>6, NoneAfter
    <3>3. f[k + 1] = f[k] BY <2>3, <3>2
    <3>4. g[k] = f[k] BY <1>8, <3>1
    <3>5. g[k + 1] = f[k + 1] \o t[i] BY <2>2, <2>6, <3>3, <3>4
    <3>6. QED BY <3>1, <3>5
  <2>7. CASE k + 1 > i
    <3>1. ~(k < i) /\ ~(k + 1 < i) /\ k + 1 \in i + 1..Len(s) BY <1>1, <1>2, <2>0, <2>7
    <3>2. t[k + 1] = <<>> /\ s[k + 1] = <<>> BY <3>1
    <3>3. f[k] \o <<>> = f[k] /\ g[k] \o <<>> = g[k] BY <2>4, NoneAfter
    <3>4. f[k + 1] = f[k] /\ g[k + 1] = g[k] BY <2>2, <2>3, <3>2, <3>3
    <3>5. QED BY <1>8, <3>1, <3>4
  <2>8. QED BY <1>2, <2>5, <2>6, <2>7
<1> HIDE DEF Same
<1>9. 0 \in N BY <1>7
<1>10. ASSUME NEW k \in Nat, k \in N PROVE k + 1 \in N
  <2>1. SUFFICES ASSUME k + 1 <= n PROVE Same(k + 1)
    OBVIOUS
  <2>2. k <= n BY <2>1
  <2>3. Same(k) BY <1>10, <2>2
  <2>4. QED BY <1>8, <2>1, <2>3
<1> HIDE DEF N
<1>11. n \in N BY <1>9, <1>10, EveryNumber
<1>12. Same(n) BY <1>11 DEF N
<1>13. g[n] = f[n] \o t[i] BY <1>2, <1>12 DEF Same
<1>14. QED BY <1>3, <1>4, <1>13

LEMMA AddedTyped ==
  ASSUME NEW s \in Seq(Nat)
  PROVE  Added(s) \in Nat
<1>1. PICK f \in [0..Len(s) -> Nat] : AddedTo(f, s, Len(s)) /\ Added(s) = f[Len(s)]
  BY AddedIs
<1>2. Len(s) \in 0..Len(s) OBVIOUS
<1>3. QED BY <1>1, <1>2

LEMMA AddedNone == Added(<<>>) = 0
<1> DEFINE none == <<>>
<1>1. none \in Seq(Nat) /\ Len(none) = 0 OBVIOUS
<1> HIDE DEF none
<1>2. PICK f \in [0..Len(none) -> Nat] : AddedTo(f, none, Len(none)) /\ Added(none) = f[Len(none)]
  BY <1>1, AddedIs
<1>3. f[0] = 0 BY <1>1, <1>2 DEF AddedTo
<1>4. QED BY <1>1, <1>2, <1>3 DEF none

LEMMA AddedMore ==
  ASSUME NEW s \in Seq(Nat), NEW x \in Nat
  PROVE  Added(Append(s, x)) = Added(s) + x
<1> DEFINE t == Append(s, x)
<1>1. /\ t \in Seq(Nat) /\ Len(s) \in Nat /\ Len(t) = Len(s) + 1 /\ t[Len(s) + 1] = x
      /\ \A i \in 1..Len(s) : t[i] = s[i]
  BY AppendProperties
<1> HIDE DEF t
<1>2. PICK f \in [0..Len(s) -> Nat] : AddedTo(f, s, Len(s)) /\ Added(s) = f[Len(s)]
  BY AddedIs
<1>3. PICK g \in [0..Len(t) -> Nat] : AddedTo(g, t, Len(t)) /\ Added(t) = g[Len(t)]
  BY <1>1, AddedIs
<1> DEFINE N == {k \in Nat : k <= Len(s) => g[k] = f[k]}
<1>4. 0 \in N BY <1>1, <1>2, <1>3 DEF AddedTo
<1>5. ASSUME NEW k \in Nat, k \in N PROVE k + 1 \in N
  <2>1. SUFFICES ASSUME k + 1 <= Len(s) PROVE g[k + 1] = f[k + 1]
    OBVIOUS
  <2>2. /\ k + 1 \in 0..Len(s) /\ k + 1 \in 0..Len(t) /\ k + 1 # 0 /\ (k + 1) - 1 = k
        /\ k + 1 \in 1..Len(s) /\ k <= Len(s)
    BY <1>1, <2>1
  <2>3. g[k] = f[k] /\ t[k + 1] = s[k + 1] BY <1>1, <1>5, <2>2
  <2>4. g[k + 1] = g[k] + t[k + 1] BY <1>3, <2>2 DEF AddedTo
  <2>5. f[k + 1] = f[k] + s[k + 1] BY <1>2, <2>2 DEF AddedTo
  <2>6. QED BY <2>3, <2>4, <2>5
<1> HIDE DEF N
<1>6. Len(s) \in N BY <1>1, <1>4, <1>5, EveryNumber
<1>7. g[Len(s)] = f[Len(s)] BY <1>1, <1>6 DEF N
<1>8. Len(t) \in 0..Len(t) /\ Len(t) # 0 /\ Len(t) - 1 = Len(s) BY <1>1
<1>9. g[Len(t)] = g[Len(t) - 1] + t[Len(t)] BY <1>3, <1>8 DEF AddedTo
<1>10. QED BY <1>1, <1>2, <1>3, <1>7, <1>8, <1>9 DEF t

-----------------------------------------------------------------------------
(* What steps say, call and use *)

Spoken == {"user", "agent"} \X (Texts \cup Replies)
Uttered(who, text) == IF text = Blank THEN <<>> ELSE <<<<who, text>>>>

LEMMA UtteredTyped ==
  ASSUME NEW who \in {"user", "agent"}, NEW text \in Says \cup Replies
  PROVE  Uttered(who, text) \in Seq(Spoken)
<1>1. text # Blank => text \in Texts \cup Replies BY DEF Says
<1>2. CASE text = Blank BY <1>2 DEF Uttered
<1>3. CASE text # Blank
  <2>1. <<who, text>> \in Spoken BY <1>1, <1>3 DEF Spoken
  <2>2. QED BY <1>3, <2>1 DEF Uttered
<1>4. QED BY <1>2, <1>3

LEMMA VoicedTyped ==
  ASSUME NEW step \in Steps
  PROVE  /\ Voiced(step) \in Seq(Spoken) /\ Len(Voiced(step)) = Len(step.words)
         /\ \A k \in 1..Len(step.words) : Voiced(step)[k] = <<step.source, step.words[k]>>
<1>1. step.words \in Seq(Texts \cup Replies) /\ step.source \in {"user", "agent"} BY DEF Steps
<1>2. PICK n \in Nat : n = Len(step.words) /\ DOMAIN step.words = 1..n BY <1>1
<1>3. \A k \in 1..n : <<step.source, step.words[k]>> \in Spoken BY <1>1, <1>2 DEF Spoken
<1>4. Voiced(step) = [k \in 1..n |-> <<step.source, step.words[k]>>] BY <1>2 DEF Voiced
<1>5. QED BY <1>2, <1>3, <1>4

(* More words of a step.                                                      *)
LEMMA VoicedMore ==
  ASSUME NEW old \in Steps, NEW new \in Steps, NEW text \in Says \cup Replies,
         new.source = old.source, new.words = old.words \o Words(text)
  PROVE  Voiced(new) = Voiced(old) \o Uttered(old.source, text)
<1>1. /\ Voiced(old) \in Seq(Spoken) /\ Len(Voiced(old)) = Len(old.words)
      /\ \A k \in 1..Len(old.words) : Voiced(old)[k] = <<old.source, old.words[k]>>
  BY VoicedTyped
<1>2. /\ Voiced(new) \in Seq(Spoken) /\ Len(Voiced(new)) = Len(new.words)
      /\ \A k \in 1..Len(new.words) : Voiced(new)[k] = <<old.source, new.words[k]>>
  BY VoicedTyped
<1>3. old.words \in Seq(Texts \cup Replies) /\ old.source \in {"user", "agent"} BY DEF Steps
<1>4. CASE text = Blank
  <2>1. old.words \o <<>> = old.words /\ Voiced(old) \o <<>> = Voiced(old) BY <1>1, <1>3
  <2>2. new.words = old.words BY <1>4, <2>1 DEF Words
  <2>3. Voiced(new) = Voiced(old)
    <3>1. Len(Voiced(new)) = Len(Voiced(old)) BY <1>1, <1>2, <2>2
    <3>2. \A k \in 1..Len(Voiced(new)) : Voiced(new)[k] = Voiced(old)[k]
      BY <1>1, <1>2, <2>2
    <3>3. QED BY <1>1, <1>2, <3>1, <3>2, SeqEqual
  <2>4. QED BY <1>4, <2>1, <2>3 DEF Uttered
<1>5. CASE text # Blank
  <2>1. text \in Texts \cup Replies BY <1>5 DEF Says
  <2>2. PICK n \in Nat : n = Len(old.words) BY <1>3
  <2>3. /\ Len(new.words) = n + 1 /\ new.words[n + 1] = text
        /\ \A k \in 1..n : new.words[k] = old.words[k]
    <3>1. new.words = old.words \o <<text>> /\ <<text>> \in Seq(Texts \cup Replies)
      BY <1>5, <2>1 DEF Words
    <3>2. old.words \o <<text>> = Append(old.words, text) BY <1>3, <2>1
    <3>3. QED BY <1>3, <2>1, <2>2, <3>1, <3>2, AppendProperties
  <2> DEFINE word == <<old.source, text>>
  <2>4. word \in Spoken BY <1>3, <2>1 DEF Spoken
  <2>5. Uttered(old.source, text) = <<word>> BY <1>5 DEF Uttered
  <2> HIDE DEF word
  <2>6. Voiced(old) \o <<word>> = Append(Voiced(old), word) BY <1>1, <2>4
  <2>7. /\ Append(Voiced(old), word) \in Seq(Spoken) /\ Len(Append(Voiced(old), word)) = n + 1
        /\ Append(Voiced(old), word)[n + 1] = word
        /\ \A k \in 1..n : Append(Voiced(old), word)[k] = Voiced(old)[k]
    BY <1>1, <2>2, <2>4, AppendProperties
  <2>8. ASSUME NEW k \in 1..n + 1 PROVE Voiced(new)[k] = Append(Voiced(old), word)[k]
    <3>1. CASE k = n + 1 BY <1>2, <2>2, <2>3, <2>7, <3>1 DEF word
    <3>2. CASE k \in 1..n BY <1>1, <1>2, <2>2, <2>3, <2>7, <3>2
    <3>3. k = n + 1 \/ k \in 1..n OBVIOUS
    <3>4. QED BY <3>1, <3>2, <3>3
  <2>9. Voiced(new) = Append(Voiced(old), word)
    BY <1>2, <2>2, <2>3, <2>7, <2>8, SeqEqual
  <2>10. QED BY <2>5, <2>6, <2>9
<1>6. QED BY <1>4, <1>5

LEMMA VoicedSame ==
  ASSUME NEW old, NEW new, new.source = old.source, new.words = old.words
  PROVE  Voiced(new) = Voiced(old)
BY DEF Voiced

(* One more element of what is made of the elements of a sequence.            *)
LEMMA MapMore ==
  ASSUME NEW T, NEW D, NEW s \in Seq(T), NEW x \in T, NEW m \in [T -> D]
  PROVE  /\ [i \in DOMAIN s |-> m[s[i]]] \in Seq(D)
         /\ [i \in DOMAIN Append(s, x) |-> m[Append(s, x)[i]]] =
              Append([i \in DOMAIN s |-> m[s[i]]], m[x])
<1> DEFINE t == Append(s, x)
           a == [i \in DOMAIN s |-> m[s[i]]]
           b == [i \in DOMAIN t |-> m[t[i]]]
<1>1. PICK n \in Nat : n = Len(s) /\ DOMAIN s = 1..n OBVIOUS
<1>2. /\ t \in Seq(T) /\ Len(t) = n + 1 /\ DOMAIN t = 1..n + 1 /\ t[n + 1] = x
      /\ \A i \in 1..n : t[i] = s[i]
  BY <1>1, AppendProperties
<1>3. \A i \in 1..n : s[i] \in T BY <1>1
<1>4. \A i \in 1..n + 1 : t[i] \in T BY <1>2
<1> HIDE DEF t
<1>5. a \in Seq(D) /\ Len(a) = n /\ \A i \in 1..n : a[i] = m[s[i]] BY <1>1, <1>3
<1>6. b \in Seq(D) /\ Len(b) = n + 1 /\ \A i \in 1..n + 1 : b[i] = m[t[i]] BY <1>2, <1>4
<1> HIDE DEF a, b
<1>7. m[x] \in D OBVIOUS
<1>8. /\ Append(a, m[x]) \in Seq(D) /\ Len(Append(a, m[x])) = n + 1
      /\ Append(a, m[x])[n + 1] = m[x] /\ \A i \in 1..n : Append(a, m[x])[i] = a[i]
  BY <1>5, <1>7, AppendProperties
<1>9. ASSUME NEW i \in 1..n + 1 PROVE b[i] = Append(a, m[x])[i]
  <2>1. CASE i = n + 1 BY <1>2, <1>6, <1>8, <2>1
  <2>2. CASE i \in 1..n BY <1>2, <1>5, <1>6, <1>8, <2>2
  <2>3. i = n + 1 \/ i \in 1..n OBVIOUS
  <2>4. QED BY <2>1, <2>2, <2>3
<1>10. b = Append(a, m[x]) BY <1>6, <1>8, <1>9, SeqEqual
<1>11. QED BY <1>5, <1>10 DEF a, b, t

LEMMA SaidByMore ==
  ASSUME NEW s \in Seq(Steps), NEW x \in Steps
  PROVE  /\ Speech(s) \in Seq(Spoken) /\ AllCalls(s) \in Seq(Calls) /\ Used(s) \in Nat
         /\ Speech(Append(s, x)) = Speech(s) \o Voiced(x)
         /\ AllCalls(Append(s, x)) = AllCalls(s) \o x.calls
         /\ Used(Append(s, x)) = Used(s) + x.used
<1> DEFINE t == Append(s, x)
<1>1. t \in Seq(Steps) OBVIOUS
<1>2. \A i \in DOMAIN s : s[i] \in Steps OBVIOUS
<1>3. \A i \in DOMAIN t : t[i] \in Steps BY <1>1
<1> DEFINE voice == [e \in Steps |-> Voiced(e)]
           calls == [e \in Steps |-> e.calls]
           used == [e \in Steps |-> e.used]
<1>4. voice \in [Steps -> Seq(Spoken)] BY VoicedTyped
<1>5. calls \in [Steps -> Seq(Calls)] BY DEF Steps
<1>6. used \in [Steps -> Nat] BY DEF Steps
<1>7. /\ [i \in DOMAIN s |-> voice[s[i]]] = [i \in DOMAIN s |-> Voiced(s[i])]
      /\ [i \in DOMAIN t |-> voice[t[i]]] = [i \in DOMAIN t |-> Voiced(t[i])]
      /\ voice[x] = Voiced(x)
  BY <1>2, <1>3
<1>8. /\ [i \in DOMAIN s |-> calls[s[i]]] = [i \in DOMAIN s |-> s[i].calls]
      /\ [i \in DOMAIN t |-> calls[t[i]]] = [i \in DOMAIN t |-> t[i].calls]
      /\ calls[x] = x.calls
  BY <1>2, <1>3
<1>9. /\ [i \in DOMAIN s |-> used[s[i]]] = [i \in DOMAIN s |-> s[i].used]
      /\ [i \in DOMAIN t |-> used[t[i]]] = [i \in DOMAIN t |-> t[i].used]
      /\ used[x] = x.used
  BY <1>2, <1>3
<1> HIDE DEF voice, calls, used
<1>10. /\ [i \in DOMAIN s |-> voice[s[i]]] \in Seq(Seq(Spoken)) /\ voice[x] \in Seq(Spoken)
       /\ [i \in DOMAIN t |-> voice[t[i]]] = Append([i \in DOMAIN s |-> voice[s[i]]], voice[x])
  <2> DEFINE D == Seq(Spoken)
  <2>1. voice \in [Steps -> D] BY <1>4
  <2> HIDE DEF D
  <2>2. /\ [i \in DOMAIN s |-> voice[s[i]]] \in Seq(D) /\ voice[x] \in D
        /\ [i \in DOMAIN t |-> voice[t[i]]] = Append([i \in DOMAIN s |-> voice[s[i]]], voice[x])
    BY <2>1, MapMore
  <2>3. QED BY <2>2 DEF D
<1>11. /\ [i \in DOMAIN s |-> calls[s[i]]] \in Seq(Seq(Calls)) /\ calls[x] \in Seq(Calls)
       /\ [i \in DOMAIN t |-> calls[t[i]]] = Append([i \in DOMAIN s |-> calls[s[i]]], calls[x])
  <2> DEFINE D == Seq(Calls)
  <2>1. calls \in [Steps -> D] BY <1>5
  <2> HIDE DEF D
  <2>2. /\ [i \in DOMAIN s |-> calls[s[i]]] \in Seq(D) /\ calls[x] \in D
        /\ [i \in DOMAIN t |-> calls[t[i]]] = Append([i \in DOMAIN s |-> calls[s[i]]], calls[x])
    BY <2>1, MapMore
  <2>3. QED BY <2>2 DEF D
<1>12. /\ [i \in DOMAIN s |-> used[s[i]]] \in Seq(Nat) /\ used[x] \in Nat
       /\ [i \in DOMAIN t |-> used[t[i]]] = Append([i \in DOMAIN s |-> used[s[i]]], used[x])
  BY <1>6, MapMore
<1> DEFINE a == [i \in DOMAIN s |-> voice[s[i]]]
           b == [i \in DOMAIN s |-> calls[s[i]]]
           c == [i \in DOMAIN s |-> used[s[i]]]
<1> HIDE DEF a, b, c
<1>13. Joined(a) \in Seq(Spoken) /\ Joined(Append(a, voice[x])) = Joined(a) \o voice[x]
  <2>1. a \in Seq(Seq(Spoken)) BY <1>10 DEF a
  <2>2. QED BY <1>10, <2>1, JoinedTyped, JoinedMore
<1>14. Joined(b) \in Seq(Calls) /\ Joined(Append(b, calls[x])) = Joined(b) \o calls[x]
  <2>1. b \in Seq(Seq(Calls)) BY <1>11 DEF b
  <2>2. QED BY <1>11, <2>1, JoinedTyped, JoinedMore
<1>15. Added(c) \in Nat /\ Added(Append(c, used[x])) = Added(c) + used[x]
  <2>1. c \in Seq(Nat) BY <1>12 DEF c
  <2>2. QED BY <1>12, <2>1, AddedTyped, AddedMore
<1>16. Speech(s) = Joined(a) /\ Speech(t) = Joined(Append(a, voice[x]))
  BY <1>7, <1>10, Zenon DEF Speech, a
<1>17. AllCalls(s) = Joined(b) /\ AllCalls(t) = Joined(Append(b, calls[x]))
  BY <1>8, <1>11, Zenon DEF AllCalls, b
<1>18. Used(s) = Added(c) /\ Used(t) = Added(Append(c, used[x]))
  BY <1>9, <1>12, Zenon DEF Used, c
<1> HIDE DEF t
<1>19. QED BY <1>7, <1>8, <1>9, <1>13, <1>14, <1>15, <1>16, <1>17, <1>18, Zenon DEF t

-----------------------------------------------------------------------------
(* What is added to what was shown: the steps t say, call and use what s did, *)
(* and then u, c and no more than n.                                          *)

AddsTo(s, t, u, c, n) ==
  /\ s \in Seq(Steps) /\ t \in Seq(Steps)
  /\ u \in Seq(Spoken) /\ c \in Seq(Calls) /\ n \in Nat
  /\ Speech(t) = Speech(s) \o u /\ AllCalls(t) = AllCalls(s) \o c
  /\ Used(t) <= Used(s) + n

LEMMA SaidByTyped ==
  ASSUME NEW s \in Seq(Steps)
  PROVE  Speech(s) \in Seq(Spoken) /\ AllCalls(s) \in Seq(Calls) /\ Used(s) \in Nat
<1> DEFINE x == Step(0, "user", <<>>)
<1>1. x \in Steps
  <2>1. 0 \in Nat /\ <<>> \in Seq(Texts \cup Replies) OBVIOUS
  <2>2. QED BY <2>1, StepTyped
<1> HIDE DEF x
<1>2. QED BY <1>1, SaidByMore

LEMMA AddsNothing ==
  ASSUME NEW s \in Seq(Steps)
  PROVE  AddsTo(s, s, <<>>, <<>>, 0)
<1>1. Speech(s) \in Seq(Spoken) /\ AllCalls(s) \in Seq(Calls) /\ Used(s) \in Nat
  BY SaidByTyped
<1>2. Speech(s) = Speech(s) \o <<>> /\ AllCalls(s) = AllCalls(s) \o <<>> BY <1>1
<1>3. Used(s) <= Used(s) + 0 /\ 0 \in Nat BY <1>1
<1>4. <<>> \in Seq(Spoken) /\ <<>> \in Seq(Calls) OBVIOUS
<1>5. QED BY <1>2, <1>3, <1>4 DEF AddsTo

LEMMA StepFields ==
  ASSUME NEW x \in Steps
  PROVE  x.calls \in Seq(Calls) /\ x.used \in Nat
BY DEF Steps

LEMMA AddsStep ==
  ASSUME NEW s \in Seq(Steps), NEW x \in Steps
  PROVE  AddsTo(s, Append(s, x), Voiced(x), x.calls, x.used)
<1>1. /\ Speech(s) \in Seq(Spoken) /\ AllCalls(s) \in Seq(Calls) /\ Used(s) \in Nat
      /\ Speech(Append(s, x)) = Speech(s) \o Voiced(x)
      /\ AllCalls(Append(s, x)) = AllCalls(s) \o x.calls
      /\ Used(Append(s, x)) = Used(s) + x.used
  BY SaidByMore
<1>2. Append(s, x) \in Seq(Steps) OBVIOUS
<1>3. Voiced(x) \in Seq(Spoken) BY VoicedTyped
<1>4. x.calls \in Seq(Calls) /\ x.used \in Nat BY StepFields
<1>5. Used(Append(s, x)) <= Used(s) + x.used BY <1>1, <1>4
<1>6. QED BY <1>1, <1>2, <1>3, <1>4, <1>5 DEF AddsTo

LEMMA SpeechAssociates ==
  ASSUME NEW a \in Seq(Spoken), NEW b \in Seq(Spoken), NEW c \in Seq(Spoken)
  PROVE  (a \o b) \o c = a \o (b \o c) /\ b \o c \in Seq(Spoken)
OBVIOUS

LEMMA CallsAssociate ==
  ASSUME NEW a \in Seq(Calls), NEW b \in Seq(Calls), NEW c \in Seq(Calls)
  PROVE  (a \o b) \o c = a \o (b \o c) /\ b \o c \in Seq(Calls)
OBVIOUS

(* What is added is added to what was added.                                  *)
LEMMA MoreAndMore ==
  ASSUME NEW a \in Nat, NEW b \in Nat, NEW c \in Nat, NEW n \in Nat, NEW m \in Nat,
         b <= a + n, c <= b + m
  PROVE  c <= a + (n + m) /\ n + m \in Nat
OBVIOUS

LEMMA AddsMore ==
  ASSUME NEW s, NEW t, NEW v, NEW u, NEW c, NEW n, NEW w, NEW d, NEW m,
         AddsTo(s, t, u, c, n), AddsTo(t, v, w, d, m)
  PROVE  AddsTo(s, v, u \o w, c \o d, n + m)
<1>1. /\ s \in Seq(Steps) /\ t \in Seq(Steps) /\ v \in Seq(Steps)
      /\ u \in Seq(Spoken) /\ w \in Seq(Spoken) /\ c \in Seq(Calls) /\ d \in Seq(Calls)
      /\ n \in Nat /\ m \in Nat
  BY DEF AddsTo
<1>2. /\ Speech(s) \in Seq(Spoken) /\ AllCalls(s) \in Seq(Calls) /\ Used(s) \in Nat
      /\ Used(t) \in Nat /\ Used(v) \in Nat
  BY <1>1, SaidByTyped
<1>3. Speech(v) = Speech(s) \o (u \o w) /\ u \o w \in Seq(Spoken)
  <2>1. Speech(v) = (Speech(s) \o u) \o w BY DEF AddsTo
  <2>2. (Speech(s) \o u) \o w = Speech(s) \o (u \o w) /\ u \o w \in Seq(Spoken)
    BY <1>1, <1>2, SpeechAssociates
  <2>3. QED BY <2>1, <2>2, Zenon
<1>4. AllCalls(v) = AllCalls(s) \o (c \o d) /\ c \o d \in Seq(Calls)
  <2>1. AllCalls(v) = (AllCalls(s) \o c) \o d BY DEF AddsTo
  <2>2. (AllCalls(s) \o c) \o d = AllCalls(s) \o (c \o d) /\ c \o d \in Seq(Calls)
    BY <1>1, <1>2, CallsAssociate
  <2>3. QED BY <2>1, <2>2, Zenon
<1>5. Used(v) <= Used(s) + (n + m) /\ n + m \in Nat
  <2>1. Used(t) <= Used(s) + n /\ Used(v) <= Used(t) + m BY DEF AddsTo
  <2>2. /\ Used(s) \in Nat /\ Used(t) \in Nat /\ Used(v) \in Nat
        /\ n \in Nat /\ m \in Nat
    BY <1>1, <1>2
  <2>3. QED BY <2>1, <2>2, MoreAndMore
<1>6. QED BY <1>1, <1>3, <1>4, <1>5 DEF AddsTo

LEMMA NoMoreThanBoth ==
  ASSUME NEW a \in Nat, NEW b \in Nat, NEW d \in Nat, NEW n \in Nat, d <= b + n
  PROVE  a + d <= (a + b) + n
OBVIOUS

(* The last step goes on.                                                     *)
LEMMA AddsToLast ==
  ASSUME NEW s \in Seq(Steps), NEW old \in Steps, NEW new \in Steps, NEW u \in Seq(Spoken),
         NEW c \in Seq(Calls), NEW n \in Nat, Voiced(new) = Voiced(old) \o u,
         new.calls = old.calls \o c, new.used <= old.used + n
  PROVE  AddsTo(Append(s, old), Append(s, new), u, c, n)
<1>1. /\ Append(s, old) \in Seq(Steps) /\ Append(s, new) \in Seq(Steps)
  OBVIOUS
<1>2. /\ Speech(s) \in Seq(Spoken) /\ AllCalls(s) \in Seq(Calls) /\ Used(s) \in Nat
      /\ Speech(Append(s, old)) = Speech(s) \o Voiced(old)
      /\ AllCalls(Append(s, old)) = AllCalls(s) \o old.calls
      /\ Used(Append(s, old)) = Used(s) + old.used
  BY SaidByMore
<1>3. /\ Speech(Append(s, new)) = Speech(s) \o Voiced(new)
      /\ AllCalls(Append(s, new)) = AllCalls(s) \o new.calls
      /\ Used(Append(s, new)) = Used(s) + new.used
  BY SaidByMore
<1>4. Voiced(old) \in Seq(Spoken) BY VoicedTyped
<1>5. old.calls \in Seq(Calls) /\ old.used \in Nat /\ new.used \in Nat BY StepFields
<1>6. (Speech(s) \o Voiced(old)) \o u = Speech(s) \o (Voiced(old) \o u)
  BY <1>2, <1>4, SpeechAssociates
<1>7. (AllCalls(s) \o old.calls) \o c = AllCalls(s) \o (old.calls \o c)
  BY <1>2, <1>5, CallsAssociate
<1>8. Used(Append(s, new)) <= Used(Append(s, old)) + n
  <2>1. PICK a \in Nat, b \in Nat, d \in Nat : a = Used(s) /\ b = old.used /\ d = new.used
    BY <1>2, <1>5
  <2>2. d <= b + n BY <2>1
  <2>3. a + d <= (a + b) + n BY <2>2, NoMoreThanBoth
  <2>4. QED BY <1>2, <1>3, <2>1, <2>3
<1>9. Speech(Append(s, new)) = Speech(Append(s, old)) \o u BY <1>2, <1>3, <1>6, Zenon
<1>10. AllCalls(Append(s, new)) = AllCalls(Append(s, old)) \o c BY <1>2, <1>3, <1>7, Zenon
<1>11. QED BY <1>1, <1>8, <1>9, <1>10 DEF AddsTo

-----------------------------------------------------------------------------
(* What the handlers add *)

Adds(u, c, n) == AddsTo(Shown, Shown', u, c, n)

LEMMA ShownIs ==
  ASSUME FileTyped, StepsTyped, IInv
  PROVE  /\ Shown \in Seq(Steps)
         /\ \/ pending = <<>> /\ Shown = steps
            \/ pending = <<Growing>> /\ Shown = Append(steps, Growing)
<1>1. steps \in Seq(Steps) /\ Growing \in Steps BY GrowingTyped DEF StepsTyped, Makes
<1>2. CASE pending = <<>>
  <2>1. steps \o <<>> = steps BY <1>1
  <2>2. Shown = steps BY <1>2, <2>1 DEF Shown
  <2>3. QED BY <1>1, <1>2, <2>2
<1>3. CASE pending = <<Growing>>
  <2>1. steps \o <<Growing>> = Append(steps, Growing) /\ Append(steps, Growing) \in Seq(Steps)
    BY <1>1
  <2>2. Shown = Append(steps, Growing) BY <1>3, <2>1, Zenon DEF Shown
  <2>3. QED BY <1>3, <2>1, <2>2
<1>4. QED BY <1>2, <1>3, GrowingTyped

(* The step in the making, or a new one, goes on or ends.                     *)
LEMMA GoesOnAdds ==
  ASSUME FileTyped, StepsTyped, IInv, NEW step \in Steps, NEW u \in Seq(Spoken),
         NEW c \in Seq(Calls), NEW n \in Nat,
         \/ steps' = steps /\ pending' = <<step>>
         \/ steps' = Append(steps, step) /\ pending' = <<>>,
         Voiced(step) = Voiced(Growing) \o u, step.calls = Growing.calls \o c,
         step.used <= Growing.used + n
  PROVE  Adds(u, c, n)
<1>1. steps \in Seq(Steps) /\ Growing \in Steps BY GrowingTyped DEF StepsTyped, Makes
<1>2. Shown' = Append(steps, step)
  <2>1. steps \o <<step>> = Append(steps, step) /\ Append(steps, step) \o <<>> = Append(steps, step)
    BY <1>1
  <2>2. CASE steps' = steps /\ pending' = <<step>> BY <2>1, <2>2, Zenon DEF Shown
  <2>3. CASE steps' = Append(steps, step) /\ pending' = <<>> BY <2>1, <2>3, Zenon DEF Shown
  <2>4. QED BY <2>2, <2>3
<1>3. CASE pending = <<>>
  <2>1. Growing = Step(stepId + 1, "agent", <<>>) BY <1>3 DEF Growing
  <2>2. Growing.words = <<>> /\ Growing.calls = <<>> /\ Growing.used = 0 BY <2>1 DEF Step
  <2>3. Voiced(Growing) = <<>> BY <2>2 DEF Voiced
  <2>4. Voiced(step) = u /\ step.calls = c /\ step.used <= n
    <3>1. <<>> \o u = u /\ <<>> \o c = c OBVIOUS
    <3>2. 0 + n = n OBVIOUS
    <3>3. QED BY <2>2, <2>3, <3>1, <3>2
  <2>5. step.used \in Nat BY DEF Steps
  <2>6. AddsTo(steps, Append(steps, step), u, c, step.used)
    <3>1. AddsTo(steps, Append(steps, step), Voiced(step), step.calls, step.used)
      BY <1>1, AddsStep
    <3>2. QED BY <2>4, <3>1
  <2>7. Used(Append(steps, step)) <= Used(steps) + n
    <3>0. Append(steps, step) \in Seq(Steps) BY <1>1
    <3>1. Used(steps) \in Nat /\ Used(Append(steps, step)) \in Nat BY <1>1, <3>0, SaidByTyped
    <3>2. Used(Append(steps, step)) <= Used(steps) + step.used BY <2>6, Zenon DEF AddsTo
    <3>3. QED BY <2>4, <2>5, <3>1, <3>2
  <2>8. AddsTo(steps, Append(steps, step), u, c, n) BY <2>6, <2>7 DEF AddsTo
  <2>9. Shown = steps
    <3>1. steps \o <<>> = steps BY <1>1
    <3>2. QED BY <1>3, <3>1 DEF Shown
  <2>10. QED BY <1>2, <2>8, <2>9 DEF Adds
<1>4. CASE pending = <<Growing>>
  <2>1. AddsTo(Append(steps, Growing), Append(steps, step), u, c, n) BY <1>1, AddsToLast
  <2>2. pending # <<>> BY <1>4
  <2>3. Shown = Append(steps, Growing) BY <2>2, ShownIs
  <2>4. QED BY <1>2, <2>1, <2>3 DEF Adds
<1>5. QED BY <1>3, <1>4, GrowingTyped

(* A step that is closed says and calls what it did.                          *)
LEMMA ClosedAdds ==
  ASSUME FileTyped, StepsTyped, IInv
  PROVE  AddsTo(Shown, Closed, <<>>, <<>>, 0)
<1>1. steps \in Seq(Steps) /\ Growing \in Steps BY GrowingTyped DEF StepsTyped, Makes
<1> DEFINE Shut(step) == IF agent \in Collecting THEN step ELSE Answered(step)
           shut == [i \in DOMAIN pending |-> Shut(pending[i])]
<1>2. Closed = steps \o shut BY DEF Closed
<1>3. CASE pending = <<>>
  <2>1. shut = <<>> BY <1>3
  <2> HIDE DEF shut
  <2>2. steps \o <<>> = steps BY <1>1
  <2>3. Closed = steps /\ Shown = steps BY <1>2, <1>3, <2>1, <2>2, Zenon DEF Shown
  <2>4. QED BY <1>1, <2>3, AddsNothing
<1>4. CASE pending = <<Growing>>
  <2>1. shut = <<Shut(Growing)>> BY <1>4
  <2>2. /\ Shut(Growing) \in Steps /\ Shut(Growing).source = Growing.source
        /\ Shut(Growing).words = Growing.words /\ Shut(Growing).calls = Growing.calls
        /\ Shut(Growing).used = Growing.used
    BY <1>1, AnsweredTyped DEF Answered, Steps
  <2> HIDE DEF shut, Shut
  <2>3. steps \o <<Shut(Growing)>> = Append(steps, Shut(Growing)) BY <1>1, <2>2
  <2>4. Closed = Append(steps, Shut(Growing)) BY <1>2, <2>1, <2>3, Zenon
  <2>5. Voiced(Shut(Growing)) = Voiced(Growing) \o <<>>
        /\ Shut(Growing).calls = Growing.calls \o <<>>
    <3>1. Voiced(Growing) \in Seq(Spoken) BY <1>1, VoicedTyped
    <3>2. Growing.calls \in Seq(Calls) BY <1>1 DEF Steps
    <3>3. Voiced(Growing) \o <<>> = Voiced(Growing) /\ Growing.calls \o <<>> = Growing.calls
      BY <3>1, <3>2
    <3>4. QED BY <2>2, <3>3, VoicedSame
  <2>6. Shut(Growing).used <= Growing.used + 0 BY <1>1, <2>2 DEF Steps
  <2>7. <<>> \in Seq(Spoken) /\ <<>> \in Seq(Calls) /\ 0 \in Nat OBVIOUS
  <2>8. AddsTo(Append(steps, Growing), Append(steps, Shut(Growing)), <<>>, <<>>, 0)
    BY <1>1, <2>2, <2>5, <2>6, <2>7, AddsToLast
  <2>9. pending # <<>> BY <1>4
  <2>10. Shown = Append(steps, Growing) BY <2>9, ShownIs
  <2>11. QED BY <2>4, <2>8, <2>10
<1>5. QED BY <1>3, <1>4, GrowingTyped

(* A step of what somebody said, unless it is blank.                          *)
LEMMA WordsAdd ==
  ASSUME NEW s \in Seq(Steps), NEW text \in Says \cup Replies, NEW source \in {"user", "agent"},
         NEW number \in [Nat -> Nat], NEW said,
         said = [i \in 1..Len(Words(text)) |-> Step(number[i], source, Words(text))]
  PROVE  said \in Seq(Steps) /\ AddsTo(s, s \o said, Uttered(source, text), <<>>, 0)
<1>1. CASE text = Blank
  <2>1. Words(text) = <<>> /\ Uttered(source, text) = <<>> BY <1>1 DEF Words, Uttered
  <2>2. said = <<>> BY <2>1
  <2>3. s \o <<>> = s OBVIOUS
  <2>4. QED BY <2>1, <2>2, <2>3, AddsNothing
<1>2. CASE text # Blank
  <2> DEFINE x == Step(number[1], source, <<text>>)
  <2>1. Words(text) = <<text>> /\ Uttered(source, text) = <<<<source, text>>>>
    BY <1>2 DEF Words, Uttered
  <2>2. said = <<x>>
    <3>1. Len(<<text>>) = 1 OBVIOUS
    <3>2. said = [i \in 1..1 |-> Step(number[i], source, <<text>>)] BY <2>1, <3>1
    <3>3. \A i \in 1..1 : i = 1 OBVIOUS
    <3>4. [i \in 1..1 |-> Step(number[i], source, <<text>>)] = [i \in 1..1 |-> x] BY <3>3
    <3> HIDE DEF x
    <3>5. [i \in 1..1 |-> x] = <<x>> OBVIOUS
    <3>6. QED BY <3>2, <3>4, <3>5, Zenon
  <2>3. text \in Texts \cup Replies BY <1>2 DEF Says
  <2>4. x \in Steps
    <3>1. number[1] \in Nat /\ <<text>> \in Seq(Texts \cup Replies) BY <2>3
    <3>2. QED BY <3>1, StepTyped
  <2>5. x.source = source /\ x.words = <<text>> /\ x.calls = <<>> /\ x.used = 0 BY DEF Step
  <2> HIDE DEF x
  <2>6. Voiced(x) = <<<<source, text>>>>
    <3>1. DOMAIN <<text>> = 1..1 /\ \A k \in 1..1 : <<text>>[k] = text OBVIOUS
    <3> DEFINE words == <<text>>
    <3>0. x.words = words BY <2>5
    <3> HIDE DEF words
    <3>2. Voiced(x) = [k \in 1..1 |-> <<source, text>>]
      <4>1. Voiced(x) = [k \in DOMAIN words |-> <<source, words[k]>>]
        BY <2>5, <3>0, Zenon DEF Voiced
      <4>2. DOMAIN words = 1..1 /\ \A k \in 1..1 : words[k] = text BY <3>1 DEF words
      <4>3. QED BY <4>1, <4>2
    <3> DEFINE word == <<source, text>>
    <3> HIDE DEF word
    <3>3. [k \in 1..1 |-> word] = <<word>> OBVIOUS
    <3>4. QED BY <3>2, <3>3, Zenon DEF word
  <2>7. AddsTo(s, Append(s, x), Voiced(x), x.calls, x.used) BY <2>4, AddsStep
  <2>8. s \o said = Append(s, x) /\ said \in Seq(Steps)
    <3>1. \A y \in Steps : s \o <<y>> = Append(s, y) /\ <<y>> \in Seq(Steps) OBVIOUS
    <3>2. s \o <<x>> = Append(s, x) /\ <<x>> \in Seq(Steps) BY <2>4, <3>1
    <3>3. QED BY <2>2, <3>2, Zenon
  <2>9. QED BY <2>1, <2>5, <2>6, <2>7, <2>8
<1>3. QED BY <1>1, <1>2

(* Who speaks in the step in the making.                                      *)
LEMMA GrowingSpeaks ==
  ASSUME Inv, Making
  PROVE  Growing.source = "agent" /\ Growing \in Steps
<1>1. Growing \in Steps BY GrowingTyped, InvIs DEF Makes
<1>2. CASE pending = <<>>
  <2>1. Growing = Step(stepId + 1, "agent", <<>>) BY <1>2 DEF Growing
  <2>2. QED BY <1>1, <2>1 DEF Step
<1>3. CASE pending # <<>>
  <2>1. pending[1] = Growing /\ 1 \in DOMAIN pending BY <1>3, PendingIsMade
  <2>2. QED BY <1>1, <2>1 DEF Making
<1>4. QED BY <1>2, <1>3

LEMMA NoneMade ==
  ASSUME pending' = <<>>
  PROVE  Making'
BY DEF Making

LEMMA OneMade ==
  ASSUME NEW step, step.source = "agent", pending' = <<step>>
  PROVE  Making'
<1>1. DOMAIN <<step>> = {1} /\ <<step>>[1] = step OBVIOUS
<1>2. QED BY <1>1 DEF Making

LEMMA StillAdds ==
  ASSUME Inv, Making, UNCHANGED <<steps, pending>>
  PROVE  Adds(<<>>, <<>>, 0) /\ Making'
<1>1. Shown \in Seq(Steps) BY ShownIs, InvIs
<1>2. Shown' = Shown BY DEF Shown
<1>3. QED BY <1>1, <1>2, AddsNothing DEF Adds, Making

LEMMA FlushAdds ==
  ASSUME Inv, Flush
  PROVE  Adds(<<>>, <<>>, 0) /\ Making'
<1>1. steps' = Closed /\ pending' = <<>> BY DEF Flush
<1>2. Closed \in Seq(Steps) BY ClosedIs, InvIs
<1>3. Closed \o <<>> = Closed BY <1>2
<1>4. Shown' = Closed BY <1>1, <1>3, Zenon DEF Shown
<1>5. AddsTo(Shown, Closed, <<>>, <<>>, 0) BY ClosedAdds, InvIs
<1>6. QED BY <1>1, <1>4, <1>5, NoneMade DEF Adds

LEMMA SaysAdds ==
  ASSUME Inv, NEW text \in Says, UserSays(text)
  PROVE  Adds(Uttered("user", text), <<>>, 0) /\ Making'
<1> DEFINE number == [n \in Nat |-> stepId + n]
           said == [i \in 1..Len(Words(text)) |-> Step(number[i], "user", Words(text))]
<1>1. number \in [Nat -> Nat] BY StepIdIsNat, InvIs
<1>2. steps' = Closed \o said /\ pending' = <<>>
  <2>1. said = [i \in 1..Len(Words(text)) |-> Step(stepId + i, "user", Words(text))]
    <3>1. Len(Words(text)) \in Nat BY WordsAre
    <3>2. \A i \in 1..Len(Words(text)) : number[i] = stepId + i BY <3>1
    <3> HIDE DEF number
    <3>3. QED BY <3>2
  <2> HIDE DEF number, said
  <2>2. QED BY <2>1 DEF UserSays
<1>3. Closed \in Seq(Steps) BY ClosedIs, InvIs
<1>4. said \in Seq(Steps) /\ AddsTo(Closed, Closed \o said, Uttered("user", text), <<>>, 0)
  <2> HIDE DEF number
  <2>1. QED BY <1>1, <1>3, WordsAdd
<1> HIDE DEF number, said
<1>5. Shown' = Closed \o said
  <2>1. (Closed \o said) \o <<>> = Closed \o said BY <1>3, <1>4
  <2>2. QED BY <1>2, <2>1, Zenon DEF Shown
<1>6. AddsTo(Shown, Closed, <<>>, <<>>, 0) BY ClosedAdds, InvIs
<1>7. AddsTo(Shown, Closed \o said, <<>> \o Uttered("user", text), <<>> \o <<>>, 0 + 0)
  BY <1>4, <1>6, AddsMore
<1>8. <<>> \o Uttered("user", text) = Uttered("user", text)
  BY UtteredTyped
<1>9. <<>> \o <<>> = <<>> /\ 0 + 0 = 0 OBVIOUS
<1>10. QED BY <1>2, <1>5, <1>7, <1>8, <1>9, NoneMade DEF Adds

(* The step in the making, or a new one, with what an agent says and calls.   *)
LEMMA MadeAdds ==
  ASSUME Inv, Making, NEW step \in Steps, NEW text \in Says \cup Replies, NEW c \in Seq(Calls),
         NEW n \in Nat,
         \/ steps' = steps /\ pending' = <<step>>
         \/ steps' = Append(steps, step) /\ pending' = <<>>,
         step.source = Growing.source, step.words = Growing.words \o Words(text),
         step.calls = Growing.calls \o c, step.used <= Growing.used + n
  PROVE  Adds(Uttered("agent", text), c, n) /\ Making'
<1>1. Growing.source = "agent" /\ Growing \in Steps BY GrowingSpeaks
<1>2. Voiced(step) = Voiced(Growing) \o Uttered("agent", text) BY <1>1, VoicedMore
<1>3. Uttered("agent", text) \in Seq(Spoken) BY UtteredTyped
<1>4. Adds(Uttered("agent", text), c, n) BY <1>2, <1>3, GoesOnAdds, InvIs
<1>5. Making' BY <1>1, NoneMade, OneMade
<1>6. QED BY <1>4, <1>5

LEMMA GrownSays ==
  ASSUME Inv, NEW text \in Says \cup Replies, NEW calls \in Seq(Calls)
  PROVE  /\ Grown(text, calls) \in Steps /\ Grown(text, calls).source = Growing.source
         /\ Grown(text, calls).words = Growing.words \o Words(text)
         /\ Grown(text, calls).calls = Growing.calls \o calls
         /\ Grown(text, calls).used <= Growing.used + 0 /\ Growing.used \in 0..1
<1>1. Grown(text, calls) \in Steps BY GrownTyped, InvIs
<1>2. Growing \in Steps BY GrowingTyped, InvIs DEF Makes
<1>3. Grown(text, calls) = [id |-> Growing.id, source |-> Growing.source,
                            words |-> Growing.words \o Words(text),
                            calls |-> Growing.calls \o calls, results |-> Growing.results,
                            used |-> Growing.used]
  BY <1>2, FilledIn DEF Grown
<1>4. Growing.used \in 0..1 /\ Growing.used <= Growing.used + 0 BY <1>2 DEF Steps
<1>5. QED BY <1>1, <1>3, <1>4

-----------------------------------------------------------------------------
(* What an entry says, but for agentknit's prompts, and what each handler     *)
(* shows of it.                                                               *)

Heard(e) ==
  (IF e.kind \in {"user", "turn"} THEN Uttered("user", e.text) ELSE <<>>)
    \o (IF e.kind = "assistant" THEN Uttered("agent", e.text) ELSE Uttered("agent", e.reply))

Shows(u, n) ==
  /\ Adds(u, Entry.calls, n) /\ toolCalls' = toolCalls + Len(Entry.calls)
  /\ Making'

LEMMA HeardIs ==
  ASSUME NEW e, e.text \in Says \cup Replies, e.reply \in Answers, Plain(e)
  PROVE  /\ e.kind = "user" => Heard(e) = Uttered("user", e.text)
         /\ e.kind = "assistant" => Heard(e) = Uttered("agent", e.text)
         /\ e.kind = "turn" => Heard(e) = Uttered("user", e.text) \o Uttered("agent", e.reply)
         /\ e.kind \notin {"user", "assistant", "turn"} => Heard(e) = <<>>
         /\ Heard(e) \in Seq(Spoken)
<1>1. e.reply \in Says \cup Replies BY DEF Says, Answers
<1>2. /\ Uttered("user", e.text) \in Seq(Spoken) /\ Uttered("agent", e.text) \in Seq(Spoken)
      /\ Uttered("agent", e.reply) \in Seq(Spoken)
  BY <1>1, UtteredTyped
<1>3. e.kind # "turn" => Uttered("agent", e.reply) = <<>> BY DEF Plain, Uttered
<1>4. \A s \in Seq(Spoken) : s \o <<>> = s /\ <<>> \o s = s OBVIOUS
<1>5. <<>> \in Seq(Spoken) OBVIOUS
<1>6. CASE e.kind = "user" BY <1>2, <1>3, <1>4, <1>6 DEF Heard
<1>7. CASE e.kind = "assistant" BY <1>2, <1>4, <1>7 DEF Heard
<1>8. CASE e.kind = "turn"
  <2>1. Heard(e) = Uttered("user", e.text) \o Uttered("agent", e.reply) BY <1>8 DEF Heard
  <2>2. \A s, t \in Seq(Spoken) : s \o t \in Seq(Spoken) OBVIOUS
  <2>3. QED BY <1>2, <1>8, <2>1, <2>2
<1>9. CASE e.kind \notin {"user", "assistant", "turn"}
  BY <1>3, <1>4, <1>5, <1>9 DEF Heard
<1>10. QED BY <1>6, <1>7, <1>8, <1>9

(* What a handler finds, again.                                               *)
LEMMA EntryIsPlain ==
  ASSUME Inv, PlainLog, NEW format, NEW kind, Read(format, kind)
  PROVE  /\ Plain(Entry) /\ Entry.kind = kind /\ agent = format
         /\ Entry.text \in Says \cup Replies /\ Entry.reply \in Answers
         /\ Entry.calls \in Seq(Calls) /\ Entry.used \in 0..1
         /\ kind # "assistant" => Entry.text \in Says
         /\ pos \in 1..Len(log)
<1>1. /\ agent = format /\ Entry.kind = kind /\ Entry.text \in Says \cup Replies
      /\ Entry.reply \in Answers /\ Entry.calls \in Seq(Calls) /\ Entry.used \in 0..1
      /\ kind # "assistant" => Entry.text \in Says
  BY ReadTyped, InvIs
<1>2. pos <= Len(log) BY DEF Read
<1>3. pos \in 1..Len(log) + 1 /\ log \in Seq(LogLines(agent)) /\ Len(log) \in Nat
  BY InvIs DEF FileTyped
<1>4. pos \in 1..Len(log) /\ pos \in DOMAIN log BY <1>2, <1>3
<1>5. Plain(Entry) BY <1>4 DEF PlainLog, Entry
<1>6. QED BY <1>1, <1>4, <1>5

LEMMA NoCalls ==
  ASSUME Inv, Entry.calls = <<>>, UNCHANGED toolCalls
  PROVE  toolCalls' = toolCalls + Len(Entry.calls)
<1>1. toolCalls \in Nat BY InvIs DEF CountersTyped
<1>2. Len(Entry.calls) = 0 OBVIOUS
<1>3. QED BY <1>1, <1>2

LEMMA SilentEntriesShow ==
  ASSUME Inv, PlainLog, Making,
         \/ ClaudeResult \/ ClaudeOther \/ CodexResult \/ CopilotResult \/ HermesTool
         \/ ProbeUsage \/ KnitTask
  PROVE  Shows(<<>>, 0)
<1>1. PICK kind \in {"result", "end", "usage", "task"} : \E format : Read(format, kind)
  BY DEF ClaudeResult, ClaudeOther, CodexResult, CopilotResult, HermesTool, ProbeUsage, KnitTask
<1>2. UNCHANGED <<steps, pending, toolCalls>>
  BY DEF ClaudeResult, ClaudeOther, CodexResult, CopilotResult, HermesTool, ProbeUsage, KnitTask,
         parsed
<1>3. Entry.kind = kind /\ Plain(Entry) BY <1>1, EntryIsPlain
<1>4. Entry.calls = <<>> BY <1>1, <1>3 DEF Plain
<1>5. QED BY <1>2, <1>4, StillAdds, NoCalls DEF Shows

LEMMA EndsOfTurnsShow ==
  ASSUME Inv, PlainLog, CodexEnd \/ CopilotEnd
  PROVE  Shows(<<>>, 0)
<1>1. (\E format : Read(format, "end")) /\ Flush /\ UNCHANGED toolCalls
  BY DEF CodexEnd, CopilotEnd, AnyUser
<1>2. Entry.kind = "end" /\ Plain(Entry) BY <1>1, EntryIsPlain
<1>3. Entry.calls = <<>> BY <1>2 DEF Plain
<1>4. QED BY <1>1, <1>3, FlushAdds, NoCalls DEF Shows

LEMMA UserEntriesShow ==
  ASSUME Inv, PlainLog,
         ClaudeUser \/ CodexUser \/ CopilotUser \/ HermesUser \/ ProbeUser \/ ExecPrompt
  PROVE  Shows(Uttered("user", Entry.text), 0)
<1>1. (\E format : Read(format, "user")) /\ UserSays(Entry.text) /\ UNCHANGED toolCalls
  BY DEF ClaudeUser, CodexUser, CopilotUser, HermesUser, ProbeUser, ExecPrompt, AnyUser
<1>2. Entry.kind = "user" /\ Plain(Entry) /\ Entry.text \in Says BY <1>1, EntryIsPlain
<1>3. Entry.calls = <<>> BY <1>2 DEF Plain
<1>4. QED BY <1>1, <1>2, <1>3, SaysAdds, NoCalls DEF Shows

LEMMA CallsAndMessagesShow ==
  ASSUME Inv, PlainLog, Making, CodexMessage \/ CodexCall \/ CopilotMessage \/ ProbeCall
  PROVE  Shows(Heard(Entry), 0)
<1>1. PICK format \in {"codex", "copilot", "agent_probe"}, kind \in {"assistant", "call"} :
        Read(format, kind)
  BY DEF CodexMessage, CodexCall, CopilotMessage, ProbeCall
<1>2. /\ Entry.kind = kind /\ Plain(Entry) /\ agent = format
      /\ Entry.text \in Says \cup Replies /\ Entry.calls \in Seq(Calls) /\ Entry.reply \in Answers
  BY <1>1, EntryIsPlain
<1>3. Heard(Entry) = Uttered("agent", Entry.text)
  <2>1. CASE kind = "assistant" BY <1>2, <2>1, HeardIs
  <2>2. CASE kind = "call"
    <3>1. Heard(Entry) = <<>> /\ Entry.text = Blank BY <1>2, <2>2, HeardIs DEF Plain
    <3>2. QED BY <3>1 DEF Uttered
  <2>3. QED BY <1>1, <2>1, <2>2
<1>4. /\ pending' = <<Grown(Entry.text, Entry.calls)>> /\ UNCHANGED steps
      /\ toolCalls' = toolCalls + Len(Entry.calls)
  <2>1. CASE CodexMessage
    <3>1. /\ pending' = <<Grown(Entry.text, <<>>)>> /\ UNCHANGED <<steps, toolCalls>>
          /\ Read("codex", "assistant")
      BY <2>1 DEF CodexMessage, AnyUser
    <3>2. Entry.calls = <<>> BY <3>1, EntryIsPlain DEF Plain
    <3>3. QED BY <3>1, <3>2, NoCalls
  <2>2. CASE CodexCall \/ ProbeCall
    <3>1. /\ pending' = <<Grown(Blank, Entry.calls)>> /\ UNCHANGED steps /\ Called(Entry.calls)
          /\ \E f : Read(f, "call")
      BY <2>2 DEF CodexCall, ProbeCall
    <3>2. Entry.text = Blank BY <3>1, EntryIsPlain DEF Plain
    <3>3. QED BY <3>1, <3>2 DEF Called
  <2>3. CASE CopilotMessage BY <2>3 DEF CopilotMessage, Called
  <2>4. QED BY <2>1, <2>2, <2>3
<1> DEFINE step == Grown(Entry.text, Entry.calls)
<1>5. /\ step \in Steps /\ step.source = Growing.source
      /\ step.words = Growing.words \o Words(Entry.text)
      /\ step.calls = Growing.calls \o Entry.calls /\ step.used <= Growing.used + 0
  BY <1>2, GrownSays
<1> HIDE DEF step
<1>6. steps' = steps /\ pending' = <<step>> BY <1>4 DEF step
<1>7. 0 \in Nat OBVIOUS
<1>8. Adds(Uttered("agent", Entry.text), Entry.calls, 0) /\ Making'
  BY <1>2, <1>5, <1>6, <1>7, MadeAdds
<1>9. QED BY <1>3, <1>4, <1>8 DEF Shows

LEMMA AnsweredSays ==
  ASSUME Inv, NEW step \in Steps
  PROVE  /\ Answered(step) \in Steps /\ Answered(step).source = step.source
         /\ Answered(step).words = step.words /\ Answered(step).calls = step.calls
         /\ Answered(step).used = step.used
BY AnsweredTyped, InvIs DEF Answered, Steps

LEMMA ClaudeAssistantShows ==
  ASSUME Inv, PlainLog, Making, ClaudeAssistant
  PROVE  Shows(Heard(Entry), Entry.used)
<1>1. Read("claude", "assistant") BY DEF ClaudeAssistant
<1>2. /\ Entry.kind = "assistant" /\ Plain(Entry) /\ agent = "claude" /\ Entry.used \in 0..1
      /\ Entry.text \in Says \cup Replies /\ Entry.calls \in Seq(Calls) /\ Entry.reply \in Answers
  BY <1>1, EntryIsPlain
<1>3. Heard(Entry) = Uttered("agent", Entry.text) BY <1>2, HeardIs
<1> DEFINE grown == Grown(Entry.text, Entry.calls)
           counted == [grown EXCEPT !.used = Entry.used]
           step == Answered(counted)
<1>4. /\ grown \in Steps /\ grown.source = Growing.source
      /\ grown.words = Growing.words \o Words(Entry.text)
      /\ grown.calls = Growing.calls \o Entry.calls /\ Growing.used \in 0..1
  BY <1>2, GrownSays
<1>5. /\ steps' = Append(steps, step) /\ UNCHANGED pending
      /\ toolCalls' = toolCalls + Len(Entry.calls)
  BY DEF ClaudeAssistant, Called
<1>6. pending' = <<>> BY <1>2, <1>5, InvIs DEF IInv
<1> HIDE DEF grown
<1>7. /\ counted \in Steps /\ counted.source = grown.source /\ counted.words = grown.words
      /\ counted.calls = grown.calls /\ counted.used = Entry.used
  BY <1>2, <1>4 DEF Steps
<1> HIDE DEF counted
<1>8. /\ step \in Steps /\ step.source = Growing.source
      /\ step.words = Growing.words \o Words(Entry.text)
      /\ step.calls = Growing.calls \o Entry.calls /\ step.used = Entry.used
  BY <1>4, <1>7, AnsweredSays
<1> HIDE DEF step
<1>9. step.used <= Growing.used + Entry.used /\ Entry.used \in Nat BY <1>2, <1>4, <1>8
<1>10. Adds(Uttered("agent", Entry.text), Entry.calls, Entry.used) /\ Making'
  BY <1>2, <1>5, <1>6, <1>8, <1>9, MadeAdds
<1>11. QED BY <1>3, <1>5, <1>10 DEF Shows

LEMMA HermesAssistantShows ==
  ASSUME Inv, PlainLog, Making, HermesAssistant
  PROVE  Shows(Heard(Entry), 0)
<1>1. Read("hermes", "assistant") BY DEF HermesAssistant
<1>2. /\ Entry.kind = "assistant" /\ Plain(Entry)
      /\ Entry.text \in Says \cup Replies /\ Entry.calls \in Seq(Calls) /\ Entry.reply \in Answers
  BY <1>1, EntryIsPlain
<1>3. Heard(Entry) = Uttered("agent", Entry.text) BY <1>2, HeardIs
<1> DEFINE grown == Grown(Entry.text, Entry.calls)
<1>4. /\ grown \in Steps /\ grown.source = Growing.source
      /\ grown.words = Growing.words \o Words(Entry.text)
      /\ grown.calls = Growing.calls \o Entry.calls /\ grown.used <= Growing.used + 0
  BY <1>2, GrownSays
<1>5. /\ \/ steps' = steps /\ pending' = <<grown>>
         \/ steps' = Append(steps, Answered(grown)) /\ pending' = <<>>
      /\ toolCalls' = toolCalls + Len(Entry.calls)
  BY DEF HermesAssistant, Called
<1> HIDE DEF grown
<1>6. /\ Answered(grown) \in Steps /\ Answered(grown).source = Growing.source
      /\ Answered(grown).words = Growing.words \o Words(Entry.text)
      /\ Answered(grown).calls = Growing.calls \o Entry.calls
      /\ Answered(grown).used <= Growing.used + 0
  BY <1>4, AnsweredSays
<1>7. 0 \in Nat OBVIOUS
<1>8. Adds(Uttered("agent", Entry.text), Entry.calls, 0) /\ Making'
  <2>1. CASE steps' = steps /\ pending' = <<grown>> BY <1>2, <1>4, <1>7, <2>1, MadeAdds
  <2>2. CASE steps' = Append(steps, Answered(grown)) /\ pending' = <<>>
    BY <1>2, <1>6, <1>7, <2>2, MadeAdds
  <2>3. QED BY <1>5, <2>1, <2>2
<1>9. QED BY <1>3, <1>5, <1>8 DEF Shows

LEMMA ProbeAssistantShows ==
  ASSUME Inv, PlainLog, Making, ProbeAssistant
  PROVE  Shows(Heard(Entry), 0)
<1>1. Read("agent_probe", "assistant") BY DEF ProbeAssistant
<1>2. /\ Entry.kind = "assistant" /\ Plain(Entry) /\ agent = "agent_probe"
      /\ Entry.text \in Says \cup Replies /\ Entry.calls \in Seq(Calls) /\ Entry.reply \in Answers
  BY <1>1, EntryIsPlain
<1>3. Heard(Entry) = Uttered("agent", Entry.text) /\ Entry.calls = <<>>
  BY <1>2, HeardIs DEF Plain
<1> DEFINE step == [Growing EXCEPT !.words = Words(Entry.text)]
<1>4. steps' = Append(steps, step) /\ pending' = <<>> /\ UNCHANGED toolCalls
  BY DEF ProbeAssistant, AnyUser
<1>5. Growing \in Steps /\ Growing.words = <<>> BY <1>2, GrowingTyped, InvIs DEF Makes
<1>6. Words(Entry.text) \in Seq(Texts \cup Replies) BY <1>2, WordsTyped
<1>7. /\ step \in Steps /\ step.source = Growing.source /\ step.words = Words(Entry.text)
      /\ step.calls = Growing.calls /\ step.used = Growing.used
  BY <1>5, <1>6 DEF Steps
<1> HIDE DEF step
<1>8. step.words = Growing.words \o Words(Entry.text) /\ step.calls = Growing.calls \o <<>>
  <2>1. Growing.calls \in Seq(Calls) BY <1>5 DEF Steps
  <2>2. Growing.calls \o <<>> = Growing.calls /\ <<>> \o Words(Entry.text) = Words(Entry.text)
    BY <1>6, <2>1
  <2>3. QED BY <1>5, <1>7, <2>2
<1>9. step.used <= Growing.used + 0 BY <1>5, <1>7 DEF Steps
<1>10. 0 \in Nat /\ <<>> \in Seq(Calls) OBVIOUS
<1>11. Adds(Uttered("agent", Entry.text), <<>>, 0) /\ Making'
  BY <1>2, <1>4, <1>7, <1>8, <1>9, <1>10, MadeAdds
<1>12. QED BY <1>3, <1>4, <1>11, NoCalls DEF Shows

(* A count, or a result, for the step in the making.                          *)
Fills(step, n) ==
  /\ step \in Steps /\ step.source = Growing.source /\ step.words = Growing.words
  /\ step.calls = Growing.calls /\ step.used <= Growing.used + n

LEMMA FillsAdds ==
  ASSUME Inv, Making, NEW step, NEW n \in Nat, Fills(step, n),
         \/ steps' = steps /\ pending' = <<step>>
         \/ steps' = Append(steps, step) /\ pending' = <<>>
  PROVE  Adds(<<>>, <<>>, n) /\ Making'
<1>1. Growing \in Steps BY GrowingSpeaks
<1>2. Growing.words \in Seq(Texts \cup Replies) /\ Growing.calls \in Seq(Calls)
  BY <1>1 DEF Steps
<1>3. Growing.words \o <<>> = Growing.words /\ Growing.calls \o <<>> = Growing.calls
  BY <1>2
<1>4. Words(Blank) = <<>> /\ Uttered("agent", Blank) = <<>> /\ Blank \in Says \cup Replies
  BY DEF Words, Uttered, Says
<1>5. <<>> \in Seq(Calls) OBVIOUS
<1>6. /\ step \in Steps /\ step.source = Growing.source
      /\ step.words = Growing.words \o Words(Blank) /\ step.calls = Growing.calls \o <<>>
      /\ step.used <= Growing.used + n
  BY <1>3, <1>4 DEF Fills
<1>7. Adds(Uttered("agent", Blank), <<>>, n) /\ Making'
  BY <1>4, <1>5, <1>6, MadeAdds
<1>8. QED BY <1>4, <1>7

LEMMA FilledAdds ==
  ASSUME Inv, Making, NEW filled, pending' = [i \in DOMAIN pending |-> filled[i]],
         UNCHANGED steps, NEW n \in Nat, pending # <<>> => Fills(filled[1], n)
  PROVE  Adds(<<>>, <<>>, n) /\ Making'
<1>1. CASE pending = <<>>
  <2>1. pending' = <<>> BY <1>1
  <2>2. Adds(<<>>, <<>>, 0) /\ Making' BY <1>1, <2>1, StillAdds
  <2>3. Shown \in Seq(Steps) /\ Shown' \in Seq(Steps) BY <2>2 DEF Adds, AddsTo
  <2>4. Used(Shown) \in Nat /\ Used(Shown') \in Nat BY <2>3, SaidByTyped
  <2>5. Used(Shown') <= Used(Shown) + n
    <3>1. Used(Shown') <= Used(Shown) + 0 BY <2>2, Zenon DEF Adds, AddsTo
    <3>2. QED BY <2>4, <3>1
  <2>6. QED BY <2>2, <2>5 DEF Adds, AddsTo
<1>2. CASE pending # <<>>
  <2>1. pending = <<Growing>> BY <1>2, PendingIsMade
  <2>2. pending' = <<filled[1]>> BY <2>1
  <2>3. QED BY <1>2, <2>2, FillsAdds
<1>3. QED BY <1>1, <1>2

LEMMA UsedFills ==
  ASSUME Inv, NEW used \in 0..1
  PROVE  Fills([Growing EXCEPT !.used = used], used)
<1> DEFINE step == [Growing EXCEPT !.used = used]
<1>1. Growing \in Steps BY GrowingTyped, InvIs DEF Makes
<1>2. /\ step \in Steps /\ step.source = Growing.source /\ step.words = Growing.words
      /\ step.calls = Growing.calls /\ step.used = used
  BY <1>1 DEF Steps
<1>3. Growing.used \in 0..1 BY <1>1 DEF Steps
<1> HIDE DEF step
<1>4. step.used <= Growing.used + used BY <1>2, <1>3
<1>5. Fills(step, used) BY <1>2, <1>4 DEF Fills
<1>6. QED BY <1>5 DEF step

LEMMA ResultFills ==
  ASSUME Inv, NEW id \in Calls
  PROVE  Fills([Growing EXCEPT !.results = Append(@, id)], 0)
<1> DEFINE step == [Growing EXCEPT !.results = Append(@, id)]
<1>1. Growing \in Steps BY GrowingTyped, InvIs DEF Makes
<1>2. Append(Growing.results, id) \in Seq(Calls)
  <2>1. Growing.results \in Seq(Calls) BY <1>1 DEF Steps
  <2>2. QED BY <2>1
<1>3. /\ step \in Steps /\ step.source = Growing.source /\ step.words = Growing.words
      /\ step.calls = Growing.calls /\ step.used = Growing.used
  BY <1>1, <1>2 DEF Steps
<1>4. Growing.used \in 0..1 BY <1>1 DEF Steps
<1> HIDE DEF step
<1>5. step.used <= Growing.used + 0 BY <1>3, <1>4
<1>6. Fills(step, 0) BY <1>3, <1>5 DEF Fills
<1>7. QED BY <1>6 DEF step

LEMMA CodexUsageShows ==
  ASSUME Inv, PlainLog, Making, CodexUsage
  PROVE  Shows(<<>>, Entry.used)
<1> DEFINE filled == [i \in DOMAIN pending |-> [pending[i] EXCEPT !.used = Entry.used]]
<1>1. Read("codex", "usage") BY DEF CodexUsage
<1>2. Entry.kind = "usage" /\ Plain(Entry) /\ Entry.used \in 0..1 BY <1>1, EntryIsPlain
<1>3. Entry.calls = <<>> BY <1>2 DEF Plain
<1>4. pending' = filled /\ UNCHANGED <<steps, toolCalls>> BY DEF CodexUsage
<1>5. pending' = [i \in DOMAIN pending |-> filled[i]] BY <1>4
<1>6. ASSUME pending # <<>> PROVE Fills(filled[1], Entry.used)
  <2>1. filled[1] = [Growing EXCEPT !.used = Entry.used] BY <1>6, PendingIsMade
  <2>2. Fills([Growing EXCEPT !.used = Entry.used], Entry.used) BY <1>2, UsedFills
  <2>3. QED BY <2>1, <2>2, Zenon
<1>7. Entry.used \in Nat BY <1>2
<1> HIDE DEF filled
<1>8. Adds(<<>>, <<>>, Entry.used) /\ Making' BY <1>4, <1>5, <1>6, <1>7, FilledAdds
<1>9. QED BY <1>3, <1>4, <1>8, NoCalls DEF Shows

LEMMA ResultEntriesShow ==
  ASSUME Inv, PlainLog, Making, ProbeResult \/ KnitTool
  PROVE  Shows(<<>>, 0)
<1> DEFINE filled == [i \in DOMAIN pending |-> [pending[i] EXCEPT !.results = Append(@, Entry.id)]]
<1>1. PICK format : Read(format, "result") BY DEF ProbeResult, KnitTool
<1>2. Entry.kind = "result" /\ Plain(Entry) BY <1>1, EntryIsPlain
<1>3. Entry.calls = <<>> BY <1>2 DEF Plain
<1>4. Entry.id \in Calls BY <1>1, ReadTyped, InvIs
<1>5. pending' = filled /\ UNCHANGED <<steps, toolCalls>> BY DEF ProbeResult, KnitTool
<1>6. pending' = [i \in DOMAIN pending |-> filled[i]] BY <1>5
<1>7. ASSUME pending # <<>> PROVE Fills(filled[1], 0)
  <2>1. filled[1] = [Growing EXCEPT !.results = Append(@, Entry.id)] BY <1>7, PendingIsMade
  <2>2. Fills([Growing EXCEPT !.results = Append(@, Entry.id)], 0) BY <1>4, ResultFills
  <2>3. QED BY <2>1, <2>2, Zenon
<1>8. 0 \in Nat OBVIOUS
<1> HIDE DEF filled
<1>9. Adds(<<>>, <<>>, 0) /\ Making' BY <1>5, <1>6, <1>7, <1>8, FilledAdds
<1>10. QED BY <1>3, <1>5, <1>9, NoCalls DEF Shows

LEMMA ExecMessageShows ==
  ASSUME Inv, PlainLog, Making, ExecMessage
  PROVE  Shows(Heard(Entry), 0)
<1> DEFINE step == Grown(Entry.text, <<>>)
<1>1. Read("exec", "assistant") BY DEF ExecMessage
<1>2. /\ Entry.kind = "assistant" /\ Plain(Entry) /\ agent = "exec"
      /\ Entry.text \in Says \cup Replies /\ Entry.reply \in Answers
  BY <1>1, EntryIsPlain
<1>3. Heard(Entry) = Uttered("agent", Entry.text) /\ Entry.calls = <<>>
  BY <1>2, HeardIs DEF Plain
<1>4. <<>> \in Seq(Calls) /\ 0 \in Nat OBVIOUS
<1>5. /\ step \in Steps /\ step.source = Growing.source
      /\ step.words = Growing.words \o Words(Entry.text)
      /\ step.calls = Growing.calls \o <<>> /\ step.used <= Growing.used + 0
  BY <1>2, <1>4, GrownSays
<1>6. /\ \/ pending' = <<step>>
         \/ Entry.text = Blank /\ UNCHANGED pending
      /\ UNCHANGED <<steps, toolCalls>>
  BY DEF ExecMessage, AnyUser
<1> HIDE DEF step
<1>7. Adds(Uttered("agent", Entry.text), <<>>, 0) /\ Making'
  <2>1. CASE pending' = <<step>> BY <1>2, <1>4, <1>5, <1>6, <2>1, MadeAdds
  <2>2. CASE Entry.text = Blank /\ UNCHANGED pending BY <1>6, <2>2, StillAdds DEF Uttered
  <2>3. QED BY <1>6, <2>1, <2>2
<1>8. QED BY <1>3, <1>6, <1>7, NoCalls DEF Shows

LEMMA ExecCommandShows ==
  ASSUME Inv, PlainLog, Making, ExecCommand
  PROVE  Shows(<<>>, 0)
<1> DEFINE grown == Grown(Blank, Entry.calls)
           output == IF Entry.id = 0 THEN <<>> ELSE <<Entry.id>>
           step == [grown EXCEPT !.results = @ \o output]
<1>1. Read("exec", "ran") BY DEF ExecCommand
<1>2. Entry.calls \in Seq(Calls) BY <1>1, EntryIsPlain
<1>3. /\ pending' = <<step>> /\ UNCHANGED steps /\ toolCalls' = toolCalls + Len(Entry.calls)
  BY DEF ExecCommand, Called
<1>4. Blank \in Says \cup Replies BY DEF Says
<1>5. /\ grown \in Steps /\ grown.source = Growing.source
      /\ grown.words = Growing.words \o Words(Blank)
      /\ grown.calls = Growing.calls \o Entry.calls /\ grown.used <= Growing.used + 0
  BY <1>2, <1>4, GrownSays
<1> HIDE DEF grown
<1>6. output \in Seq(Calls)
  <2>1. Entry.id \in 0..MaxCalls BY <1>1, ReadTyped, InvIs DEF LogLines
  <2>2. Entry.id # 0 => Entry.id \in Calls BY <2>1, BoundsAssumption DEF Calls
  <2>3. CASE Entry.id = 0 BY <2>3
  <2>4. CASE Entry.id # 0 BY <2>2, <2>4
  <2>5. QED BY <2>3, <2>4
<1> HIDE DEF output
<1>7. grown.results \o output \in Seq(Calls)
  <2>1. grown.results \in Seq(Calls) BY <1>5 DEF Steps
  <2>2. QED BY <1>6, <2>1, ConcatProperties
<1>8. /\ step \in Steps /\ step.source = grown.source /\ step.words = grown.words
      /\ step.calls = grown.calls /\ step.used = grown.used
  BY <1>5, <1>7 DEF Steps
<1> HIDE DEF step
<1>9. Uttered("agent", Blank) = <<>> BY DEF Uttered
<1>10. /\ step.source = Growing.source /\ step.words = Growing.words \o Words(Blank)
       /\ step.calls = Growing.calls \o Entry.calls /\ step.used <= Growing.used + 0
  BY <1>5, <1>8
<1>11. 0 \in Nat OBVIOUS
<1>12. Adds(Uttered("agent", Blank), Entry.calls, 0) /\ Making'
  BY <1>2, <1>3, <1>4, <1>8, <1>10, <1>11, MadeAdds
<1>13. QED BY <1>3, <1>9, <1>12 DEF Shows

LEMMA ExecEndShows ==
  ASSUME Inv, PlainLog, Making, ExecEnd
  PROVE  Shows(<<>>, Entry.used)
<1> DEFINE filled == [i \in DOMAIN pending |-> [pending[i] EXCEPT !.used = Entry.used]]
           step == [Growing EXCEPT !.used = Entry.used]
<1>1. Read("exec", "end") BY DEF ExecEnd
<1>2. Entry.kind = "end" /\ Plain(Entry) /\ Entry.used \in 0..1 BY <1>1, EntryIsPlain
<1>3. Entry.calls = <<>> /\ Entry.used \in Nat BY <1>2 DEF Plain
<1>4. steps' = steps \o filled /\ pending' = <<>> /\ UNCHANGED toolCalls BY DEF ExecEnd
<1>5. Adds(<<>>, <<>>, Entry.used) /\ Making'
  <2>1. CASE pending = <<>>
    <3>1. filled = <<>> BY <2>1
    <3> HIDE DEF filled
    <3>2. steps \o <<>> = steps BY InvIs DEF StepsTyped
    <3>3. UNCHANGED steps BY <1>4, <3>1, <3>2
    <3> DEFINE any == <<>>
    <3>4. pending' = [i \in DOMAIN pending |-> any[i]] BY <1>4, <2>1
    <3> HIDE DEF any
    <3>5. QED BY <1>3, <2>1, <3>3, <3>4, FilledAdds
  <2>2. CASE pending # <<>>
    <3>1. pending = <<Growing>> BY <2>2, PendingIsMade
    <3>2. filled = <<step>> BY <3>1
    <3>3. Fills(step, Entry.used) BY <1>2, UsedFills
    <3> HIDE DEF filled, step
    <3>4. step \in Steps /\ steps \in Seq(Steps) BY <3>3, InvIs DEF Fills, StepsTyped
    <3>5. steps' = Append(steps, step) BY <1>4, <3>2, <3>4
    <3>6. QED BY <1>3, <1>4, <3>3, <3>5, FillsAdds
  <2>3. QED BY <2>1, <2>2
<1>6. QED BY <1>3, <1>4, <1>5, NoCalls DEF Shows

(* A row of Copilot's database: two steps at most.                            *)
LEMMA CopilotTurnShows ==
  ASSUME Inv, PlainLog, CopilotTurn
  PROVE  Shows(Heard(Entry), 0)
<1> DEFINE said == Words(Entry.text)
           answer == Words(Entry.reply)
           number == [n \in Nat |-> stepId + 1]
           next == [n \in Nat |-> stepId + Len(said) + 1]
           asked == [i \in 1..Len(said) |-> Step(number[i], "user", said)]
           told == [i \in 1..Len(answer) |-> Step(next[i], "agent", answer)]
<1>1. Read("copilot_db", "turn") BY DEF CopilotTurn
<1>2. /\ Entry.kind = "turn" /\ Plain(Entry) /\ agent = "copilot_db"
      /\ Entry.text \in Says \cup Replies /\ Entry.reply \in Answers
  BY <1>1, EntryIsPlain
<1>3. /\ Heard(Entry) = Uttered("user", Entry.text) \o Uttered("agent", Entry.reply)
      /\ Entry.calls = <<>>
  BY <1>2, HeardIs DEF Plain
<1>4. /\ steps' = steps \o [i \in 1..Len(said) |-> Step(stepId + 1, "user", said)]
                        \o [i \in 1..Len(answer) |->
                              Step(stepId + Len(said) + 1, "agent", answer)]
      /\ UNCHANGED <<pending, toolCalls>>
  BY DEF CopilotTurn, AnyUser
<1>5. pending = <<>> /\ pending' = <<>> BY <1>2, <1>4, InvIs DEF IInv
<1>6. Len(said) \in Nat /\ Len(answer) \in Nat BY WordsAre
<1>7. /\ asked = [i \in 1..Len(said) |-> Step(stepId + 1, "user", said)]
      /\ told = [i \in 1..Len(answer) |-> Step(stepId + Len(said) + 1, "agent", answer)]
  <2>1. \A i \in 1..Len(said) : number[i] = stepId + 1 BY <1>6
  <2>2. \A i \in 1..Len(answer) : next[i] = stepId + Len(said) + 1 BY <1>6
  <2> HIDE DEF number, next, said, answer
  <2>3. QED BY <2>1, <2>2
<1>8. stepId \in Nat BY StepIdIsNat, InvIs
<1>9. number \in [Nat -> Nat] BY <1>8
<1>10. next \in [Nat -> Nat]
  <2>1. stepId + Len(said) + 1 \in Nat BY <1>6, <1>8
  <2> HIDE DEF said
  <2>2. QED BY <2>1
<1>11. Entry.reply \in Says \cup Replies BY <1>2 DEF Answers, Says
<1>12. steps \in Seq(Steps) BY InvIs DEF StepsTyped
<1> HIDE DEF number, next
<1>13. asked \in Seq(Steps) /\ AddsTo(steps, steps \o asked, Uttered("user", Entry.text), <<>>, 0)
  BY <1>2, <1>9, <1>12, WordsAdd
<1>14. steps \o asked \in Seq(Steps) BY <1>12, <1>13, ConcatProperties
<1> DEFINE opened == steps \o asked
<1> HIDE DEF asked, opened
<1>15. /\ told \in Seq(Steps)
       /\ AddsTo(opened, opened \o told, Uttered("agent", Entry.reply), <<>>, 0)
  <2>1. opened \in Seq(Steps) BY <1>14 DEF opened
  <2>2. QED BY <1>10, <1>11, <2>1, WordsAdd
<1> HIDE DEF told, said, answer
<1>16. steps' = opened \o told BY <1>4, <1>7, Zenon DEF opened
<1>17. AddsTo(steps, opened, Uttered("user", Entry.text), <<>>, 0) BY <1>13 DEF opened
<1>18. AddsTo(steps, opened \o told, Heard(Entry), <<>> \o <<>>, 0 + 0)
  <2>1. AddsTo(steps, opened \o told, Uttered("user", Entry.text) \o Uttered("agent", Entry.reply),
               <<>> \o <<>>, 0 + 0)
    BY <1>15, <1>17, AddsMore
  <2>2. QED BY <1>3, <2>1, Zenon
<1>19. <<>> \o <<>> = <<>> /\ 0 + 0 = 0 OBVIOUS
<1>20. Shown = steps /\ Shown' = steps'
  <2>1. opened \o told \in Seq(Steps) BY <1>18 DEF AddsTo
  <2>2. steps \o <<>> = steps /\ steps' \o <<>> = steps' BY <1>12, <1>16, <2>1
  <2>3. QED BY <1>5, <2>2 DEF Shown
<1>21. Adds(Heard(Entry), Entry.calls, 0) BY <1>3, <1>16, <1>18, <1>19, <1>20, Zenon DEF Adds
<1>22. QED BY <1>3, <1>4, <1>5, <1>21, NoneMade, NoCalls DEF Shows

(* agentknit: a message of the user's, unless it repeats the last one, and an *)
(* answer after the task that was held back.                                  *)
LEMMA UnlessTyped ==
  ASSUME NEW text \in Says, NEW last
  PROVE  Unless(text, last) \in Says
BY DEF Unless, Says

LEMMA KnitUserShows ==
  ASSUME Inv, PlainLog, KnitUser
  PROVE  Shows(Uttered("user", Unless(Entry.text, lastUser)), 0)
<1>1. /\ Read("agentknit", "user") /\ UserSays(Unless(Entry.text, lastUser))
      /\ UNCHANGED toolCalls
  BY DEF KnitUser
<1>2. Entry.kind = "user" /\ Plain(Entry) /\ Entry.text \in Says BY <1>1, EntryIsPlain
<1>3. Entry.calls = <<>> BY <1>2 DEF Plain
<1>4. Unless(Entry.text, lastUser) \in Says BY <1>2, UnlessTyped
<1>5. QED BY <1>1, <1>3, <1>4, SaysAdds, NoCalls DEF Shows

LEMMA KnitAssistantShows ==
  ASSUME Inv, PlainLog, KnitAssistant
  PROVE  Shows(Uttered("user", Unless(task, lastUser)) \o Uttered("agent", Entry.text), 0)
<1> DEFINE text == Unless(task, lastUser)
           number == [n \in Nat |-> stepId + 1]
           asked == [i \in 1..Len(Words(text)) |-> Step(number[i], "user", Words(text))]
           id == stepId + Len(Words(text)) + 1
           begun == Step(id, "agent", Words(Entry.text))
           step == [begun EXCEPT !.calls = Entry.calls]
<1>1. Read("agentknit", "assistant") BY DEF KnitAssistant
<1>2. /\ Entry.kind = "assistant" /\ Plain(Entry)
      /\ Entry.text \in Says \cup Replies /\ Entry.calls \in Seq(Calls)
  BY <1>1, EntryIsPlain
<1>3. text \in Says
  <2>1. task \in Says BY InvIs DEF CountersTyped
  <2>2. QED BY <2>1, UnlessTyped
<1>4. /\ steps' = Closed \o [i \in 1..Len(Words(text)) |-> Step(stepId + 1, "user", Words(text))]
      /\ pending' = <<step>> /\ toolCalls' = toolCalls + Len(Entry.calls)
  BY DEF KnitAssistant, Called
<1> HIDE DEF text
<1>5. asked = [i \in 1..Len(Words(text)) |-> Step(stepId + 1, "user", Words(text))]
  <2>1. Len(Words(text)) \in Nat BY WordsAre
  <2>2. \A i \in 1..Len(Words(text)) : number[i] = stepId + 1 BY <2>1
  <2> HIDE DEF number
  <2>3. QED BY <2>2
<1>6. stepId \in Nat /\ number \in [Nat -> Nat] BY StepIdIsNat, InvIs
<1>7. begun \in Steps
  <2>1. Words(Entry.text) \in Seq(Texts \cup Replies) BY <1>2, WordsTyped
  <2>2. id \in Nat BY <1>6, WordsAre
  <2>3. QED BY <2>1, <2>2, StepTyped
<1>8. begun.source = "agent" /\ begun.words = Words(Entry.text) /\ begun.used = 0 BY DEF Step
<1> HIDE DEF begun, number
<1>9. /\ step \in Steps /\ step.source = "agent" /\ step.words = Words(Entry.text)
      /\ step.calls = Entry.calls /\ step.used = 0
  BY <1>2, <1>7, <1>8 DEF Steps
<1> HIDE DEF step
<1>10. Closed \in Seq(Steps) BY ClosedIs, InvIs
<1>11. asked \in Seq(Steps) /\ AddsTo(Closed, Closed \o asked, Uttered("user", text), <<>>, 0)
  <2>1. text \in Says \cup Replies BY <1>3
  <2>2. QED BY <1>6, <1>10, <2>1, WordsAdd
<1> DEFINE opened == Closed \o asked
<1>12. opened \in Seq(Steps) BY <1>10, <1>11, ConcatProperties
<1>13. steps' = opened BY <1>4, <1>5
<1>14. AddsTo(Closed, opened, Uttered("user", text), <<>>, 0) BY <1>11
<1> HIDE DEF asked, opened
<1>15. Voiced(step) = Uttered("agent", Entry.text)
  <2> DEFINE none == Step(0, "agent", <<>>)
  <2>1. none \in Steps /\ none.source = "agent" /\ none.words = <<>>
    <3>1. 0 \in Nat /\ <<>> \in Seq(Texts \cup Replies) OBVIOUS
    <3>2. none \in Steps BY <3>1, StepTyped
    <3>3. QED BY <3>2 DEF Step
  <2> HIDE DEF none
  <2>2. Voiced(none) = <<>> BY <2>1 DEF Voiced
  <2>3. Words(Entry.text) \in Seq(Texts \cup Replies) BY <1>2, WordsTyped
  <2>4. step.words = none.words \o Words(Entry.text)
    <3>1. <<>> \o Words(Entry.text) = Words(Entry.text) BY <2>3
    <3>2. QED BY <1>9, <2>1, <3>1
  <2>5. Voiced(step) = Voiced(none) \o Uttered("agent", Entry.text)
    <3>1. step.source = none.source BY <1>9, <2>1
    <3>2. Voiced(step) = Voiced(none) \o Uttered(none.source, Entry.text)
      BY <1>2, <1>9, <2>1, <2>4, <3>1, VoicedMore
    <3>3. QED BY <2>1, <3>2
  <2>6. Uttered("agent", Entry.text) \in Seq(Spoken) BY <1>2, UtteredTyped
  <2>7. QED BY <2>2, <2>5, <2>6
<1>16. AddsTo(opened, Append(opened, step), Uttered("agent", Entry.text), Entry.calls, 0)
  BY <1>9, <1>12, <1>15, AddsStep
<1>17. Shown' = Append(opened, step)
  <2>1. opened \o <<step>> = Append(opened, step) BY <1>9, <1>12
  <2>2. QED BY <1>4, <1>13, <2>1, Zenon DEF Shown
<1>18. AddsTo(Shown, Closed, <<>>, <<>>, 0) BY ClosedAdds, InvIs
<1>19. AddsTo(Shown, opened, Uttered("user", text), <<>>, 0)
  <2>1. AddsTo(Shown, opened, <<>> \o Uttered("user", text), <<>> \o <<>>, 0 + 0)
    BY <1>14, <1>18, AddsMore
  <2>2. Uttered("user", text) \in Seq(Spoken) BY <1>3, UtteredTyped
  <2>3. <<>> \o Uttered("user", text) = Uttered("user", text) BY <2>2
  <2>4. <<>> \o <<>> = <<>> /\ 0 + 0 = 0 OBVIOUS
  <2>5. QED BY <2>1, <2>3, <2>4, Zenon
<1>20. AddsTo(Shown, Append(opened, step), Uttered("user", text) \o Uttered("agent", Entry.text),
              Entry.calls, 0)
  <2>1. AddsTo(Shown, Append(opened, step), Uttered("user", text) \o Uttered("agent", Entry.text),
               <<>> \o Entry.calls, 0 + 0)
    BY <1>16, <1>19, AddsMore
  <2>2. <<>> \o Entry.calls = Entry.calls BY <1>2
  <2>3. 0 + 0 = 0 OBVIOUS
  <2>4. QED BY <2>1, <2>2, <2>3, Zenon
<1>21. Adds(Uttered("user", text) \o Uttered("agent", Entry.text), Entry.calls, 0)
  BY <1>17, <1>20, Zenon DEF Adds
<1>22. Making' BY <1>4, <1>9, OneMade
<1>23. QED BY <1>4, <1>21, <1>22 DEF Shows, text

-----------------------------------------------------------------------------
(* What was seen: one more line *)

Hears(lines) == Joined([i \in DOMAIN lines |-> Heard(lines[i])])

SeenFacts ==
  /\ Seen \in Seq(LogLines(agent)) /\ Len(Seen) = pos - 1 /\ DOMAIN Seen = 1..pos - 1
  /\ pos - 1 \in Nat /\ \A i \in 1..pos - 1 : Seen[i] = log[i] /\ i \in DOMAIN log

LEMMA SeenIs == FileTyped => SeenFacts
<1>1. SUFFICES ASSUME FileTyped PROVE SeenFacts
  OBVIOUS
<1>2. log \in Seq(LogLines(agent)) /\ Len(log) \in Nat /\ pos \in 1..Len(log) + 1
  BY <1>1 DEF FileTyped
<1>3. pos - 1 \in 0..Len(log) /\ pos - 1 \in Nat BY <1>2
<1>4. /\ SubSeq(log, 1, pos - 1) \in Seq(LogLines(agent))
      /\ Len(SubSeq(log, 1, pos - 1)) = pos - 1
      /\ \A i \in 1..pos - 1 : SubSeq(log, 1, pos - 1)[i] = log[i] /\ i \in DOMAIN log
  BY <1>2, <1>3
<1>5. QED BY <1>3, <1>4 DEF Seen, SeenFacts

LEMMA ReadSees ==
  ASSUME FileTyped, NEW format, NEW kind, Read(format, kind)
  PROVE  /\ Seen' = Append(Seen, Entry) /\ Entry \in LogLines(agent)
         /\ pos' = pos + 1 /\ UNCHANGED <<log, agent, phase>>
<1>1. /\ FileTyped' /\ Entry \in LogLines(agent) /\ UNCHANGED agent
  BY ReadTyped
<1>2. pos' = pos + 1 /\ UNCHANGED <<log, phase>> /\ pos <= Len(log) BY DEF Read, file
<1>3. /\ Seen \in Seq(LogLines(agent)) /\ Len(Seen) = pos - 1 /\ pos - 1 \in Nat
      /\ \A i \in 1..pos - 1 : Seen[i] = log[i]
  BY SeenIs DEF SeenFacts
<1>4. /\ Seen' \in Seq(LogLines(agent)) /\ Len(Seen') = pos
      /\ \A i \in 1..pos : Seen'[i] = log[i]
  <2>1. SeenFacts' BY <1>1, SeenIs, PTL
  <2>2. pos' - 1 = pos BY <1>2 DEF FileTyped
  <2>3. QED BY <1>1, <1>2, <2>1, <2>2 DEF SeenFacts
<1>5. /\ Append(Seen, Entry) \in Seq(LogLines(agent)) /\ Len(Append(Seen, Entry)) = pos
      /\ Append(Seen, Entry)[pos] = Entry /\ \A i \in 1..pos - 1 : Append(Seen, Entry)[i] = log[i]
  <2>1. (pos - 1) + 1 = pos BY DEF FileTyped
  <2> DEFINE T == LogLines(agent)
  <2>2. Seen \in Seq(T) /\ Entry \in T /\ Len(Seen) = pos - 1 BY <1>1, <1>3
  <2> HIDE DEF T
  <2>3. /\ Append(Seen, Entry) \in Seq(T) /\ Len(Append(Seen, Entry)) = pos
        /\ Append(Seen, Entry)[pos] = Entry
        /\ \A i \in 1..pos - 1 : Append(Seen, Entry)[i] = Seen[i]
    BY <2>1, <2>2, AppendProperties
  <2>4. QED BY <1>3, <2>3 DEF T
<1>6. ASSUME NEW i \in 1..pos PROVE Seen'[i] = Append(Seen, Entry)[i]
  <2>1. CASE i = pos BY <1>4, <1>5, <2>1 DEF Entry
  <2>2. CASE i \in 1..pos - 1 BY <1>4, <1>5, <2>2
  <2>3. i = pos \/ i \in 1..pos - 1 BY DEF FileTyped
  <2>4. QED BY <2>1, <2>2, <2>3
<1>7. Seen' = Append(Seen, Entry) BY <1>4, <1>5, <1>6, SeqEqual
<1>8. QED BY <1>1, <1>2, <1>7

LEMMA HeardTyped ==
  ASSUME NEW format, NEW e \in LogLines(format)
  PROVE  Heard(e) \in Seq(Spoken) /\ e.calls \in Seq(Calls)
<1>1. e.text \in Says \cup Replies /\ e.reply \in Answers /\ e.calls \in Seq(Calls) BY DEF LogLines
<1>2. e.reply \in Says \cup Replies BY <1>1 DEF Says, Answers
<1>3. /\ Uttered("user", e.text) \in Seq(Spoken) /\ Uttered("agent", e.text) \in Seq(Spoken)
      /\ Uttered("agent", e.reply) \in Seq(Spoken) /\ <<>> \in Seq(Spoken)
  BY <1>1, <1>2, UtteredTyped
<1>4. \A s, t \in Seq(Spoken) : s \o t \in Seq(Spoken) OBVIOUS
<1>5. QED BY <1>1, <1>3, <1>4 DEF Heard

Legible(T) == \A e \in T : Heard(e) \in Seq(Spoken) /\ e.calls \in Seq(Calls)

LEMMA SeesMore ==
  ASSUME NEW T, NEW s \in Seq(T), NEW x \in T, Legible(T)
  PROVE  /\ Hears(s) \in Seq(Spoken) /\ AllCalls(s) \in Seq(Calls)
         /\ Hears(Append(s, x)) = Hears(s) \o Heard(x)
         /\ AllCalls(Append(s, x)) = AllCalls(s) \o x.calls
<1> DEFINE t == Append(s, x)
           hearing == [e \in T |-> Heard(e)]
           calls == [e \in T |-> e.calls]
<1>1. s \in Seq(T) /\ x \in T OBVIOUS
<1>2. hearing \in [T -> Seq(Spoken)] /\ calls \in [T -> Seq(Calls)] BY DEF Legible
<1>3. t \in Seq(T) BY <1>1
<1>4. (\A i \in DOMAIN s : s[i] \in T) /\ (\A i \in DOMAIN t : t[i] \in T) BY <1>1, <1>3
<1>5. /\ [i \in DOMAIN s |-> hearing[s[i]]] = [i \in DOMAIN s |-> Heard(s[i])]
      /\ [i \in DOMAIN t |-> hearing[t[i]]] = [i \in DOMAIN t |-> Heard(t[i])]
      /\ hearing[x] = Heard(x)
  BY <1>1, <1>4
<1>6. /\ [i \in DOMAIN s |-> calls[s[i]]] = [i \in DOMAIN s |-> s[i].calls]
      /\ [i \in DOMAIN t |-> calls[t[i]]] = [i \in DOMAIN t |-> t[i].calls]
      /\ calls[x] = x.calls
  BY <1>1, <1>4
<1> HIDE DEF hearing, calls
<1>7. /\ [i \in DOMAIN s |-> hearing[s[i]]] \in Seq(Seq(Spoken)) /\ hearing[x] \in Seq(Spoken)
      /\ [i \in DOMAIN t |-> hearing[t[i]]] = Append([i \in DOMAIN s |-> hearing[s[i]]], hearing[x])
  <2> DEFINE D == Seq(Spoken)
  <2>1. hearing \in [T -> D] BY <1>2
  <2> HIDE DEF D
  <2>2. /\ [i \in DOMAIN s |-> hearing[s[i]]] \in Seq(D) /\ hearing[x] \in D
        /\ [i \in DOMAIN t |-> hearing[t[i]]] = Append([i \in DOMAIN s |-> hearing[s[i]]], hearing[x])
    BY <1>1, <2>1, MapMore
  <2>3. QED BY <2>2 DEF D
<1>8. /\ [i \in DOMAIN s |-> calls[s[i]]] \in Seq(Seq(Calls)) /\ calls[x] \in Seq(Calls)
      /\ [i \in DOMAIN t |-> calls[t[i]]] = Append([i \in DOMAIN s |-> calls[s[i]]], calls[x])
  <2> DEFINE D == Seq(Calls)
  <2>1. calls \in [T -> D] BY <1>2
  <2> HIDE DEF D
  <2>2. /\ [i \in DOMAIN s |-> calls[s[i]]] \in Seq(D) /\ calls[x] \in D
        /\ [i \in DOMAIN t |-> calls[t[i]]] = Append([i \in DOMAIN s |-> calls[s[i]]], calls[x])
    BY <1>1, <2>1, MapMore
  <2>3. QED BY <2>2 DEF D
<1> DEFINE a == [i \in DOMAIN s |-> hearing[s[i]]]
           b == [i \in DOMAIN s |-> calls[s[i]]]
<1> HIDE DEF a, b
<1>9. Joined(a) \in Seq(Spoken) /\ Joined(Append(a, hearing[x])) = Joined(a) \o hearing[x]
  <2>1. a \in Seq(Seq(Spoken)) BY <1>7 DEF a
  <2>2. QED BY <1>7, <2>1, JoinedTyped, JoinedMore
<1>10. Joined(b) \in Seq(Calls) /\ Joined(Append(b, calls[x])) = Joined(b) \o calls[x]
  <2>1. b \in Seq(Seq(Calls)) BY <1>8 DEF b
  <2>2. QED BY <1>8, <2>1, JoinedTyped, JoinedMore
<1>11. Hears(s) = Joined(a) /\ Hears(t) = Joined(Append(a, hearing[x]))
  BY <1>5, <1>7, Zenon DEF Hears, a
<1>12. AllCalls(s) = Joined(b) /\ AllCalls(t) = Joined(Append(b, calls[x]))
  BY <1>6, <1>8, Zenon DEF AllCalls, b
<1> HIDE DEF t
<1>13. QED BY <1>5, <1>6, <1>9, <1>10, <1>11, <1>12, Zenon DEF t

(* What was said in a line that was seen.                                     *)
LEMMA UtterancesAre ==
  ASSUME FileTyped, NEW i \in 1..pos - 1
  PROVE  Utterances(i) =
           (IF i \in Prompts /\ ~Repeats(i) THEN Uttered("user", log[i].text) ELSE <<>>)
             \o (IF log[i].kind = "assistant" THEN Uttered("agent", log[i].text)
                                             ELSE Uttered("agent", log[i].reply))
<1>1. Seen[i] = log[i] BY SeenIs DEF SeenFacts
<1>2. ASSUME NEW who \in {"user", "agent"}, NEW text, NEW words, words = Words(text)
      PROVE  [k \in DOMAIN words |-> <<who, words[k]>>] = Uttered(who, text)
  <2>1. CASE text = Blank
    <3>1. words = <<>> BY <1>2, <2>1 DEF Words
    <3>2. QED BY <2>1, <3>1 DEF Uttered
  <2>2. CASE text # Blank
    <3>1. words = <<text>> BY <1>2, <2>2 DEF Words
    <3>2. DOMAIN <<text>> = 1..1 /\ \A k \in 1..1 : <<text>>[k] = text OBVIOUS
    <3>3. [k \in DOMAIN words |-> <<who, words[k]>>] = [k \in 1..1 |-> <<who, text>>]
      BY <3>1, <3>2
    <3> DEFINE word == <<who, text>>
    <3> HIDE DEF word
    <3>4. [k \in 1..1 |-> word] = <<word>> OBVIOUS
    <3>5. QED BY <2>2, <3>3, <3>4 DEF Uttered, word
  <2>3. QED BY <2>1, <2>2
<1> DEFINE user == IF i \in Prompts /\ ~Repeats(i) THEN <<log[i].text>> ELSE <<>>
           reply == IF log[i].kind = "assistant" THEN Words(log[i].text) ELSE Words(log[i].reply)
<1>3. Utterances(i) = [k \in DOMAIN user |-> <<"user", user[k]>>]
                        \o [k \in DOMAIN reply |-> <<"agent", reply[k]>>]
  BY <1>1, Zenon DEF Utterances
<1>4. [k \in DOMAIN reply |-> <<"agent", reply[k]>>] =
        IF log[i].kind = "assistant" THEN Uttered("agent", log[i].text)
                                     ELSE Uttered("agent", log[i].reply)
  <2>1. CASE log[i].kind = "assistant"
    <3>1. reply = Words(log[i].text) BY <2>1
    <3> HIDE DEF reply
    <3>2. QED BY <1>2, <2>1, <3>1
  <2>2. CASE log[i].kind # "assistant"
    <3>1. reply = Words(log[i].reply) BY <2>2
    <3> HIDE DEF reply
    <3>2. QED BY <1>2, <2>2, <3>1
  <2>3. QED BY <2>1, <2>2
<1>5. [k \in DOMAIN user |-> <<"user", user[k]>>] =
        IF i \in Prompts /\ ~Repeats(i) THEN Uttered("user", log[i].text) ELSE <<>>
  <2>1. CASE i \in Prompts /\ ~Repeats(i)
    <3>1. log[i].text # Blank BY <1>1, <2>1 DEF Prompts
    <3>2. user = Words(log[i].text) BY <2>1, <3>1 DEF Words
    <3> HIDE DEF user
    <3>3. QED BY <1>2, <2>1, <3>2
  <2>2. CASE ~(i \in Prompts /\ ~Repeats(i))
    <3>1. user = <<>> BY <2>2
    <3> HIDE DEF user
    <3>2. QED BY <2>2, <3>1
  <2>3. QED BY <2>1, <2>2
<1> HIDE DEF user, reply
<1>6. QED BY <1>3, <1>4, <1>5, Zenon

HeardSaid == Said = Hears(Seen)
NotKnit == agent # "agentknit"

LEMMA SaidIsHeard == FileTyped /\ PlainLog /\ NotKnit => HeardSaid
<1>1. SUFFICES ASSUME FileTyped, PlainLog, NotKnit PROVE HeardSaid
  OBVIOUS
<1>2. /\ DOMAIN Seen = 1..pos - 1 /\ \A i \in 1..pos - 1 : Seen[i] = log[i] /\ i \in DOMAIN log
      /\ Seen \in Seq(LogLines(agent))
  BY <1>1, SeenIs DEF SeenFacts
<1>3. ASSUME NEW i \in 1..pos - 1 PROVE Utterances(i) = Heard(Seen[i])
  <2>1. Plain(log[i]) /\ Seen[i] = log[i] /\ log[i] \in LogLines(agent)
    <3>1. i \in DOMAIN log /\ Seen[i] = log[i] BY <1>2
    <3>2. Plain(log[i]) BY <1>1, <3>1 DEF PlainLog
    <3>3. log[i] \in LogLines(agent) BY <1>1, <3>1 DEF FileTyped
    <3>4. QED BY <3>1, <3>2, <3>3
  <2>2. log[i].kind # "task"
    <3>1. log[i].kind \in Kinds[agent] \cup {"torn"} BY <2>1 DEF LogLines
    <3>2. agent \in Formats \ {"agentknit"} BY <1>1, AgentsAssumption DEF FileTyped, NotKnit
    <3>3. "task" \notin Kinds[agent] BY <3>2 DEF Kinds, Formats
    <3>4. QED BY <3>1, <3>3
  <2>3. ~Repeats(i) BY <1>1 DEF Repeats, NotKnit
  <2>4. i \in Prompts <=> log[i].text # Blank /\ log[i].kind \in {"user", "turn"}
    BY <1>2, <2>1, <2>2 DEF Prompts
  <2>5. Utterances(i) =
          (IF i \in Prompts /\ ~Repeats(i) THEN Uttered("user", log[i].text) ELSE <<>>)
            \o (IF log[i].kind = "assistant" THEN Uttered("agent", log[i].text)
                                            ELSE Uttered("agent", log[i].reply))
    BY <1>1, UtterancesAre
  <2>6. (IF i \in Prompts /\ ~Repeats(i) THEN Uttered("user", log[i].text) ELSE <<>>) =
          IF log[i].kind \in {"user", "turn"} THEN Uttered("user", log[i].text) ELSE <<>>
    BY <2>3, <2>4 DEF Uttered
  <2>7. QED BY <2>1, <2>5, <2>6, Zenon DEF Heard
<1>4. [i \in DOMAIN Seen |-> Utterances(i)] = [i \in DOMAIN Seen |-> Heard(Seen[i])]
  BY <1>2, <1>3
<1>5. QED BY <1>4, Zenon DEF HeardSaid, Said, Hears

LEMMA LinesAreLegible ==
  ASSUME NEW format
  PROVE  Legible(LogLines(format))
BY HeardTyped DEF Legible

(* What was said so far, and in the entry that is read.                       *)
LEMMA ReadSaysMore ==
  ASSUME FileTyped, PlainLog, NEW format, NEW kind, Read(format, kind)
  PROVE  /\ AllCalls(Seen') = AllCalls(Seen) \o Entry.calls /\ AllCalls(Seen) \in Seq(Calls)
         /\ Entry.calls \in Seq(Calls)
         /\ format # "agentknit" => Said' = Said \o Heard(Entry)
<1>1. /\ Seen' = Append(Seen, Entry) /\ Entry \in LogLines(agent) /\ UNCHANGED <<log, agent>>
  BY ReadSees
<1>2. FileTyped' /\ agent = format BY ReadTyped
<1>3. Seen \in Seq(LogLines(agent)) BY SeenIs DEF SeenFacts
<1>4. /\ AllCalls(Seen) \in Seq(Calls) /\ Hears(Append(Seen, Entry)) = Hears(Seen) \o Heard(Entry)
      /\ AllCalls(Append(Seen, Entry)) = AllCalls(Seen) \o Entry.calls
  BY <1>1, <1>3, LinesAreLegible, SeesMore
<1>5. Entry.calls \in Seq(Calls) BY <1>1, HeardTyped
<1>6. ASSUME format # "agentknit" PROVE Said' = Said \o Heard(Entry)
  <2>1. NotKnit /\ NotKnit' BY <1>1, <1>2, <1>6 DEF NotKnit
  <2>2. PlainLog' BY <1>1 DEF PlainLog, Plain
  <2>3. HeardSaid /\ HeardSaid' BY <1>2, <2>1, <2>2, SaidIsHeard, PTL
  <2>4. Said = Hears(Seen) /\ Said' = Hears(Seen') BY <2>3 DEF HeardSaid, Hears
  <2>5. QED BY <1>1, <1>4, <2>4, Zenon
<1>7. QED BY <1>1, <1>4, <1>5, <1>6, Zenon

-----------------------------------------------------------------------------
(* agentknit: which prompts were shown                                        *)

Asked(lines, i, n) ==
  \E j \in i + 1..n : lines[j].kind = "assistant" /\ \A k \in i + 1..j - 1 : Quiet(lines[k])

PromptsOf(lines, n) ==
  {i \in 1..n : /\ lines[i].text # Blank
                /\ lines[i].kind = "user" \/ (lines[i].kind = "task" /\ Asked(lines, i, n))}

RepeatsIn(lines, P, i) ==
  \E j \in P : j < i /\ lines[j].text = lines[i].text /\ P \cap j + 1..i - 1 = {}

UttersIn(lines, P, i) ==
  (IF i \in P /\ ~RepeatsIn(lines, P, i) THEN Uttered("user", lines[i].text) ELSE <<>>)
    \o (IF lines[i].kind = "assistant" THEN Uttered("agent", lines[i].text) ELSE <<>>)

SaidIn(lines, P, n) == Joined([i \in 1..n |-> UttersIn(lines, P, i)])

IsKnit == agent = "agentknit"
KnitSays == Prompts = PromptsOf(log, pos - 1) /\ Said = SaidIn(log, Prompts, pos - 1)

LEMMA KnitSaid == FileTyped /\ PlainLog /\ IsKnit => KnitSays
<1>1. SUFFICES ASSUME FileTyped, PlainLog, IsKnit PROVE KnitSays
  OBVIOUS
<1>2. DOMAIN Seen = 1..pos - 1 /\ \A i \in 1..pos - 1 : Seen[i] = log[i] /\ i \in DOMAIN log
  BY <1>1, SeenIs DEF SeenFacts
<1>3. ASSUME NEW i \in 1..pos - 1
      PROVE  /\ Plain(log[i]) /\ log[i].kind # "turn" /\ log[i].reply = Blank
             /\ log[i].text # Blank => log[i].kind \in {"user", "assistant", "task"}
  <2>1. i \in DOMAIN log /\ Plain(log[i]) BY <1>1, <1>2 DEF PlainLog
  <2>2. log[i] \in LogLines(agent) BY <1>1, <2>1 DEF FileTyped
  <2>3. log[i].kind \in Kinds[agent] \cup {"torn"} BY <2>2 DEF LogLines
  <2>4. "turn" \notin Kinds[agent] BY <1>1 DEF IsKnit, Kinds
  <2>5. QED BY <2>1, <2>3, <2>4 DEF Plain
<1>4. pos \in Nat BY <1>1 DEF FileTyped
<1>5. ASSUME NEW i \in 1..pos - 1 PROVE AskedBy(i) <=> Asked(log, i, pos - 1)
  <2>1. ASSUME NEW j \in 1..pos - 1, j > i
        PROVE  (/\ Seen[j].kind = "assistant"
                /\ \A k \in i + 1..j - 1 :
                     Seen[k].kind \notin {"user", "assistant"}
                     /\ (Seen[k].kind = "task" => Seen[k].text = Blank))
               <=> log[j].kind = "assistant" /\ \A k \in i + 1..j - 1 : Quiet(log[k])
    <3>1. i + 1..j - 1 \subseteq 1..pos - 1 BY <1>4
    <3>2. QED BY <1>2, <3>1 DEF Quiet
  <2>2. \A j \in 1..pos - 1 : j > i <=> j \in i + 1..pos - 1 BY <1>4
  <2>3. i + 1..pos - 1 \subseteq 1..pos - 1 BY <1>4
  <2>4. QED BY <1>2, <2>1, <2>2, <2>3 DEF AskedBy, Asked
<1>6. Prompts = PromptsOf(log, pos - 1)
  <2>1. ASSUME NEW i \in 1..pos - 1 PROVE i \in Prompts <=> i \in PromptsOf(log, pos - 1)
    BY <1>2, <1>3, <1>5 DEF Prompts, PromptsOf
  <2>2. Prompts \subseteq 1..pos - 1 /\ PromptsOf(log, pos - 1) \subseteq 1..pos - 1
    BY <1>2 DEF Prompts, PromptsOf
  <2>3. QED BY <2>1, <2>2
<1>7. ASSUME NEW i \in 1..pos - 1 PROVE Utterances(i) = UttersIn(log, Prompts, i)
  <2>1. Repeats(i) <=> RepeatsIn(log, Prompts, i)
    <3>1. Prompts \subseteq 1..pos - 1 BY <1>2 DEF Prompts
    <3>2. QED BY <1>1, <1>2, <3>1 DEF Repeats, RepeatsIn, IsKnit
  <2>2. Uttered("agent", log[i].reply) = <<>> BY <1>3 DEF Uttered
  <2>3. Utterances(i) =
          (IF i \in Prompts /\ ~Repeats(i) THEN Uttered("user", log[i].text) ELSE <<>>)
            \o (IF log[i].kind = "assistant" THEN Uttered("agent", log[i].text)
                                            ELSE Uttered("agent", log[i].reply))
    BY <1>1, UtterancesAre
  <2>4. QED BY <2>1, <2>2, <2>3, Zenon DEF UttersIn
<1>8. [i \in DOMAIN Seen |-> Utterances(i)] = [i \in 1..pos - 1 |-> UttersIn(log, Prompts, i)]
  BY <1>2, <1>7
<1>9. QED BY <1>6, <1>8, Zenon DEF KnitSays, Said, SaidIn

(* One more line: the prompts, and the task that is held back.                *)
LEMMA AskedMore ==
  ASSUME NEW lines, NEW n \in Nat, NEW i \in 1..n
  PROVE  Asked(lines, i, n + 1) <=>
           \/ Asked(lines, i, n)
           \/ lines[n + 1].kind = "assistant" /\ \A k \in i + 1..n : Quiet(lines[k])
<1>1. i + 1..n + 1 = (i + 1..n) \cup {n + 1} /\ (n + 1) - 1 = n OBVIOUS
<1>2. QED BY <1>1 DEF Asked

LEMMA PromptsMore ==
  ASSUME NEW lines, NEW n \in Nat
  PROVE  /\ PromptsOf(lines, n) \subseteq 1..n
         /\ PromptsOf(lines, n + 1) =
              PromptsOf(lines, n)
              \cup {i \in {n + 1} : lines[n + 1].kind = "user" /\ lines[n + 1].text # Blank}
              \cup {i \in 1..n : lines[n + 1].kind = "assistant" /\ HeldIn(lines, i, n)}
<1> DEFINE P == PromptsOf(lines, n)
           Q == PromptsOf(lines, n + 1)
           U == {i \in {n + 1} : lines[n + 1].kind = "user" /\ lines[n + 1].text # Blank}
           H == {i \in 1..n : lines[n + 1].kind = "assistant" /\ HeldIn(lines, i, n)}
<1>1. /\ P \subseteq 1..n /\ Q \subseteq 1..n + 1
      /\ 1..n + 1 = (1..n) \cup {n + 1} /\ n + 1 \notin 1..n
  BY DEF PromptsOf
<1>2. ASSUME NEW i \in 1..n PROVE i \in Q <=> i \in P \cup U \cup H
  <2>1. i \in 1..n + 1 /\ i # n + 1 BY <1>1
  <2>2. i \in Q <=> /\ lines[i].text # Blank
                    /\ \/ lines[i].kind = "user"
                       \/ lines[i].kind = "task" /\ Asked(lines, i, n + 1)
    BY <2>1 DEF PromptsOf
  <2>3. i \in P <=> /\ lines[i].text # Blank
                    /\ \/ lines[i].kind = "user"
                       \/ lines[i].kind = "task" /\ Asked(lines, i, n)
    BY DEF PromptsOf
  <2>4. i \in H <=> lines[n + 1].kind = "assistant" /\ HeldIn(lines, i, n) OBVIOUS
  <2>5. i \notin U BY <2>1
  <2>6. QED BY <2>2, <2>3, <2>4, <2>5, AskedMore DEF HeldIn
<1>3. n + 1 \in Q <=> n + 1 \in P \cup U \cup H
  <2>1. ~Asked(lines, n + 1, n + 1) BY DEF Asked
  <2>2. n + 1 \in Q <=> lines[n + 1].text # Blank /\ lines[n + 1].kind = "user"
    BY <1>1, <2>1 DEF PromptsOf
  <2>3. n + 1 \notin P /\ n + 1 \notin H BY <1>1
  <2>4. QED BY <2>2, <2>3
<1>4. U \subseteq {n + 1} /\ H \subseteq 1..n OBVIOUS
<1> HIDE DEF P, Q, U, H
<1>5. Q = P \cup U \cup H BY <1>1, <1>2, <1>3, <1>4
<1>6. QED BY <1>1, <1>5 DEF P, Q, U, H

LEMMA HeldMore ==
  ASSUME NEW lines, NEW n \in Nat
  PROVE  /\ \A i \in 1..n : HeldIn(lines, i, n + 1) <=> HeldIn(lines, i, n) /\ Quiet(lines[n + 1])
         /\ HeldIn(lines, n + 1, n + 1) <=> lines[n + 1].kind = "task" /\ lines[n + 1].text # Blank
         /\ 1..n + 1 = (1..n) \cup {n + 1}
<1>1. \A i \in 1..n : i + 1..n + 1 = (i + 1..n) \cup {n + 1} OBVIOUS
<1>2. (n + 1) + 1..n + 1 = {} OBVIOUS
<1>3. \A i \in 1..n : HeldIn(lines, i, n + 1) <=> HeldIn(lines, i, n) /\ Quiet(lines[n + 1])
  BY <1>1 DEF HeldIn
<1>4. HeldIn(lines, n + 1, n + 1) <=> lines[n + 1].kind = "task" /\ lines[n + 1].text # Blank
  BY <1>2 DEF HeldIn
<1>5. 1..n + 1 = (1..n) \cup {n + 1} OBVIOUS
<1>6. QED BY <1>3, <1>4, <1>5

(* A task that is held back comes after every prompt, and after it nothing    *)
(* but what is quiet.                                                         *)
LEMMA HeldIsLast ==
  ASSUME NEW lines, NEW n \in Nat, NEW h \in 1..n, HeldIn(lines, h, n)
  PROVE  /\ PromptsOf(lines, n) \cap h..n = {}
         /\ \A i \in 1..n : HeldIn(lines, i, n) => i = h
<1>1. ASSUME NEW i \in h..n PROVE i \notin PromptsOf(lines, n)
  <2>1. ~Asked(lines, h, n)
    <3>1. ASSUME NEW j \in h + 1..n PROVE lines[j].kind # "assistant" BY <3>1 DEF HeldIn, Quiet
    <3>2. QED BY <3>1 DEF Asked
  <2>2. CASE i = h BY <2>1, <2>2 DEF PromptsOf, HeldIn
  <2>3. CASE i # h
    <3>1. i \in h + 1..n BY <2>3
    <3>2. Quiet(lines[i]) BY <3>1 DEF HeldIn
    <3>3. QED BY <3>2 DEF Quiet, PromptsOf
  <2>4. QED BY <2>2, <2>3
<1>2. ASSUME NEW i \in 1..n, HeldIn(lines, i, n) PROVE i = h
  <2>1. CASE i < h
    <3>1. h \in i + 1..n BY <2>1
    <3>2. Quiet(lines[h]) BY <1>2, <3>1 DEF HeldIn
    <3>3. QED BY <3>2 DEF HeldIn, Quiet
  <2>2. CASE h < i
    <3>1. i \in h + 1..n BY <2>2
    <3>2. Quiet(lines[i]) BY <3>1 DEF HeldIn
    <3>3. QED BY <1>2, <3>2 DEF HeldIn, Quiet
  <2>3. QED BY <2>1, <2>2
<1>3. QED BY <1>1, <1>2

(* What was said, line after line.                                            *)
Worded(lines, n) == \A i \in 1..n : lines[i].text \in Says \cup Replies

LEMMA UttersTyped ==
  ASSUME NEW lines, NEW P, NEW i, lines[i].text \in Says \cup Replies
  PROVE  UttersIn(lines, P, i) \in Seq(Spoken)
<1>1. /\ Uttered("user", lines[i].text) \in Seq(Spoken)
      /\ Uttered("agent", lines[i].text) \in Seq(Spoken) /\ <<>> \in Seq(Spoken)
  BY UtteredTyped
<1>2. \A s, t \in Seq(Spoken) : s \o t \in Seq(Spoken) OBVIOUS
<1>3. QED BY <1>1, <1>2 DEF UttersIn

LEMMA SaidOne ==
  ASSUME NEW lines, NEW P, NEW n \in Nat, Worded(lines, n + 1)
  PROVE  /\ SaidIn(lines, P, n + 1) = SaidIn(lines, P, n) \o UttersIn(lines, P, n + 1)
         /\ SaidIn(lines, P, n) \in Seq(Spoken) /\ UttersIn(lines, P, n + 1) \in Seq(Spoken)
<1> DEFINE u == [i \in 1..n + 1 |-> UttersIn(lines, P, i)]
           s == [i \in 1..n |-> UttersIn(lines, P, i)]
           D == Seq(Spoken)
<1>1. \A i \in 1..n + 1 : UttersIn(lines, P, i) \in D BY UttersTyped DEF Worded
<1> HIDE DEF D
<1>2. 1..n \subseteq 1..n + 1 /\ n + 1 \in 1..n + 1 OBVIOUS
<1>3. u \in [1..n + 1 -> D] /\ \A i \in 1..n + 1 : u[i] = UttersIn(lines, P, i) BY <1>1
<1>4. s \in [1..n -> D] /\ \A i \in 1..n : s[i] = UttersIn(lines, P, i) BY <1>1, <1>2
<1> HIDE DEF u, s
<1>5. /\ u \in Seq(D) /\ s \in Seq(D) /\ Len(s) = n /\ Len(u) = n + 1 /\ u[n + 1] \in D
      /\ \A i \in 1..n : u[i] = s[i]
  BY <1>2, <1>3, <1>4
<1>6. u = Append(s, u[n + 1])
  <2>1. /\ Append(s, u[n + 1]) \in Seq(D) /\ Len(Append(s, u[n + 1])) = n + 1
        /\ Append(s, u[n + 1])[n + 1] = u[n + 1] /\ \A i \in 1..n : Append(s, u[n + 1])[i] = s[i]
    BY <1>5, AppendProperties
  <2>2. \A i \in 1..n + 1 : i = n + 1 \/ i \in 1..n OBVIOUS
  <2>3. \A i \in 1..n + 1 : u[i] = Append(s, u[n + 1])[i] BY <1>5, <2>1, <2>2
  <2>4. QED BY <1>5, <2>1, <2>3, SeqEqual
<1>7. Joined(u) = Joined(s) \o u[n + 1] /\ Joined(s) \in Seq(Spoken)
  <2>1. s \in Seq(Seq(Spoken)) /\ u[n + 1] \in Seq(Spoken) BY <1>5 DEF D
  <2>2. Joined(Append(s, u[n + 1])) = Joined(s) \o u[n + 1] /\ Joined(s) \in Seq(Spoken)
    BY <2>1, JoinedMore, JoinedTyped
  <2>3. QED BY <1>6, <2>2
<1>8. u[n + 1] = UttersIn(lines, P, n + 1) /\ UttersIn(lines, P, n + 1) \in Seq(Spoken)
  BY <1>1, <1>2, <1>3 DEF D
<1>9. Joined(u) = SaidIn(lines, P, n + 1) /\ Joined(s) = SaidIn(lines, P, n)
  BY DEF SaidIn, u, s
<1>10. QED BY <1>7, <1>8, <1>9, Zenon

LEMMA SaidSame ==
  ASSUME NEW lines, NEW n \in Nat, NEW P \in SUBSET (1..n), NEW Q,
         P \subseteq Q, Q \subseteq P \cup {n + 1}
  PROVE  SaidIn(lines, Q, n) = SaidIn(lines, P, n)
<1>1. ASSUME NEW i \in 1..n PROVE UttersIn(lines, Q, i) = UttersIn(lines, P, i)
  <2>1. i # n + 1 OBVIOUS
  <2>2. i \in Q <=> i \in P BY <2>1
  <2>3. ASSUME NEW j \in Nat, j < i
        PROVE  Q \cap j + 1..i - 1 = P \cap j + 1..i - 1 /\ (j \in Q <=> j \in P)
    <3>1. j # n + 1 /\ n + 1 \notin j + 1..i - 1 BY <2>3
    <3>2. QED BY <3>1
  <2>4. P \subseteq Nat /\ Q \subseteq Nat OBVIOUS
  <2>5. RepeatsIn(lines, Q, i) <=> RepeatsIn(lines, P, i) BY <2>3, <2>4 DEF RepeatsIn
  <2>6. QED BY <2>2, <2>5, Zenon DEF UttersIn
<1>2. [i \in 1..n |-> UttersIn(lines, Q, i)] = [i \in 1..n |-> UttersIn(lines, P, i)]
  BY <1>1
<1>3. QED BY <1>2, Zenon DEF SaidIn

(* The task that was held back is shown, at its place.                        *)
LEMMA SaidFilled ==
  ASSUME NEW lines, NEW n \in Nat, Worded(lines, n), NEW h \in 1..n, HeldIn(lines, h, n),
         NEW P \in SUBSET (1..n), P = PromptsOf(lines, n)
  PROVE  SaidIn(lines, P \cup {h}, n) =
           SaidIn(lines, P, n)
             \o (IF RepeatsIn(lines, P \cup {h}, h) THEN <<>> ELSE Uttered("user", lines[h].text))
<1> DEFINE Q == P \cup {h}
           s == [i \in 1..n |-> UttersIn(lines, P, i)]
           t == [i \in 1..n |-> UttersIn(lines, Q, i)]
           D == Seq(Spoken)
<1>1. P \cap h..n = {} BY HeldIsLast
<1>2. \A i \in 1..n : UttersIn(lines, P, i) \in D /\ UttersIn(lines, Q, i) \in D
  BY UttersTyped DEF Worded
<1>3. lines[h].kind = "task" /\ lines[h].text # Blank /\ \A k \in h + 1..n : Quiet(lines[k])
  BY DEF HeldIn
<1>4. \A u \in D : u \o <<>> = u /\ <<>> \o u = u OBVIOUS
<1>5. <<>> \in D /\ Uttered("user", lines[h].text) \in D BY UtteredTyped DEF Worded
<1>6. ASSUME NEW k \in 1..h - 1 PROVE UttersIn(lines, Q, k) = UttersIn(lines, P, k)
  <2>1. k # h /\ (k \in Q <=> k \in P) OBVIOUS
  <2>2. ASSUME NEW j \in Nat, j < k
        PROVE  Q \cap j + 1..k - 1 = P \cap j + 1..k - 1 /\ (j \in Q <=> j \in P)
    <3>1. j # h /\ h \notin j + 1..k - 1 BY <2>2
    <3>2. QED BY <3>1
  <2>3. P \subseteq Nat /\ Q \subseteq Nat OBVIOUS
  <2> HIDE DEF Q
  <2>4. RepeatsIn(lines, Q, k) <=> RepeatsIn(lines, P, k) BY <2>2, <2>3 DEF RepeatsIn
  <2>5. QED BY <2>1, <2>4, Zenon DEF UttersIn
<1>7. ASSUME NEW k \in h + 1..n
      PROVE  UttersIn(lines, Q, k) = <<>> /\ UttersIn(lines, P, k) = <<>>
  <2>1. k # h /\ k \in h..n OBVIOUS
  <2>2. k \notin P /\ k \notin Q BY <1>1, <2>1
  <2>3. lines[k].kind # "assistant" BY <1>3 DEF Quiet
  <2>4. <<>> \o <<>> = <<>> OBVIOUS
  <2> HIDE DEF Q
  <2>5. QED BY <2>2, <2>3, <2>4 DEF UttersIn
<1>8. UttersIn(lines, P, h) = <<>>
  <2>1. h \notin P BY <1>1
  <2>2. <<>> \o <<>> = <<>> OBVIOUS
  <2>3. QED BY <1>3, <2>1, <2>2 DEF UttersIn
<1>9. UttersIn(lines, Q, h) =
        IF RepeatsIn(lines, Q, h) THEN <<>> ELSE Uttered("user", lines[h].text)
  <2>1. h \in Q OBVIOUS
  <2> HIDE DEF Q, D
  <2>2. QED BY <1>3, <1>4, <1>5, <2>1 DEF UttersIn
<1> HIDE DEF D, Q
<1>10. /\ s \in Seq(D) /\ t \in Seq(D) /\ Len(s) = n /\ Len(t) = n
       /\ \A i \in 1..n : s[i] = UttersIn(lines, P, i) /\ t[i] = UttersIn(lines, Q, i)
  BY <1>2
<1> HIDE DEF s, t
<1>11. /\ s[h] = <<>> /\ \A k \in 1..h - 1 : t[k] = s[k]
       /\ \A k \in h + 1..n : t[k] = <<>> /\ s[k] = <<>>
  <2>1. \A k \in 1..h - 1 : k \in 1..n OBVIOUS
  <2>2. \A k \in h + 1..n : k \in 1..n OBVIOUS
  <2>3. QED BY <1>6, <1>7, <1>8, <1>10, <2>1, <2>2
<1>12. Joined(t) = Joined(s) \o t[h]
  <2>1. s \in Seq(Seq(Spoken)) /\ t \in Seq(Seq(Spoken)) BY <1>10 DEF D
  <2>2. /\ Len(s) = Len(t) /\ h \in 1..Len(s) /\ s[h] = <<>>
        /\ \A k \in 1..h - 1 : t[k] = s[k]
        /\ \A k \in h + 1..Len(s) : t[k] = <<>> /\ s[k] = <<>>
    BY <1>10, <1>11
  <2>3. QED BY <2>1, <2>2, JoinedFilled
<1>13. Joined(t) = SaidIn(lines, Q, n) /\ Joined(s) = SaidIn(lines, P, n) BY DEF SaidIn, s, t
<1>14. t[h] = UttersIn(lines, Q, h) BY <1>10
<1>15. QED BY <1>9, <1>12, <1>13, <1>14, Zenon DEF Q

(* A prompt repeats the one before it if its text is that of the last.        *)
LEMMA RepeatsTheLast ==
  ASSUME NEW lines, NEW n \in Nat, NEW P \in SUBSET (1..n), NEW h \in 1..n + 1,
         P \cap h..n = {}, NEW last, LastIn(lines, P, n, last), lines[h].text # Blank
  PROVE  RepeatsIn(lines, P \cup {h}, h) <=> last = lines[h].text
<1> DEFINE Q == P \cup {h}
<1>1. \A j \in P : j \in Nat /\ j < h
  <2>1. SUFFICES ASSUME NEW j \in P PROVE j \in Nat /\ j < h
    OBVIOUS
  <2>2. j \in 1..n /\ j \notin h..n OBVIOUS
  <2>3. QED BY <2>2
<1>2. ASSUME last = lines[h].text PROVE RepeatsIn(lines, Q, h)
  <2>1. PICK i \in P : lines[i].text = last /\ P \cap i + 1..n = {} BY <1>2 DEF LastIn
  <2>2. i \in Q /\ i < h BY <1>1
  <2>3. Q \cap i + 1..h - 1 = {}
    <3>1. h - 1 <= n /\ h \notin i + 1..h - 1 OBVIOUS
    <3>2. i + 1..h - 1 \subseteq i + 1..n BY <1>1, <3>1
    <3>3. QED BY <2>1, <3>1, <3>2
  <2> HIDE DEF Q
  <2>4. QED BY <1>2, <2>1, <2>2, <2>3 DEF RepeatsIn
<1>3. ASSUME RepeatsIn(lines, Q, h) PROVE last = lines[h].text
  <2>1. PICK j \in Q : j < h /\ lines[j].text = lines[h].text /\ Q \cap j + 1..h - 1 = {}
    BY <1>3 DEF RepeatsIn
  <2>2. j \in P BY <2>1
  <2>3. PICK i \in P : lines[i].text = last /\ P \cap i + 1..n = {} BY <2>2 DEF LastIn
  <2>4. i \in Nat /\ j \in Nat /\ i < h /\ j < h /\ i <= n /\ j <= n BY <1>1, <2>2
  <2>5. ~(j > i)
    <3>1. j > i => j \in i + 1..n BY <2>4
    <3>2. QED BY <2>2, <2>3, <3>1
  <2>6. ~(i > j)
    <3>1. i > j => i \in j + 1..h - 1 BY <2>4
    <3>2. QED BY <2>1, <2>3, <3>1
  <2>7. i = j BY <2>4, <2>5, <2>6
  <2>8. QED BY <2>1, <2>3, <2>7
<1>4. QED BY <1>2, <1>3

(* What one more line says, after those that hold a task back.                *)
HoldsAndLast(lines, n, held, last) ==
  /\ HoldsIn(lines, n, held) /\ LastIn(lines, PromptsOf(lines, n), n, last)

LEMMA QuietLine ==
  ASSUME NEW lines, NEW n \in Nat, Worded(lines, n + 1), NEW held, NEW last,
         HoldsAndLast(lines, n, held, last), lines[n + 1].kind \notin {"user", "assistant"}
  PROVE  /\ SaidIn(lines, PromptsOf(lines, n + 1), n + 1) = SaidIn(lines, PromptsOf(lines, n), n)
         /\ HoldsAndLast(lines, n + 1,
              IF lines[n + 1].kind = "task" /\ lines[n + 1].text # Blank
              THEN lines[n + 1].text ELSE held, last)
<1> DEFINE P == PromptsOf(lines, n)
           now == lines[n + 1].text
<1>1. PromptsOf(lines, n + 1) = P /\ P \subseteq 1..n /\ n + 1 \notin P
  <2>1. {i \in {n + 1} : lines[n + 1].kind = "user" /\ lines[n + 1].text # Blank} = {}
        /\ {i \in 1..n : lines[n + 1].kind = "assistant" /\ HeldIn(lines, i, n)} = {}
    OBVIOUS
  <2>2. P \subseteq 1..n /\ PromptsOf(lines, n + 1) = P \cup {} \cup {}
    BY <2>1, PromptsMore
  <2>3. QED BY <2>2
<1> HIDE DEF P
<1>2. SaidIn(lines, P, n + 1) = SaidIn(lines, P, n)
  <2>1. /\ SaidIn(lines, P, n + 1) = SaidIn(lines, P, n) \o UttersIn(lines, P, n + 1)
        /\ SaidIn(lines, P, n) \in Seq(Spoken)
    BY SaidOne
  <2>2. <<>> \o <<>> = <<>> OBVIOUS
  <2>3. UttersIn(lines, P, n + 1) = <<>> BY <1>1, <2>2 DEF UttersIn
  <2>4. \A s \in Seq(Spoken) : s \o <<>> = s OBVIOUS
  <2>5. QED BY <2>1, <2>3, <2>4
<1>3. LastIn(lines, P, n + 1, last)
  <2>1. LastIn(lines, P, n, last) BY DEF HoldsAndLast, P
  <2>2. ASSUME NEW i \in P PROVE P \cap i + 1..n + 1 = P \cap i + 1..n
    <3>1. i + 1..n + 1 \subseteq (i + 1..n) \cup {n + 1} /\ i + 1..n \subseteq i + 1..n + 1
      BY <1>1
    <3>2. QED BY <1>1, <3>1
  <2>3. QED BY <2>1, <2>2 DEF LastIn
<1>4. HoldsIn(lines, n, held) BY DEF HoldsAndLast
<1>5. CASE lines[n + 1].kind = "task" /\ now # Blank
  <2>1. HeldIn(lines, n + 1, n + 1) BY <1>5, HeldMore
  <2>2. n + 1 \in 1..n + 1 OBVIOUS
  <2>3. HoldsIn(lines, n + 1, now) BY <1>5, <2>1, <2>2 DEF HoldsIn
  <2>4. QED BY <1>1, <1>2, <1>3, <1>5, <2>3 DEF HoldsAndLast, P
<1>6. CASE ~(lines[n + 1].kind = "task" /\ now # Blank)
  <2>1. Quiet(lines[n + 1]) BY <1>6 DEF Quiet
  <2>2. ~HeldIn(lines, n + 1, n + 1) BY <1>6, HeldMore
  <2>3. \A i \in 1..n : HeldIn(lines, i, n + 1) <=> HeldIn(lines, i, n) BY <2>1, HeldMore
  <2>4. 1..n + 1 = (1..n) \cup {n + 1} OBVIOUS
  <2>5. HoldsIn(lines, n + 1, held) BY <1>4, <2>2, <2>3, <2>4 DEF HoldsIn
  <2>6. QED BY <1>1, <1>2, <1>3, <1>6, <2>5 DEF HoldsAndLast, P
<1>7. QED BY <1>5, <1>6

(* No task is held back once somebody has spoken.                             *)
LEMMA HoldsNoMore ==
  ASSUME NEW lines, NEW n \in Nat, lines[n + 1].kind \in {"user", "assistant"}
  PROVE  HoldsIn(lines, n + 1, Blank)
<1>1. ~Quiet(lines[n + 1]) /\ lines[n + 1].kind # "task" BY DEF Quiet
<1>2. QED BY <1>1, HeldMore DEF HoldsIn

LEMMA UserLine ==
  ASSUME NEW lines, NEW n \in Nat, Worded(lines, n + 1), NEW held, NEW last,
         HoldsAndLast(lines, n, held, last), lines[n + 1].kind = "user"
  PROVE  /\ SaidIn(lines, PromptsOf(lines, n + 1), n + 1) =
              SaidIn(lines, PromptsOf(lines, n), n)
                \o Uttered("user", Unless(lines[n + 1].text, last))
         /\ HoldsAndLast(lines, n + 1, Blank,
                         IF lines[n + 1].text = Blank THEN last ELSE lines[n + 1].text)
<1> DEFINE P == PromptsOf(lines, n)
           Q == PromptsOf(lines, n + 1)
           now == lines[n + 1].text
<1>1. Q = P \cup {i \in {n + 1} : now # Blank} /\ P \subseteq 1..n /\ n + 1 \notin P
  <2>1. {i \in 1..n : lines[n + 1].kind = "assistant" /\ HeldIn(lines, i, n)} = {}
        /\ {i \in {n + 1} : lines[n + 1].kind = "user" /\ now # Blank} =
             {i \in {n + 1} : now # Blank}
    OBVIOUS
  <2>2. P \subseteq 1..n /\ Q = P \cup {i \in {n + 1} : now # Blank} \cup {}
    BY <2>1, PromptsMore
  <2>3. QED BY <2>2
<1>2. LastIn(lines, P, n, last) BY DEF HoldsAndLast
<1>3. HoldsIn(lines, n + 1, Blank) BY HoldsNoMore
<1>4. now \in Says \cup Replies BY DEF Worded
<1> HIDE DEF P, Q, now
<1>5. /\ SaidIn(lines, Q, n + 1) = SaidIn(lines, Q, n) \o UttersIn(lines, Q, n + 1)
      /\ SaidIn(lines, Q, n) = SaidIn(lines, P, n)
  BY <1>1, SaidOne, SaidSame
<1>6. UttersIn(lines, Q, n + 1) =
        IF n + 1 \in Q /\ ~RepeatsIn(lines, Q, n + 1) THEN Uttered("user", now) ELSE <<>>
  <2>1. Uttered("user", now) \in Seq(Spoken) /\ <<>> \in Seq(Spoken) BY <1>4, UtteredTyped
  <2>2. \A u \in Seq(Spoken) : u \o <<>> = u OBVIOUS
  <2>3. QED BY <2>1, <2>2 DEF UttersIn, now
<1>7. CASE now = Blank
  <2>1. Q = P BY <1>1, <1>7
  <2>2. UttersIn(lines, Q, n + 1) = Uttered("user", Unless(now, last))
    BY <1>1, <1>6, <1>7, <2>1 DEF Uttered, Unless
  <2>3. LastIn(lines, Q, n + 1, last)
    <3>1. ASSUME NEW i \in P PROVE P \cap i + 1..n + 1 = P \cap i + 1..n
      <4>1. i + 1..n + 1 \subseteq (i + 1..n) \cup {n + 1} /\ i + 1..n \subseteq i + 1..n + 1
        BY <1>1
      <4>2. QED BY <1>1, <4>1
    <3>2. QED BY <1>2, <2>1, <3>1 DEF LastIn
  <2>4. QED BY <1>3, <1>5, <1>7, <2>2, <2>3, Zenon DEF HoldsAndLast, P, Q, now
<1>8. CASE now # Blank
  <2>1. Q = P \cup {n + 1} BY <1>1, <1>8
  <2>2. P \cap n + 1..n = {} /\ n + 1 \in 1..n + 1 /\ P \in SUBSET (1..n) BY <1>1
  <2>3. RepeatsIn(lines, P \cup {n + 1}, n + 1) <=> last = now
    BY <1>2, <1>8, <2>2, RepeatsTheLast DEF now
  <2>4. UttersIn(lines, Q, n + 1) = Uttered("user", Unless(now, last))
    BY <1>6, <2>1, <2>3 DEF Unless, Uttered
  <2>5. LastIn(lines, Q, n + 1, now)
    <3>1. n + 1 \in Q /\ (n + 1) + 1..n + 1 = {} BY <2>1
    <3>2. QED BY <3>1 DEF LastIn, now
  <2>6. QED BY <1>3, <1>5, <1>8, <2>4, <2>5, Zenon DEF HoldsAndLast, P, Q, now
<1>9. QED BY <1>7, <1>8

LEMMA AssistantLine ==
  ASSUME NEW lines, NEW n \in Nat, Worded(lines, n + 1), NEW held, NEW last,
         HoldsAndLast(lines, n, held, last), lines[n + 1].kind = "assistant"
  PROVE  /\ SaidIn(lines, PromptsOf(lines, n + 1), n + 1) =
              SaidIn(lines, PromptsOf(lines, n), n)
                \o (Uttered("user", Unless(held, last)) \o Uttered("agent", lines[n + 1].text))
         /\ HoldsAndLast(lines, n + 1, Blank,
                         IF Words(Unless(held, last)) = <<>> THEN last ELSE held)
<1> DEFINE P == PromptsOf(lines, n)
           Q == PromptsOf(lines, n + 1)
           now == lines[n + 1].text
           H == {i \in 1..n : HeldIn(lines, i, n)}
<1>1. Q = P \cup H /\ P \subseteq 1..n /\ n + 1 \notin P
  <2>1. /\ {i \in 1..n : lines[n + 1].kind = "assistant" /\ HeldIn(lines, i, n)} = H
        /\ {i \in {n + 1} : lines[n + 1].kind = "user" /\ now # Blank} = {}
    OBVIOUS
  <2> HIDE DEF H
  <2>2. P \subseteq 1..n /\ Q = P \cup {} \cup H BY <2>1, PromptsMore
  <2>3. QED BY <2>2
<1>2. LastIn(lines, P, n, last) /\ HoldsIn(lines, n, held) BY DEF HoldsAndLast
<1>3. HoldsIn(lines, n + 1, Blank) BY HoldsNoMore
<1>4. now \in Says \cup Replies /\ Worded(lines, n) BY DEF Worded
<1>5. Q \subseteq 1..n /\ n + 1 \notin Q BY <1>1
<1>6. /\ SaidIn(lines, Q, n + 1) = SaidIn(lines, Q, n) \o UttersIn(lines, Q, n + 1)
      /\ SaidIn(lines, P, n) \in Seq(Spoken)
  BY SaidOne
<1>7. Uttered("agent", now) \in Seq(Spoken) BY <1>4, UtteredTyped
<1>8. UttersIn(lines, Q, n + 1) = Uttered("agent", now)
  <2>1. \A u \in Seq(Spoken) : <<>> \o u = u OBVIOUS
  <2> HIDE DEF Q
  <2>2. QED BY <1>5, <1>7, <2>1 DEF UttersIn
<1> HIDE DEF P, Q, now
<1> DEFINE asked == Uttered("user", Unless(held, last))
<1>9. /\ SaidIn(lines, Q, n) = SaidIn(lines, P, n) \o asked /\ asked \in Seq(Spoken)
      /\ LastIn(lines, Q, n + 1, IF Words(Unless(held, last)) = <<>> THEN last ELSE held)
  <2>1. CASE held = Blank
    <3>1. Unless(held, last) = Blank BY <2>1 DEF Unless
    <3>2. asked = <<>> /\ Words(Unless(held, last)) = <<>> BY <3>1 DEF Uttered, Words
    <3>3. Q = P
      <4>1. H = {} BY <1>2, <2>1 DEF HoldsIn
      <4>2. QED BY <1>1, <4>1
    <3>4. SaidIn(lines, P, n) \o <<>> = SaidIn(lines, P, n) /\ <<>> \in Seq(Spoken) BY <1>6
    <3>5. LastIn(lines, P, n + 1, last)
      <4>1. ASSUME NEW i \in P PROVE P \cap i + 1..n + 1 = P \cap i + 1..n
        <5>1. i + 1..n + 1 \subseteq (i + 1..n) \cup {n + 1} /\ i + 1..n \subseteq i + 1..n + 1
          BY <1>1
        <5>2. QED BY <1>1, <5>1
      <4>2. QED BY <1>2, <4>1 DEF LastIn
    <3> HIDE DEF asked, H
    <3>6. QED BY <3>2, <3>3, <3>4, <3>5
  <2>2. CASE held # Blank
    <3>1. PICK h \in 1..n : HeldIn(lines, h, n) /\ lines[h].text = held
      BY <1>2, <2>2 DEF HoldsIn
    <3>2. P \cap h..n = {} /\ H = {h}
      <4>1. P \cap h..n = {} /\ \A i \in 1..n : HeldIn(lines, i, n) => i = h
        BY <3>1, HeldIsLast DEF P
      <4>2. QED BY <3>1, <4>1
    <3>3. Q = P \cup {h} /\ P \in SUBSET (1..n) /\ h \in 1..n + 1 BY <1>1, <3>2
    <3> HIDE DEF H
    <3>4. RepeatsIn(lines, P \cup {h}, h) <=> last = held
      BY <1>2, <2>2, <3>1, <3>2, <3>3, RepeatsTheLast
    <3>5. SaidIn(lines, P \cup {h}, n) =
            SaidIn(lines, P, n)
              \o (IF RepeatsIn(lines, P \cup {h}, h) THEN <<>> ELSE Uttered("user", lines[h].text))
      BY <1>4, <3>1, <3>3, SaidFilled DEF P
    <3>6. (IF RepeatsIn(lines, P \cup {h}, h) THEN <<>> ELSE Uttered("user", lines[h].text)) = asked
      BY <3>1, <3>4 DEF Unless, Uttered
    <3>7. asked \in Seq(Spoken)
      <4>1. held \in Says \cup Replies BY <1>4, <3>1 DEF Worded
      <4>2. Unless(held, last) \in Says \cup Replies BY <4>1 DEF Unless, Says
      <4>3. QED BY <4>2, UtteredTyped
    <3>8. LastIn(lines, Q, n + 1, held)
      <4>1. h \in Q /\ Q \cap h + 1..n + 1 = {}
        <5>1. h \notin h + 1..n + 1 /\ h + 1..n + 1 \subseteq (h..n) \cup {n + 1} OBVIOUS
        <5>2. QED BY <1>1, <3>2, <3>3, <5>1
      <4>2. QED BY <3>1, <4>1 DEF LastIn
    <3>9. (IF Words(Unless(held, last)) = <<>> THEN last ELSE held) = held
      <4>1. CASE held = last BY <4>1
      <4>2. CASE held # last
        <5>1. Words(Unless(held, last)) = <<held>> BY <2>2, <4>2 DEF Unless, Words
        <5>2. <<held>> # <<>> OBVIOUS
        <5>3. QED BY <5>1, <5>2
      <4>3. QED BY <4>1, <4>2
    <3> HIDE DEF asked
    <3>10. QED BY <3>3, <3>5, <3>6, <3>7, <3>8, <3>9, Zenon
  <2>3. QED BY <2>1, <2>2
<1> HIDE DEF asked
<1>10. (SaidIn(lines, P, n) \o asked) \o Uttered("agent", now) =
         SaidIn(lines, P, n) \o (asked \o Uttered("agent", now))
  BY <1>6, <1>7, <1>9, SpeechAssociates
<1>11. SaidIn(lines, Q, n + 1) = SaidIn(lines, P, n) \o (asked \o Uttered("agent", now))
  BY <1>6, <1>8, <1>9, <1>10, Zenon
<1>12. QED BY <1>3, <1>9, <1>11, Zenon DEF HoldsAndLast, P, Q, now, asked

-----------------------------------------------------------------------------
(* Reading tells                                                              *)

LEMMA ReadTells ==
  ASSUME Inv, PlainLog, Telling, NEW format, NEW kind, Read(format, kind), NEW u, NEW n,
         Shows(u, n), Said' = Said \o u
  PROVE  Telling'
<1>1. /\ AllCalls(Seen') = AllCalls(Seen) \o Entry.calls /\ AllCalls(Seen) \in Seq(Calls)
      /\ Entry.calls \in Seq(Calls)
  BY ReadSaysMore, InvIs
<1>2. /\ Speech(Shown') = Speech(Shown) \o u /\ AllCalls(Shown') = AllCalls(Shown) \o Entry.calls
      /\ toolCalls' = toolCalls + Len(Entry.calls)
  BY DEF Shows, Adds, AddsTo
<1>3. Speech(Shown) = Said /\ AllCalls(Shown) = AllCalls(Seen) /\ toolCalls = Len(AllCalls(Seen))
  BY DEF Telling
<1>4. Speech(Shown') = Said' BY <1>2, <1>3, Zenon
<1>5. AllCalls(Shown') = AllCalls(Seen') BY <1>1, <1>2, <1>3, Zenon
<1>6. toolCalls' = Len(AllCalls(Seen'))
  <2>1. \A s, t \in Seq(Calls) : Len(s \o t) = Len(s) + Len(t) OBVIOUS
  <2>2. Len(AllCalls(Seen) \o Entry.calls) = Len(AllCalls(Seen)) + Len(Entry.calls) BY <1>1, <2>1
  <2>3. QED BY <1>1, <1>2, <1>3, <2>2, Zenon
<1>7. Speech(Shown)' = Speech(Shown') /\ AllCalls(Shown)' = AllCalls(Shown')
      /\ AllCalls(Seen)' = AllCalls(Seen')
  BY DEF Speech, AllCalls, Voiced
<1>8. QED BY <1>4, <1>5, <1>6, <1>7, Zenon DEF Telling

LEMMA HearingTells ==
  ASSUME Inv, PlainLog, Telling, NEW format, NEW kind, Read(format, kind), NEW n,
         format # "agentknit", Shows(Heard(Entry), n)
  PROVE  Telling' /\ Holding'
<1>1. Said' = Said \o Heard(Entry) BY ReadSaysMore, InvIs
<1>2. Telling' BY <1>1, ReadTells
<1>3. agent' # "agentknit" BY ReadTyped, InvIs
<1>4. QED BY <1>2, <1>3 DEF Holding

(* agentknit: what is known of the lines when one more is read.               *)
KnitSees(n, says) ==
  /\ n \in Nat /\ Entry = log[n + 1] /\ Worded(log, n + 1)
  /\ HoldsAndLast(log, n, task, lastUser)
  /\ SaidIn(log, PromptsOf(log, n + 1), n + 1) = SaidIn(log, PromptsOf(log, n), n) \o says
     => Said' = Said \o says
  /\ SaidIn(log, PromptsOf(log, n + 1), n + 1) = SaidIn(log, PromptsOf(log, n), n)
     => Said' = Said
  /\ HoldsAndLast(log, n + 1, task', lastUser') => Holding'
  /\ Said \in Seq(Spoken)

LEMMA KnitReads ==
  ASSUME Inv, PlainLog, Holding, NEW kind, Read("agentknit", kind), NEW says
  PROVE  KnitSees(pos - 1, says)
<1>1. /\ agent = "agentknit" /\ FileTyped' /\ pos' = pos + 1 /\ UNCHANGED <<log, agent>>
  BY ReadTyped, ReadSees, InvIs
<1>2. pos \in Nat /\ pos - 1 \in Nat /\ (pos - 1) + 1 = pos /\ pos' - 1 = pos
  BY <1>1, InvIs DEF FileTyped
<1>3. IsKnit /\ IsKnit' BY <1>1 DEF IsKnit
<1>4. PlainLog' BY <1>1 DEF PlainLog, Plain
<1>5. KnitSays /\ KnitSays' BY <1>1, <1>3, <1>4, KnitSaid, InvIs, PTL
<1>6. Prompts = PromptsOf(log, pos - 1) /\ Said = SaidIn(log, PromptsOf(log, pos - 1), pos - 1)
  BY <1>5, Zenon DEF KnitSays
<1>7. Prompts' = PromptsOf(log, pos) /\ Said' = SaidIn(log, PromptsOf(log, pos), pos)
  <2>1. /\ Prompts' = PromptsOf(log', pos' - 1)
        /\ Said' = SaidIn(log', Prompts', pos' - 1)
    BY <1>5, Zenon
    DEF KnitSays, PromptsOf, Asked, Quiet, SaidIn, UttersIn, Uttered, RepeatsIn, Joined
  <2>2. QED BY <1>1, <1>2, <2>1, Zenon
<1>8. Worded(log, pos)
  <2>1. ASSUME NEW i \in 1..pos PROVE log[i].text \in Says \cup Replies
    <3>1. log \in Seq(LogLines(agent)) /\ pos <= Len(log) /\ Len(log) \in Nat
      BY InvIs DEF FileTyped, Read
    <3>2. i \in DOMAIN log BY <1>2, <3>1
    <3>3. log[i] \in LogLines(agent) BY <3>1, <3>2
    <3>4. QED BY <3>3 DEF LogLines
  <2>2. QED BY <2>1 DEF Worded
<1>9. HoldsAndLast(log, pos - 1, task, lastUser)
  BY <1>1, <1>6, Zenon DEF Holding, HoldsTask, LastPrompt, HoldsAndLast
<1>10. ASSUME HoldsAndLast(log, pos, task', lastUser') PROVE Holding'
  <2>1. HoldsIn(log, pos, task') /\ LastIn(log, PromptsOf(log, pos), pos, lastUser')
    BY <1>10 DEF HoldsAndLast
  <2>2. HoldsIn(log', pos' - 1, task') /\ LastIn(log', Prompts', pos' - 1, lastUser')
    BY <1>1, <1>2, <1>7, <2>1, Zenon
  <2>3. HoldsTask' BY <2>2, Zenon DEF HoldsTask, HoldsIn, HeldIn, Quiet
  <2>4. LastPrompt' BY <2>2, Zenon DEF LastPrompt, LastIn
  <2>5. QED BY <2>3, <2>4 DEF Holding
<1>11. Said \in Seq(Spoken)
  <2>1. SaidIn(log, PromptsOf(log, pos - 1), pos - 1) \in Seq(Spoken)
    BY <1>2, <1>8, SaidOne
  <2>2. QED BY <1>6, <2>1, Zenon
<1>12. QED BY <1>2, <1>6, <1>7, <1>8, <1>9, <1>10, <1>11, Zenon DEF KnitSees, Entry

LEMMA KnitQuietTells ==
  ASSUME Inv, PlainLog, Making, Telling, Holding, KnitTask \/ KnitTool
  PROVE  Telling' /\ Holding'
<1>1. PICK kind \in {"task", "result"} :
        /\ Read("agentknit", kind) /\ UNCHANGED lastUser
        /\ task' = IF kind = "task" /\ Entry.text # Blank THEN Entry.text ELSE task
  BY DEF KnitTask, KnitTool
<1>2. Shows(<<>>, 0) BY SilentEntriesShow, ResultEntriesShow
<1>3. KnitSees(pos - 1, <<>>) BY <1>1, KnitReads
<1>4. PICK n \in Nat : n = pos - 1 BY <1>3 DEF KnitSees
<1>5. Entry = log[n + 1] /\ Entry.kind = kind BY <1>1, <1>3, <1>4, EntryIsPlain DEF KnitSees
<1>6. /\ SaidIn(log, PromptsOf(log, n + 1), n + 1) = SaidIn(log, PromptsOf(log, n), n)
      /\ HoldsAndLast(log, n + 1,
           IF log[n + 1].kind = "task" /\ log[n + 1].text # Blank
           THEN log[n + 1].text ELSE task, lastUser)
  <2>1. Worded(log, n + 1) /\ HoldsAndLast(log, n, task, lastUser) BY <1>3, <1>4 DEF KnitSees
  <2>2. log[n + 1].kind \notin {"user", "assistant"} BY <1>1, <1>5
  <2>3. QED BY <2>1, <2>2, QuietLine
<1>7. HoldsAndLast(log, n + 1, task', lastUser') BY <1>1, <1>5, <1>6
<1>8. Said' = Said /\ Holding' /\ Said \in Seq(Spoken) BY <1>3, <1>4, <1>6, <1>7, Zenon DEF KnitSees
<1>9. Said' = Said \o <<>> BY <1>8
<1>10. Telling' BY <1>1, <1>2, <1>9, ReadTells
<1>11. QED BY <1>8, <1>10

LEMMA KnitUserTells ==
  ASSUME Inv, PlainLog, Telling, Holding, KnitUser
  PROVE  Telling' /\ Holding'
<1> DEFINE says == Uttered("user", Unless(Entry.text, lastUser))
<1>1. /\ Read("agentknit", "user") /\ task' = Blank
      /\ lastUser' = IF Entry.text = Blank THEN lastUser ELSE Entry.text
  BY DEF KnitUser
<1>2. Shows(says, 0) BY KnitUserShows
<1> HIDE DEF says
<1>3. KnitSees(pos - 1, says) BY <1>1, KnitReads
<1>4. PICK n \in Nat : n = pos - 1 BY <1>3 DEF KnitSees
<1>5. Entry = log[n + 1] /\ Entry.kind = "user" BY <1>1, <1>3, <1>4, EntryIsPlain DEF KnitSees
<1>6. /\ SaidIn(log, PromptsOf(log, n + 1), n + 1) = SaidIn(log, PromptsOf(log, n), n) \o says
      /\ HoldsAndLast(log, n + 1, Blank,
                      IF log[n + 1].text = Blank THEN lastUser ELSE log[n + 1].text)
  <2>1. Worded(log, n + 1) /\ HoldsAndLast(log, n, task, lastUser) BY <1>3, <1>4 DEF KnitSees
  <2>2. log[n + 1].kind = "user" BY <1>5
  <2>3. QED BY <1>5, <2>1, <2>2, UserLine DEF says
<1>7. HoldsAndLast(log, n + 1, task', lastUser') BY <1>1, <1>5, <1>6
<1>8. Said' = Said \o says /\ Holding' BY <1>3, <1>4, <1>6, <1>7, Zenon DEF KnitSees
<1>9. Telling' BY <1>1, <1>2, <1>8, ReadTells
<1>10. QED BY <1>8, <1>9

LEMMA KnitAssistantTells ==
  ASSUME Inv, PlainLog, Telling, Holding, KnitAssistant
  PROVE  Telling' /\ Holding'
<1> DEFINE says == Uttered("user", Unless(task, lastUser)) \o Uttered("agent", Entry.text)
<1>1. /\ Read("agentknit", "assistant") /\ task' = Blank
      /\ lastUser' = IF Words(Unless(task, lastUser)) = <<>> THEN lastUser ELSE task
  BY DEF KnitAssistant
<1>2. Shows(says, 0) BY KnitAssistantShows
<1> HIDE DEF says
<1>3. KnitSees(pos - 1, says) BY <1>1, KnitReads
<1>4. PICK n \in Nat : n = pos - 1 BY <1>3 DEF KnitSees
<1>5. Entry = log[n + 1] /\ Entry.kind = "assistant"
  BY <1>1, <1>3, <1>4, EntryIsPlain DEF KnitSees
<1>6. /\ SaidIn(log, PromptsOf(log, n + 1), n + 1) = SaidIn(log, PromptsOf(log, n), n) \o says
      /\ HoldsAndLast(log, n + 1, Blank,
                      IF Words(Unless(task, lastUser)) = <<>> THEN lastUser ELSE task)
  <2>1. Worded(log, n + 1) /\ HoldsAndLast(log, n, task, lastUser) BY <1>3, <1>4 DEF KnitSees
  <2>2. log[n + 1].kind = "assistant" BY <1>5
  <2>3. QED BY <1>5, <2>1, <2>2, AssistantLine DEF says
<1>7. HoldsAndLast(log, n + 1, task', lastUser') BY <1>1, <1>6
<1>8. Said' = Said \o says /\ Holding' BY <1>3, <1>4, <1>6, <1>7, Zenon DEF KnitSees
<1>9. Telling' BY <1>1, <1>2, <1>8, ReadTells
<1>10. QED BY <1>8, <1>9

-----------------------------------------------------------------------------
(* Tokens: the prompts' counter is no less than what the steps say            *)

Spends(kind, n) ==
  /\ n \in Nat /\ prompt' \in Nat /\ prompt <= prompt'
  /\ agent \in {"claude", "codex"} => prompt + n <= prompt'
  /\ agent = "exec" => n <= prompt' /\ (kind # "end" => n = 0)
  /\ agent \notin Metered => n = 0
  /\ agent = "codex" => prompt' = UsedBy(pos)

LEMMA ReadSpends ==
  ASSUME Inv, PlainLog, SpentSoFar, NEW format, NEW kind, Read(format, kind), kind # "torn",
         NEW u, NEW n, Shows(u, n), Spends(kind, n)
  PROVE  SpentSoFar'
<1>1. /\ agent = format /\ Entry.kind = kind /\ phase' = "reading"
      /\ pos' = pos + 1 /\ UNCHANGED <<log, agent>> /\ pos \in Nat
  BY ReadTyped, ReadSees, InvIs
<1>2. Used(Shown') <= Used(Shown) + n /\ Used(Shown) \in Nat /\ Used(Shown') \in Nat
  <2>1. Shown \in Seq(Steps) /\ Shown' \in Seq(Steps) /\ Used(Shown') <= Used(Shown) + n
    BY DEF Shows, Adds, AddsTo
  <2>2. QED BY <2>1, SaidByTyped
<1>3. Used(Shown)' = Used(Shown') BY DEF Used, Added
<1>4. pos <= Len(log) /\ pos \in DOMAIN log
  <2>1. pos <= Len(log) BY DEF Read
  <2>2. log \in Seq(LogLines(agent)) BY InvIs DEF FileTyped
  <2>3. pos \in 1..Len(log) + 1 BY InvIs DEF FileTyped
  <2>4. QED BY <2>1, <2>2, <2>3
<1>5. /\ Used(Shown) <= (IF agent \in Metered THEN prompt ELSE 0)
      /\ agent = "codex" => prompt = UsedBy(pos - 1)
      /\ agent = "exec" => Used(Shown) <= 0
  BY <1>1, <1>4 DEF SpentSoFar
<1>6. prompt \in Nat /\ n \in Nat /\ prompt' \in Nat BY InvIs DEF CountersTyped, Spends
<1>7. Used(Shown') <= IF agent \in Metered THEN prompt' ELSE 0
  <2>1. CASE agent \in {"claude", "codex"}
    <3>1. agent \in Metered /\ prompt + n <= prompt' BY <2>1 DEF Metered, Spends
    <3>2. QED BY <1>2, <1>5, <1>6, <3>1
  <2>2. CASE agent = "exec"
    <3>1. agent \in Metered /\ n <= prompt' BY <2>2 DEF Metered, Spends
    <3>2. QED BY <1>2, <1>5, <1>6, <2>2, <3>1
  <2>3. CASE agent \notin Metered
    <3>1. n = 0 BY <2>3 DEF Spends
    <3>2. QED BY <1>2, <1>5, <2>3, <3>1
  <2>4. QED BY <2>1, <2>2, <2>3 DEF Metered
<1>8. ASSUME agent = "codex" PROVE prompt' = UsedBy(pos - 1)'
  <2>1. prompt' = UsedBy(pos) BY <1>8 DEF Spends
  <2>2. pos' - 1 = pos BY <1>1
  <2>3. QED BY <1>1, <2>1, <2>2 DEF UsedBy
<1>9. ASSUME agent = "exec", pos + 1 <= Len(log)
      PROVE  log[pos + 1].kind = "torn" \/ Used(Shown') <= 0
  <2>1. CASE kind = "end"
    <3>1. pos + 1 \in DOMAIN log
      <4>1. log \in Seq(LogLines(agent)) BY InvIs DEF FileTyped
      <4>2. QED BY <1>1, <1>9, <4>1
    <3>2. log[pos].kind = "end" /\ pos < pos + 1 BY <1>1, <2>1 DEF Entry
    <3>3. log[pos + 1].kind = "torn" BY <1>4, <1>9, <3>1, <3>2 DEF PlainLog
    <3>4. QED BY <3>3
  <2>2. CASE kind # "end"
    <3>1. n = 0 BY <1>9, <2>2 DEF Spends
    <3>2. QED BY <1>2, <1>5, <1>9, <3>1
  <2>3. QED BY <2>1, <2>2
<1>10. QED
  <2>1. Used(Shown)' <= IF agent' \in Metered THEN prompt' ELSE 0 BY <1>1, <1>3, <1>7, Zenon
  <2>2. agent' = "codex" => prompt' = UsedBy(pos - 1)' BY <1>1, <1>8
  <2>3. agent' = "exec" /\ pos' <= Len(log') => Entry'.kind = "torn" \/ Used(Shown)' <= 0
    <3>1. Entry' = log[pos + 1] BY <1>1 DEF Entry
    <3>2. QED BY <1>1, <1>3, <1>9, <3>1
  <2>4. QED BY <1>1, <2>1, <2>2, <2>3, Zenon DEF SpentSoFar, Metered

(* Codex: the usage counted so far.                                           *)
LEMMA UsedByMore ==
  ASSUME Inv, NEW format, NEW kind, Read(format, kind)
  PROVE  /\ UsedBy(pos - 1) \in Nat
         /\ kind = "usage" => UsedBy(pos) = UsedBy(pos - 1) + 1
         /\ kind # "usage" => UsedBy(pos) = UsedBy(pos - 1)
<1> DEFINE S == {j \in 1..pos - 1 : log[j].kind = "usage"}
           T == {j \in 1..pos : log[j].kind = "usage"}
<1>1. Entry.kind = kind /\ pos \in Nat BY ReadTyped, InvIs
<1>2. log[pos].kind = kind BY <1>1 DEF Entry
<1>3. pos \notin S BY <1>1
<1>4. T = IF kind = "usage" THEN S \cup {pos} ELSE S
  <2>1. pos >= 1 BY InvIs DEF FileTyped
  <2>2. \A j : j \in 1..pos <=> j \in 1..pos - 1 \/ j = pos BY <1>1, <2>1
  <2>3. QED BY <1>2, <2>2
<1>5. IsFiniteSet(S) /\ Cardinality(S) \in Nat
  <2>1. pos - 1 \in Int /\ 1 \in Int BY <1>1
  <2>2. IsFiniteSet(1..pos - 1) BY <2>1, FS_Interval
  <2>3. S \subseteq 1..pos - 1 OBVIOUS
  <2> HIDE DEF S
  <2>4. QED BY <2>2, <2>3, FS_Subset, FS_CardinalityType
<1>6. UsedBy(pos - 1) = Cardinality(S) /\ UsedBy(pos) = Cardinality(T) BY DEF UsedBy
<1> HIDE DEF S, T
<1>7. Cardinality(S \cup {pos}) = Cardinality(S) + 1 BY <1>3, <1>5, FS_AddElement
<1>8. QED BY <1>4, <1>5, <1>6, <1>7

LEMMA StillSpends ==
  ASSUME Inv, SpentSoFar, NEW format, NEW kind, Read(format, kind), kind # "usage",
         UNCHANGED prompt
  PROVE  Spends(kind, 0)
<1>1. prompt \in Nat /\ agent = format BY ReadTyped, InvIs DEF CountersTyped
<1>2. prompt <= prompt' /\ prompt + 0 <= prompt' /\ 0 <= prompt' /\ 0 \in Nat /\ prompt' \in Nat
  BY <1>1
<1>3. agent = "codex" => prompt' = UsedBy(pos) BY UsedByMore DEF SpentSoFar
<1>4. QED BY <1>2, <1>3 DEF Spends

LEMMA UncountedSpends ==
  ASSUME Inv, NEW format, NEW kind, Read(format, kind), format \notin Metered,
         prompt' \in Nat, prompt <= prompt'
  PROVE  Spends(kind, 0)
<1>1. agent = format BY ReadTyped, InvIs
<1>2. QED BY <1>1 DEF Spends, Metered

LEMMA CodexUsageSpends ==
  ASSUME Inv, PlainLog, SpentSoFar, CodexUsage
  PROVE  Spends("usage", Entry.used)
<1>1. Read("codex", "usage") /\ prompt' = IF UsedBy(pos) > prompt THEN UsedBy(pos) ELSE prompt
  BY DEF CodexUsage
<1>2. agent = "codex" /\ Entry.used \in 0..1 BY <1>1, EntryIsPlain
<1>3. UsedBy(pos) = UsedBy(pos - 1) + 1 /\ UsedBy(pos - 1) \in Nat BY <1>1, UsedByMore
<1>4. prompt = UsedBy(pos - 1) BY <1>2 DEF SpentSoFar
<1>5. UsedBy(pos) = prompt + 1 /\ prompt \in Nat BY <1>3, <1>4
<1>6. prompt' = prompt + 1 /\ prompt' = UsedBy(pos) BY <1>1, <1>5
<1>7. prompt + Entry.used <= prompt' /\ prompt <= prompt' /\ prompt' \in Nat /\ Entry.used \in Nat
  BY <1>2, <1>5, <1>6
<1>8. QED BY <1>2, <1>6, <1>7 DEF Spends, Metered

LEMMA ClaudeAssistantSpends ==
  ASSUME Inv, PlainLog, ClaudeAssistant
  PROVE  Spends("assistant", Entry.used)
<1>1. Read("claude", "assistant") /\ prompt' = prompt + Entry.used
  BY DEF ClaudeAssistant, Spent
<1>2. agent = "claude" /\ Entry.used \in 0..1 /\ prompt \in Nat
  BY <1>1, EntryIsPlain, InvIs DEF CountersTyped
<1>3. prompt <= prompt' /\ prompt + Entry.used <= prompt' /\ prompt' \in Nat /\ Entry.used \in Nat
  BY <1>1, <1>2
<1>4. QED BY <1>2, <1>3 DEF Spends, Metered

LEMMA ExecEndSpends ==
  ASSUME Inv, PlainLog, ExecEnd
  PROVE  Spends("end", Entry.used)
<1>1. Read("exec", "end") /\ prompt' = IF Entry.used > prompt THEN Entry.used ELSE prompt
  BY DEF ExecEnd
<1>2. agent = "exec" /\ Entry.used \in 0..1 /\ prompt \in Nat
  BY <1>1, EntryIsPlain, InvIs DEF CountersTyped
<1>3. prompt <= prompt' /\ Entry.used <= prompt' /\ prompt' \in Nat /\ Entry.used \in Nat
  BY <1>1, <1>2
<1>4. QED BY <1>2, <1>3 DEF Spends, Metered

-----------------------------------------------------------------------------
(* Nothing is lost by a handler                                               *)

LEMMA LInvIs ==
  LInv => /\ PlainLog /\ Making /\ Telling /\ Holding /\ SpentSoFar
          /\ phase = "writing" => NothingShown
BY DEF LInv

LEMMA ReadLoses ==
  ASSUME Inv, LInv, NEW format, NEW kind, Read(format, kind), kind # "torn", NEW u, NEW n,
         Shows(u, n), Spends(kind, n), Telling', Holding'
  PROVE  LInv'
<1>1. phase' = "reading" /\ UNCHANGED <<log, agent>> BY ReadTyped, ReadSees, InvIs
<1>2. PlainLog' BY <1>1, LInvIs DEF PlainLog, Plain
<1>3. Making' BY DEF Shows
<1>4. SpentSoFar' BY ReadSpends, LInvIs
<1>5. QED BY <1>1, <1>2, <1>3, <1>4 DEF LInv

LEMMA HearingLoses ==
  ASSUME Inv, LInv, NEW format, NEW kind, Read(format, kind), kind # "torn",
         format # "agentknit", NEW n, Shows(Heard(Entry), n), Spends(kind, n)
  PROVE  LInv'
<1>1. Telling' /\ Holding' BY HearingTells, LInvIs
<1>2. QED BY <1>1, ReadLoses

LEMMA HeardOf ==
  ASSUME Inv, PlainLog, NEW format, NEW kind, Read(format, kind)
  PROVE  /\ kind = "user" => Heard(Entry) = Uttered("user", Entry.text)
         /\ kind \notin {"user", "assistant", "turn"} => Heard(Entry) = <<>>
<1>1. /\ Plain(Entry) /\ Entry.kind = kind /\ Entry.text \in Says \cup Replies
      /\ Entry.reply \in Answers
  BY EntryIsPlain
<1>2. QED BY <1>1, HeardIs

LEMMA SilentEntriesLose ==
  ASSUME Inv, LInv,
         ClaudeResult \/ ClaudeOther \/ CodexResult \/ CopilotResult \/ HermesTool \/ ProbeUsage
  PROVE  LInv'
<1>1. PICK format \in {"claude", "codex", "copilot", "hermes", "agent_probe"},
           kind \in {"result", "end", "usage"} :
        /\ Read(format, kind)
        /\ \/ UNCHANGED prompt /\ kind # "usage"
           \/ ProbeUsage
  BY DEF ClaudeResult, ClaudeOther, CodexResult, CopilotResult, HermesTool, ProbeUsage, parsed
<1>2. Shows(<<>>, 0) BY SilentEntriesShow, LInvIs
<1>3. Heard(Entry) = <<>> BY <1>1, HeardOf, LInvIs
<1>4. Spends(kind, 0)
  <2>1. CASE UNCHANGED prompt /\ kind # "usage" BY <1>1, <2>1, StillSpends, LInvIs
  <2>2. CASE ProbeUsage
    <3>1. Read("agent_probe", "usage") /\ prompt' = prompt + Entry.used
      BY <2>2 DEF ProbeUsage, Spent
    <3>2. Entry.used \in 0..1 /\ prompt \in Nat
      BY <3>1, ReadTyped, InvIs DEF CountersTyped
    <3>3. prompt' \in Nat /\ prompt <= prompt' BY <3>1, <3>2
    <3>4. format = "agent_probe" BY <1>1, <3>1 DEF Read
    <3>5. format \notin Metered BY <3>4 DEF Metered
    <3>6. QED BY <1>1, <3>3, <3>5, UncountedSpends
  <2>3. QED BY <1>1, <2>1, <2>2
<1>5. QED BY <1>1, <1>2, <1>3, <1>4, HearingLoses

LEMMA EndsOfTurnsLose ==
  ASSUME Inv, LInv, CodexEnd \/ CopilotEnd
  PROVE  LInv'
<1>1. PICK format \in {"codex", "copilot"} : Read(format, "end") /\ UNCHANGED prompt
  BY DEF CodexEnd, CopilotEnd, AnyUser
<1>2. Shows(<<>>, 0) BY EndsOfTurnsShow, LInvIs
<1>3. Heard(Entry) = <<>> BY <1>1, HeardOf, LInvIs
<1>4. Spends("end", 0) BY <1>1, StillSpends, LInvIs
<1>5. QED BY <1>1, <1>2, <1>3, <1>4, HearingLoses

LEMMA UserEntriesLose ==
  ASSUME Inv, LInv, ClaudeUser \/ CodexUser \/ CopilotUser \/ HermesUser \/ ProbeUser \/ ExecPrompt
  PROVE  LInv'
<1>1. PICK format \in {"claude", "codex", "copilot", "hermes", "agent_probe", "exec"} :
        Read(format, "user") /\ UNCHANGED prompt
  BY DEF ClaudeUser, CodexUser, CopilotUser, HermesUser, ProbeUser, ExecPrompt, AnyUser
<1>2. Shows(Uttered("user", Entry.text), 0) BY UserEntriesShow, LInvIs
<1>3. Heard(Entry) = Uttered("user", Entry.text) BY <1>1, HeardOf, LInvIs
<1>4. Spends("user", 0) BY <1>1, StillSpends, LInvIs
<1>5. Shows(Heard(Entry), 0) BY <1>2, <1>3, Zenon
<1>6. QED BY <1>1, <1>4, <1>5, HearingLoses

LEMMA MessagesLose ==
  ASSUME Inv, LInv,
         \/ CodexMessage \/ CodexCall \/ CopilotMessage \/ ProbeCall
         \/ HermesAssistant \/ ProbeAssistant \/ ExecMessage \/ CopilotTurn
  PROVE  LInv'
<1>1. PICK format \in {"codex", "copilot", "copilot_db", "hermes", "agent_probe", "exec"},
           kind \in {"assistant", "call", "turn"} :
        Read(format, kind) /\ UNCHANGED prompt
  BY DEF CodexMessage, CodexCall, CopilotMessage, ProbeCall, HermesAssistant, ProbeAssistant,
         ExecMessage, CopilotTurn, AnyUser
<1>2. Shows(Heard(Entry), 0)
  BY CallsAndMessagesShow, HermesAssistantShows, ProbeAssistantShows, ExecMessageShows,
     CopilotTurnShows, LInvIs
<1>3. Spends(kind, 0) BY <1>1, StillSpends, LInvIs
<1>4. QED BY <1>1, <1>2, <1>3, HearingLoses

LEMMA ResultsAndCommandsLose ==
  ASSUME Inv, LInv, ProbeResult \/ ExecCommand
  PROVE  LInv'
<1>1. PICK format \in {"agent_probe", "exec"}, kind \in {"result", "ran"} :
        Read(format, kind) /\ UNCHANGED prompt
  BY DEF ProbeResult, ExecCommand
<1>2. Shows(<<>>, 0) BY ResultEntriesShow, ExecCommandShows, LInvIs
<1>3. Heard(Entry) = <<>> BY <1>1, HeardOf, LInvIs
<1>4. Spends(kind, 0) BY <1>1, StillSpends, LInvIs
<1>5. QED BY <1>1, <1>2, <1>3, <1>4, HearingLoses

LEMMA UsageLoses ==
  ASSUME Inv, LInv, CodexUsage \/ ExecEnd
  PROVE  LInv'
<1>1. PICK format \in {"codex", "exec"}, kind \in {"usage", "end"} :
        Read(format, kind) /\ Spends(kind, Entry.used)
  BY CodexUsageSpends, ExecEndSpends, LInvIs DEF CodexUsage, ExecEnd
<1>2. Shows(<<>>, Entry.used) BY CodexUsageShows, ExecEndShows, LInvIs
<1>3. Heard(Entry) = <<>> BY <1>1, HeardOf, LInvIs
<1>4. QED BY <1>1, <1>2, <1>3, HearingLoses

LEMMA ClaudeAssistantLoses ==
  ASSUME Inv, LInv, ClaudeAssistant
  PROVE  LInv'
<1>1. Read("claude", "assistant") BY DEF ClaudeAssistant
<1>2. Shows(Heard(Entry), Entry.used) BY ClaudeAssistantShows, LInvIs
<1>3. Spends("assistant", Entry.used) BY ClaudeAssistantSpends, LInvIs
<1>4. QED BY <1>1, <1>2, <1>3, HearingLoses

LEMMA KnitLoses ==
  ASSUME Inv, LInv, KnitTask \/ KnitUser \/ KnitAssistant \/ KnitTool
  PROVE  LInv'
<1>1. PICK kind \in {"task", "user", "assistant", "result"} :
        Read("agentknit", kind) /\ UNCHANGED prompt
  BY DEF KnitTask, KnitUser, KnitAssistant, KnitTool
<1>2. \E u : Shows(u, 0)
  BY SilentEntriesShow, KnitUserShows, KnitAssistantShows, ResultEntriesShow, LInvIs
<1>3. Telling' /\ Holding' BY KnitQuietTells, KnitUserTells, KnitAssistantTells, LInvIs
<1>4. Spends(kind, 0) BY <1>1, StillSpends, LInvIs
<1>5. PICK u : Shows(u, 0) BY <1>2
<1>6. QED BY <1>1, <1>3, <1>4, <1>5, ReadLoses

(* The end of the file.                                                       *)
LEMMA SameFile ==
  ASSUME UNCHANGED <<agent, log, pos>>
  PROVE  /\ Said' = Said /\ Prompts' = Prompts /\ AllCalls(Seen)' = AllCalls(Seen)
         /\ UsedBy(pos - 1)' = UsedBy(pos - 1)
<1>1. Seen' = Seen BY DEF Seen
<1>2. \A i : AskedBy(i)' = AskedBy(i) BY <1>1 DEF AskedBy
<1>3. Prompts' = Prompts BY <1>1, <1>2 DEF Prompts
<1>4. \A i : Repeats(i)' = Repeats(i) BY <1>1, <1>3 DEF Repeats
<1>5. \A i : Utterances(i)' = Utterances(i) BY <1>1, <1>3, <1>4 DEF Utterances, Words
<1>6. Said' = Said
  <2> DEFINE spoken == [i \in DOMAIN Seen |-> Utterances(i)]
  <2>1. spoken' = spoken BY <1>1, <1>5
  <2>2. Said = Joined(spoken) BY DEF Said
  <2>3. Said' = Joined(spoken') BY DEF Said, Joined
  <2> HIDE DEF spoken
  <2>4. QED BY <2>1, <2>2, <2>3
<1>7. AllCalls(Seen)' = AllCalls(Seen) BY <1>1 DEF AllCalls, Joined
<1>8. UsedBy(pos - 1)' = UsedBy(pos - 1) BY DEF UsedBy
<1>9. QED BY <1>3, <1>6, <1>7, <1>8

LEMMA SameLines ==
  ASSUME PlainLog, Holding, UNCHANGED <<agent, log, pos, task, lastUser>>
  PROVE  PlainLog' /\ Holding'
<1>1. PlainLog' BY DEF PlainLog, Plain
<1>2. Prompts' = Prompts BY SameFile
<1>3. HoldsTask' = HoldsTask BY DEF HoldsTask, HoldsIn, HeldIn, Quiet
<1>4. LastPrompt' = LastPrompt BY <1>2 DEF LastPrompt, LastIn
<1>5. QED BY <1>1, <1>3, <1>4 DEF Holding

LEMMA CloseSpends ==
  ASSUME Inv, SpentSoFar, Close, Used(Shown') <= Used(Shown)
  PROVE  SpentSoFar'
<1>1. /\ pos > Len(log) /\ Flush
      /\ total' = (LET counted == IF agent = "hermes" THEN spent ELSE prompt
                   IN  IF counted > 0 \/ sawUsage THEN counted ELSE Estimate(Closed))
      /\ UNCHANGED <<agent, log, pos, prompt>>
  BY DEF Close, file
<1>2. /\ spent \in Nat /\ prompt \in Nat /\ Estimate(Closed) \in Nat
      /\ Len(log) \in Nat /\ pos \in Nat
  BY ClosedIs, EstimateIsNat, InvIs DEF FileTyped, CountersTyped
<1>3. steps' \in Seq(Steps) /\ pending' = <<>> BY <1>1, ClosedIs, InvIs DEF Flush
<1>4. Shown' = steps'
  <2>1. \A s \in Seq(Steps) : s \o <<>> = s OBVIOUS
  <2>2. QED BY <1>3, <2>1, Zenon DEF Shown
<1>5. Used(steps') \in Nat /\ Used(Shown) \in Nat
  BY <1>3, ShownIs, SaidByTyped, InvIs
<1>6. Used(Shown) <= IF agent \in Metered THEN prompt ELSE 0 BY DEF SpentSoFar
<1>7. Used(steps') <= IF agent \in Metered THEN prompt ELSE 0 BY <1>2, <1>4, <1>5, <1>6
<1>8. Used(steps') <= total'
  <2>1. CASE agent \in Metered
    <3>1. agent # "hermes" BY <2>1 DEF Metered
    <3>2. total' = IF prompt > 0 \/ sawUsage THEN prompt ELSE Estimate(Closed) BY <1>1, <3>1
    <3>3. QED BY <1>2, <1>5, <1>7, <2>1, <3>2
  <2>2. CASE agent \notin Metered
    <3>1. total' \in Nat BY <1>1, <1>2
    <3>2. QED BY <1>5, <1>7, <2>2, <3>1
  <2>3. QED BY <2>1, <2>2
<1>9. Used(Shown)' = Used(steps') /\ Used(steps)' = Used(steps') BY <1>4 DEF Used, Added
<1>10. UsedBy(pos - 1)' = UsedBy(pos - 1) BY <1>1, SameFile
<1>11. ~(pos' <= Len(log')) BY <1>1, <1>2
<1>12. agent = "codex" => prompt = UsedBy(pos - 1) BY DEF SpentSoFar
<1>13. Used(Shown)' <= IF agent' \in Metered THEN prompt' ELSE 0 BY <1>1, <1>7, <1>9, Zenon
<1>14. QED BY <1>1, <1>8, <1>9, <1>10, <1>11, <1>12, <1>13, Zenon DEF SpentSoFar, Metered

LEMMA CloseLoses ==
  ASSUME Inv, LInv, Close
  PROVE  LInv'
<1>1. /\ Flush /\ phase' = "done"
      /\ UNCHANGED <<agent, log, pos, toolCalls, task, lastUser>>
  BY DEF Close, file
<1>2. Adds(<<>>, <<>>, 0) /\ Making' BY <1>1, FlushAdds
<1>3. PlainLog' /\ Holding' BY <1>1, SameLines, LInvIs
<1>4. /\ Speech(Shown') = Speech(Shown) \o <<>> /\ AllCalls(Shown') = AllCalls(Shown) \o <<>>
      /\ Used(Shown') <= Used(Shown) + 0 /\ Shown \in Seq(Steps) /\ Shown' \in Seq(Steps)
  BY <1>2 DEF Adds, AddsTo
<1>5. /\ Speech(Shown) \in Seq(Spoken) /\ AllCalls(Shown) \in Seq(Calls)
      /\ Used(Shown) \in Nat
  BY <1>4, SaidByTyped
<1>6. Used(Shown) + 0 = Used(Shown) BY <1>5
<1>7. Used(Shown') <= Used(Shown) BY <1>4, <1>6
<1>8. SpentSoFar' BY <1>7, CloseSpends, LInvIs
<1>9. Speech(Shown') = Speech(Shown) /\ AllCalls(Shown') = AllCalls(Shown)
  <2>1. Speech(Shown) \o <<>> = Speech(Shown) /\ AllCalls(Shown) \o <<>> = AllCalls(Shown)
    BY <1>5
  <2>2. QED BY <1>4, <2>1, Zenon
<1>10. Said' = Said /\ AllCalls(Seen)' = AllCalls(Seen) BY <1>1, SameFile
<1>11. Speech(Shown)' = Speech(Shown') /\ AllCalls(Shown)' = AllCalls(Shown')
  BY DEF Speech, AllCalls, Voiced
<1>12. Telling BY LInvIs
<1>13. Telling' BY <1>1, <1>9, <1>10, <1>11, <1>12, Zenon DEF Telling
<1>14. QED BY <1>1, <1>2, <1>3, <1>8, <1>13 DEF LInv

-----------------------------------------------------------------------------
(* While the agent writes, nothing is shown, and nothing was seen             *)

Fresh == NothingShown /\ pos = 1 /\ phase # "done"

LEMMA FreshTells == FileTyped /\ Fresh => Telling /\ Holding /\ SpentSoFar
<1>1. SUFFICES ASSUME FileTyped, Fresh PROVE Telling /\ Holding /\ SpentSoFar
  OBVIOUS
<1>2. /\ steps = <<>> /\ pending = <<>> /\ toolCalls = 0 /\ prompt = 0
      /\ task = Blank /\ lastUser = Blank /\ pos = 1 /\ phase # "done" /\ pos - 1 = 0
  BY <1>1 DEF Fresh, NothingShown
<1>3. Seen = <<>> /\ DOMAIN Seen = {}
  <2>1. SeenFacts BY <1>1, SeenIs
  <2>2. Len(Seen) = 0 /\ Seen \in Seq(LogLines(agent)) BY <1>2, <2>1 DEF SeenFacts
  <2>3. QED BY <2>2
<1>4. Shown = <<>>
  <2>1. <<>> \o <<>> = <<>> OBVIOUS
  <2>2. QED BY <1>2, <2>1, Zenon DEF Shown
<1>5. Speech(Shown) = <<>>
  <2>1. [i \in DOMAIN Shown |-> Voiced(Shown[i])] = <<>> BY <1>4
  <2>2. QED BY <2>1, JoinedNone, Zenon DEF Speech
<1>6. Said = <<>>
  <2>1. [i \in DOMAIN Seen |-> Utterances(i)] = <<>> BY <1>3
  <2>2. QED BY <2>1, JoinedNone, Zenon DEF Said
<1>7. AllCalls(<<>>) = <<>>
  <2>1. [i \in DOMAIN <<>> |-> <<>>[i].calls] = <<>> OBVIOUS
  <2>2. QED BY <2>1, JoinedNone, Zenon DEF AllCalls
<1>8. Used(Shown) = 0
  <2>1. [i \in DOMAIN Shown |-> Shown[i].used] = <<>> BY <1>4
  <2>2. QED BY <2>1, AddedNone, Zenon DEF Used
<1>9. Telling
  <2>1. Len(<<>>) = 0 OBVIOUS
  <2>2. QED BY <1>2, <1>3, <1>4, <1>5, <1>6, <1>7, <2>1, Zenon DEF Telling
<1>10. Holding
  <2>1. 1..0 = {} OBVIOUS
  <2>2. HoldsTask BY <1>2, <2>1 DEF HoldsTask, HoldsIn
  <2>3. Prompts = {} BY <1>3 DEF Prompts
  <2>4. LastPrompt BY <1>2, <2>3 DEF LastPrompt, LastIn
  <2>5. QED BY <2>2, <2>4 DEF Holding
<1>11. SpentSoFar
  <2>1. {j \in 1..0 : log[j].kind = "usage"} = {} OBVIOUS
  <2>2. UsedBy(pos - 1) = 0
    <3>1. Cardinality({}) = 0 BY FS_EmptySet
    <3>2. QED BY <1>2, <2>1, <3>1 DEF UsedBy
  <2>3. QED BY <1>2, <1>8, <2>2 DEF SpentSoFar
<1>12. QED BY <1>9, <1>10, <1>11

(* What an agent may write says what its kind says.                           *)
LEMMA EntryPlain ==
  ASSUME FileTyped, NEW e \in Entries, Writes(e)
  PROVE  Plain(e)
<1>1. /\ e.kind \in Kinds[agent]
      /\ e.kind = "assistant" /\ {"call", "ran"} \cap Kinds[agent] # {} => e.calls = <<>>
  BY DEF Writes
<1>2. ASSUME agent \in {"codex", "agent_probe", "exec"}
      PROVE  {"call", "ran"} \cap Kinds[agent] # {}
  BY <1>2 DEF Kinds
<1>3. e.kind = "assistant" /\ agent \in {"codex", "agent_probe", "exec"} => e.calls = <<>>
  BY <1>1, <1>2
<1> DEFINE Says3(k, t, r, c) ==
             /\ k \notin {"assistant", "call", "ran"} => c = <<>>
             /\ k \notin {"user", "assistant", "task", "turn"} => t = Blank
             /\ k # "turn" => r = Blank
<1>4. SUFFICES Says3(e.kind, e.text, e.reply, e.calls) BY <1>3 DEF Plain
<1>5. CASE \E t \in Says, kind \in {"user", "task"} : e = [Line(kind) EXCEPT !.text = t]
  BY <1>5 DEF Line
<1>6. CASE \E t \in Answers, c \in NewCalls, u \in 0..1 :
             e = [Line("assistant") EXCEPT !.text = t, !.calls = c, !.used = u]
  <2>1. e.kind = "assistant" /\ e.reply = Blank BY <1>6 DEF Line
  <2>2. QED BY <2>1
<1>7. CASE made < MaxCalls /\ e = [Line("call") EXCEPT !.calls = <<made + 1>>]
  BY <1>7 DEF Line
<1>8. CASE \E i \in unanswered : e = [Line("result") EXCEPT !.id = i] BY <1>8 DEF Line
<1>9. CASE \E u \in 0..1, kind \in {"usage", "end"} : e = [Line(kind) EXCEPT !.used = u]
  BY <1>9 DEF Line
<1>10. CASE made < MaxCalls /\ \E i \in {0, made + 1} :
              e = [Line("ran") EXCEPT !.calls = <<made + 1>>, !.id = i]
  <2>1. e.kind = "ran" /\ e.reply = Blank /\ e.text = Blank BY <1>10 DEF Line
  <2>2. QED BY <2>1
<1>11. CASE \E t \in Says, r \in Answers : e = [Line("turn") EXCEPT !.text = t, !.reply = r]
  BY <1>11 DEF Line
<1> HIDE DEF Says3
<1>12. QED BY <1>5, <1>6, <1>7, <1>8, <1>9, <1>10, <1>11, EntryIs, Zenon

LEMMA PlainGoesOn ==
  ASSUME FileTyped, PlainLog, NEW e \in LogLines(agent), log' = Append(log, e), UNCHANGED agent,
         Plain(e),
         agent = "exec" /\ e.kind # "torn" /\ log # <<>> =>
           log[Len(log)].kind \notin {"torn", "end"}
  PROVE  PlainLog'
<1>1. log \in Seq(LogLines(agent)) BY DEF FileTyped
<1>2. PICK n \in Nat : n = Len(log) BY <1>1
<1>3. /\ DOMAIN log = 1..n /\ DOMAIN log' = 1..n + 1 /\ log'[n + 1] = e
      /\ \A i \in 1..n : log'[i] = log[i]
  BY <1>1, <1>2
<1>4. ASSUME NEW i \in DOMAIN log' PROVE Plain(log[i])'
  <2>1. Plain(log'[i])
    <3>1. CASE i \in 1..n BY <1>3, <3>1 DEF PlainLog
    <3>2. CASE i = n + 1 BY <1>3, <3>2
    <3>3. QED BY <1>2, <1>3, <3>1, <3>2
  <2>2. QED BY <2>1 DEF Plain
<1>5. ASSUME agent = "exec", NEW i \in DOMAIN log', NEW j \in DOMAIN log',
             log'[i].kind = "end", i < j
      PROVE  log'[j].kind = "torn"
  <2>1. i \in 1..n /\ log[i].kind = "end" BY <1>2, <1>3, <1>5
  <2>2. CASE j \in 1..n
    <3>1. log'[j] = log[j] BY <1>3, <2>2
    <3>2. log[j].kind = "torn" BY <1>3, <1>5, <2>1, <2>2 DEF PlainLog
    <3>3. QED BY <3>1, <3>2
  <2>3. CASE j = n + 1
    <3>1. n \in DOMAIN log /\ log # <<>> /\ (i < n \/ i = n) BY <1>2, <1>3, <2>1
    <3>2. log[n].kind \in {"torn", "end"} BY <1>3, <1>5, <2>1, <3>1 DEF PlainLog
    <3>3. e.kind = "torn" BY <1>2, <1>5, <3>1, <3>2
    <3>4. QED BY <1>3, <2>3, <3>3
  <2>4. QED BY <1>2, <1>3, <2>2, <2>3
<1>6. QED BY <1>4, <1>5 DEF PlainLog

LEMMA PicksPlain ==
  ASSUME FileTyped, PlainLog, UNCHANGED agent, log' \in Seq(LogLines(agent)), NEW h,
         Picks(log', log, Len(log), h)
  PROVE  PlainLog'
<1>1. /\ Len(log') \in Nat /\ Len(log) \in Nat /\ DOMAIN log' = 1..Len(log')
      /\ DOMAIN log = 1..Len(log)
      /\ \A i \in 1..Len(log') : h[i] \in 1..Len(log) /\ log'[i] = log[h[i]]
      /\ \A i, j \in 1..Len(log') : i < j => h[i] < h[j]
  BY DEF FileTyped, Picks
<1>2. ASSUME NEW i \in DOMAIN log' PROVE Plain(log[i])'
  <2>1. Plain(log'[i]) BY <1>1 DEF PlainLog
  <2>2. QED BY <2>1 DEF Plain
<1>3. agent = "exec" =>
        \A i, j \in DOMAIN log' : log'[i].kind = "end" /\ i < j => log'[j].kind = "torn"
  BY <1>1 DEF PlainLog
<1>4. QED BY <1>2, <1>3 DEF PlainLog

LEMMA FreshIs ==
  ASSUME LInv, FileTyped, FileTyped', phase = "writing", phase' \in {"writing", "reading"},
         UNCHANGED <<pos, parsed>>, PlainLog'
  PROVE  LInv'
<1>1. NothingShown /\ Making BY LInvIs
<1>2. NothingShown' /\ Making' BY <1>1 DEF NothingShown, Making, parsed
<1>3. pos = 1 BY DEF FileTyped
<1>4. Fresh' BY <1>2, <1>3 DEF Fresh
<1>5. (Telling /\ Holding /\ SpentSoFar)' BY <1>4, FreshTells, PTL
<1>6. QED BY <1>2, <1>5 DEF LInv

LEMMA WriteLoses ==
  ASSUME Inv, LInv, \E e \in Entries : Write(e)
  PROVE  LInv'
<1>1. PICK e \in Entries : Write(e) OBVIOUS
<1>2. /\ phase = "writing" /\ Writes(e) /\ log' = (IF torn THEN log ELSE Append(log, e))
      /\ UNCHANGED <<agent, phase, pos, parsed>>
  BY <1>1 DEF Write
<1>3. FileTyped /\ FileTyped' BY WriteTyped, InvIs
<1>4. Plain(e) BY <1>2, <1>3, EntryPlain
<1>5. e \in LogLines(agent) BY <1>2, <1>3, EntryTyped DEF Writes
<1>6. PlainLog'
  <2>1. CASE torn BY <1>2, <2>1, LInvIs DEF PlainLog, Plain
  <2>2. CASE ~torn
    <3>1. agent = "exec" /\ log # <<>> => Last(log).kind \notin {"torn", "end"}
      BY <1>2 DEF Writes
    <3>2. Last(log) = log[Len(log)] BY DEF Last
    <3>3. QED BY <1>2, <1>3, <1>4, <1>5, <2>2, <3>1, <3>2, PlainGoesOn, LInvIs
  <2>3. QED BY <2>1, <2>2
<1>7. QED BY <1>2, <1>3, <1>6, FreshIs

LEMMA CrashLoses ==
  ASSUME Inv, LInv, Crash
  PROVE  LInv'
<1>1. /\ phase = "writing" /\ log' = Append(log, Torn) /\ UNCHANGED <<agent, phase, pos, parsed>>
  BY DEF Crash
<1>2. FileTyped /\ FileTyped' BY CrashTyped, InvIs
<1>3. Torn = [kind |-> "torn", text |-> Blank, reply |-> Blank, calls |-> <<>>, id |-> 0,
              used |-> 0]
  BY DEF Torn, Line
<1>4. Plain(Torn) BY <1>3 DEF Plain
<1>5. Torn \in LogLines(agent)
  <2>1. /\ Blank \in Says \cup Replies /\ Blank \in Says /\ Blank \in Answers
        /\ <<>> \in Seq(Calls) /\ 0 \in 0..MaxCalls /\ 0 \in 0..1
    BY BoundsAssumption DEF Says, Answers
  <2>2. "torn" \in Kinds[agent] \cup {"torn"} OBVIOUS
  <2>3. QED BY <1>3, <2>1, <2>2, LineIs
<1>6. Torn.kind = "torn" BY <1>3
<1>7. PlainLog' BY <1>1, <1>2, <1>4, <1>5, <1>6, PlainGoesOn, LInvIs
<1>8. QED BY <1>1, <1>2, <1>7, FreshIs

LEMMA OpenLoses ==
  ASSUME Inv, LInv, Open
  PROVE  LInv'
<1>1. /\ phase = "writing" /\ phase' = "reading" /\ log' = Loaded(log)
      /\ UNCHANGED <<agent, pos, parsed>>
  BY DEF Open
<1>2. FileTyped /\ FileTyped' BY OpenTyped, InvIs
<1>3. log \in Seq(LogLines(agent)) BY <1>2 DEF FileTyped
<1>4. PlainLog'
  <2>1. CASE agent = "exec"
    <3>1. log' = <<>> \/ log' = log BY <1>1, <2>1 DEF Loaded, ExecLoaded
    <3>2. CASE log' = <<>> BY <3>2 DEF PlainLog
    <3>3. CASE log' = log BY <1>1, <3>3, LInvIs DEF PlainLog, Plain
    <3>4. QED BY <3>1, <3>2, <3>3
  <2>2. CASE agent # "exec"
    <3>1. PICK S : log' = Chosen(log, S) BY <1>1, <2>2 DEF Loaded
    <3>2. log' \in Seq(LogLines(agent)) BY <1>3, <3>1, ChosenFacts
    <3>3. PICK h : Picks(Chosen(log, S), log, Len(log), h) BY <1>3, ChosenInOrder
    <3>4. Picks(log', log, Len(log), h) BY <3>1, <3>3
    <3>5. QED BY <1>1, <1>2, <3>2, <3>4, PicksPlain, LInvIs
  <2>3. QED BY <2>1, <2>2
<1>5. QED BY <1>1, <1>2, <1>4, FreshIs

LEMMA ResumeLoses ==
  ASSUME Inv, LInv, Resume
  PROVE  LInv'
<1>1. /\ phase' = "writing" /\ pos' = 1 /\ steps' = <<>> /\ pending' = <<>>
      /\ toolCalls' = 0 /\ prompt' = 0 /\ task' = Blank /\ lastUser' = Blank
      /\ UNCHANGED <<agent, log>>
  BY DEF Resume, file
<1>2. FileTyped' BY ResumeTyped
<1>3. NothingShown' /\ Making' BY <1>1 DEF NothingShown, Making
<1>4. PlainLog' BY <1>1, LInvIs DEF PlainLog, Plain
<1>5. Fresh' BY <1>1, <1>3 DEF Fresh
<1>6. (Telling /\ Holding /\ SpentSoFar)' BY <1>2, <1>5, FreshTells, PTL
<1>7. QED BY <1>3, <1>4, <1>6 DEF LInv

LEMMA InitLoses == Init => LInv
<1>1. SUFFICES ASSUME Init PROVE LInv
  OBVIOUS
<1>2. FileTyped BY <1>1, InitTyped, InvIs
<1>3. DOMAIN log = {} /\ DOMAIN pending = {} BY <1>1 DEF Init
<1>4. NothingShown /\ Fresh BY <1>1 DEF Init, NothingShown, Fresh
<1>5. PlainLog /\ Making BY <1>3 DEF PlainLog, Making
<1>6. QED BY <1>2, <1>4, <1>5, FreshTells DEF LInv

LEMMA NothingLoses ==
  ASSUME LInv, UNCHANGED vars
  PROVE  LInv'
<1>1. UNCHANGED <<agent, log, phase, pos, steps, pending, toolCalls, prompt, task, lastUser, total>>
  BY DEF vars, file, parsed
<1>2. PlainLog' /\ Holding' BY <1>1, SameLines, LInvIs
<1>3. Making' BY <1>1, LInvIs DEF Making
<1>4. phase' = "writing" => NothingShown' BY <1>1, LInvIs DEF NothingShown
<1>5. Shown' = Shown BY <1>1 DEF Shown
<1>6. /\ Said' = Said /\ AllCalls(Seen)' = AllCalls(Seen)
      /\ UsedBy(pos - 1)' = UsedBy(pos - 1)
  BY <1>1, SameFile
<1>7. /\ Speech(Shown)' = Speech(Shown') /\ AllCalls(Shown)' = AllCalls(Shown')
      /\ Used(Shown)' = Used(Shown') /\ Used(steps)' = Used(steps)
  BY <1>1 DEF Speech, AllCalls, Voiced, Used, Added
<1>8. Telling' BY <1>1, <1>5, <1>6, <1>7, LInvIs, Zenon DEF Telling
<1>9. Entry' = Entry BY <1>1 DEF Entry
<1>10. Used(Shown)' = Used(Shown) BY <1>5, <1>7
<1>11. SpentSoFar BY LInvIs
<1>12. SpentSoFar' BY <1>1, <1>6, <1>7, <1>9, <1>10, <1>11 DEF SpentSoFar, Metered
<1>13. QED BY <1>2, <1>3, <1>4, <1>8, <1>12 DEF LInv

LEMMA NextLoses == Inv /\ LInv /\ [Next]_vars => LInv'
<1>1. SUFFICES ASSUME Inv, LInv, [Next]_vars PROVE LInv'
  OBVIOUS
<1>2. CASE (\E e \in Entries : Write(e)) \/ Crash \/ Open \/ Close \/ Resume \/ UNCHANGED vars
  BY <1>1, <1>2, WriteLoses, CrashLoses, OpenLoses, CloseLoses, ResumeLoses, NothingLoses
<1>3. CASE \/ ClaudeUser \/ ClaudeResult \/ ClaudeAssistant \/ ClaudeOther
           \/ CodexUser \/ CodexMessage \/ CodexCall \/ CodexResult \/ CodexUsage \/ CodexEnd
           \/ CopilotUser \/ CopilotMessage \/ CopilotResult \/ CopilotEnd \/ CopilotTurn
           \/ HermesUser \/ HermesAssistant \/ HermesTool
  BY <1>1, <1>3, UserEntriesLose, SilentEntriesLose, ClaudeAssistantLoses, MessagesLose,
     UsageLoses, EndsOfTurnsLose
<1>4. CASE \/ ProbeUser \/ ProbeCall \/ ProbeResult \/ ProbeAssistant \/ ProbeUsage
           \/ KnitTask \/ KnitUser \/ KnitAssistant \/ KnitTool
           \/ ExecPrompt \/ ExecMessage \/ ExecCommand \/ ExecEnd
  BY <1>1, <1>4, UserEntriesLose, SilentEntriesLose, MessagesLose, ResultsAndCommandsLose,
     UsageLoses, KnitLoses
<1>5. QED BY <1>1, <1>2, <1>3, <1>4, Zenon DEF Next

LEMMA LInvTells == LInv => NothingLost
<1>1. SUFFICES ASSUME LInv PROVE NothingLost
  OBVIOUS
<1>2. Telling /\ SpentSoFar BY <1>1, LInvIs
<1>3. Told = Speech(Shown) BY DEF Told, Speech
<1>4. SpentWithinTotal BY <1>2 DEF SpentSoFar, SpentWithinTotal, Used
<1>5. QED BY <1>2, <1>3, <1>4 DEF NothingLost, Telling

(* After every line read, a trajectory tells what was said in the file and    *)
(* shows the calls made, each once and in order, counts the calls it shows,   *)
(* and its total is no less than the tokens of its steps: the handlers of     *)
(* every parser, and agentknit's tasks that are held back.                    *)
THEOREM NothingIsLost == Spec => []NothingLost
<1>1. Init => Inv /\ LInv BY InitTyped, InitLoses
<1>2. Inv /\ LInv /\ [Next]_vars => (Inv /\ LInv)'
  <2>1. Inv /\ [Next]_vars => Inv' BY NextTyped
  <2>2. QED BY <2>1, NextLoses
<1>3. LInv => NothingLost BY LInvTells
<1>4. QED BY <1>1, <1>2, <1>3, PTL DEF Spec

-----------------------------------------------------------------------------
(* What was told is told again.  What was said, of any lines.                 *)

AskedOf(lines, i) ==
  \E j \in DOMAIN lines :
    /\ j > i /\ lines[j].kind = "assistant"
    /\ \A k \in i + 1..j - 1 :
         lines[k].kind \notin {"user", "assistant"} /\ (lines[k].kind = "task" => lines[k].text = Blank)

PromptsIn(lines) == {i \in DOMAIN lines :
  /\ lines[i].text # Blank
  /\ lines[i].kind \in {"user", "turn"} \/ (lines[i].kind = "task" /\ AskedOf(lines, i))}

RepeatsOf(format, lines, i) ==
  /\ format = "agentknit"
  /\ \E j \in PromptsIn(lines) :
       /\ j < i /\ lines[j].text = lines[i].text
       /\ PromptsIn(lines) \cap j + 1..i - 1 = {}

UtterancesOf(format, lines, i) ==
  LET user == IF i \in PromptsIn(lines) /\ ~RepeatsOf(format, lines, i) THEN <<lines[i].text>>
                                                                         ELSE <<>>
      reply == IF lines[i].kind = "assistant" THEN Words(lines[i].text) ELSE Words(lines[i].reply)
  IN  [k \in DOMAIN user |-> <<"user", user[k]>>] \o [k \in DOMAIN reply |-> <<"agent", reply[k]>>]

SaidOf(format, lines) == Joined([i \in DOMAIN lines |-> UtterancesOf(format, lines, i)])

LEMMA SaidIsOf == Said = SaidOf(agent, Seen)
BY DEF Said, SaidOf, Utterances, UtterancesOf, Repeats, RepeatsOf, Prompts, PromptsIn, AskedBy,
       AskedOf

(* What was told before is what those lines said, and once they are read      *)
(* again it is told again.                                                    *)
SaidBefore ==
  Speech(before) = SaidOf(agent, heard) /\ AllCalls(before) = AllCalls(heard)

ToldBefore ==
  Begins(Speech(before), Speech(Shown)) /\ Begins(AllCalls(before), AllCalls(Shown))

DInv ==
  /\ SaidBefore
  /\ phase # "writing" /\ Len(heard) <= pos - 1 => ToldBefore
  /\ phase = "done" => pos > Len(log)

(* All of a file that begins with them, or is them.                           *)
LEMMA SeenAre ==
  ASSUME FileTyped, NEW lines \in Seq(LogLines(agent)), Len(lines) = pos - 1,
         Begins(lines, log)
  PROVE  Seen = lines
<1>1. SeenFacts BY SeenIs
<1>2. Seen \in Seq(LogLines(agent)) /\ Len(Seen) = Len(lines) BY <1>1 DEF SeenFacts
<1>3. \A i \in 1..Len(Seen) : Seen[i] = lines[i] BY <1>1, <1>2 DEF SeenFacts, Begins
<1>4. QED BY <1>2, <1>3, SeqEqual

LEMMA Catches == Inv /\ EInv /\ LInv /\ SaidBefore /\ Len(heard) = pos - 1 => ToldBefore
<1>1. SUFFICES ASSUME Inv, EInv, LInv, SaidBefore, Len(heard) = pos - 1 PROVE ToldBefore
  OBVIOUS
<1>2. Seen = heard BY <1>1, SeenAre, InvIs DEF EInv
<1>3. Said = SaidOf(agent, heard) BY <1>2, SaidIsOf, Zenon
<1>4. Telling BY <1>1, LInvIs
<1>5. Speech(Shown) = Speech(before) /\ AllCalls(Shown) = AllCalls(before)
  BY <1>1, <1>2, <1>3, <1>4, Zenon DEF Telling, SaidBefore
<1>6. before \in Seq(Steps) BY <1>1 DEF EInv
<1>7. Speech(before) \in Seq(Spoken) /\ AllCalls(before) \in Seq(Calls) BY <1>6, SaidByTyped
<1>8. Len(Speech(before)) \in Nat /\ Len(AllCalls(before)) \in Nat BY <1>7
<1>9. Begins(Speech(before), Speech(before)) /\ Begins(AllCalls(before), AllCalls(before))
  BY <1>8 DEF Begins
<1>10. QED BY <1>5, <1>9, Zenon DEF ToldBefore

LEMMA BeginsMore ==
  ASSUME NEW T, NEW a \in Seq(T), NEW b \in Seq(T), NEW u \in Seq(T), Begins(a, b)
  PROVE  Begins(a, b \o u)
<1>1. /\ Len(b \o u) = Len(b) + Len(u) /\ Len(a) \in Nat /\ Len(b) \in Nat /\ Len(u) \in Nat
      /\ \A i \in 1..Len(b) : (b \o u)[i] = b[i]
  BY ConcatProperties
<1>2. Len(a) <= Len(b) /\ \A i \in 1..Len(a) : b[i] = a[i] BY DEF Begins
<1>3. 1..Len(a) \subseteq 1..Len(b) /\ Len(a) <= Len(b \o u) BY <1>1, <1>2
<1>4. QED BY <1>1, <1>2, <1>3 DEF Begins

(* Whatever the entry, a parser only tells more.                              *)
Tells == \E u, c, n : Adds(u, c, n)

LEMMA TellsAgain ==
  ASSUME EInv, ToldBefore, Tells, UNCHANGED before
  PROVE  ToldBefore'
<1>1. PICK u, c, n : Adds(u, c, n) BY DEF Tells
<1>2. /\ Shown \in Seq(Steps) /\ u \in Seq(Spoken) /\ c \in Seq(Calls)
      /\ Speech(Shown') = Speech(Shown) \o u /\ AllCalls(Shown') = AllCalls(Shown) \o c
  BY <1>1 DEF Adds, AddsTo
<1>3. before \in Seq(Steps) BY DEF EInv
<1>4. /\ Speech(before) \in Seq(Spoken) /\ AllCalls(before) \in Seq(Calls)
      /\ Speech(Shown) \in Seq(Spoken) /\ AllCalls(Shown) \in Seq(Calls)
  BY <1>2, <1>3, SaidByTyped
<1>5. Begins(Speech(before), Speech(Shown)) /\ Begins(AllCalls(before), AllCalls(Shown))
  BY DEF ToldBefore
<1>6. /\ Begins(Speech(before), Speech(Shown) \o u)
      /\ Begins(AllCalls(before), AllCalls(Shown) \o c)
  BY <1>2, <1>4, <1>5, BeginsMore
<1>7. /\ Speech(before)' = Speech(before) /\ AllCalls(before)' = AllCalls(before)
      /\ Speech(Shown)' = Speech(Shown') /\ AllCalls(Shown)' = AllCalls(Shown')
  BY DEF Speech, AllCalls, Voiced, Joined
<1>8. QED BY <1>2, <1>6, <1>7 DEF ToldBefore, Begins

LEMMA HandlersTell ==
  ASSUME Inv, LInv, Next, Handles
  PROVE  Tells
<1>1. PlainLog /\ Making BY LInvIs
<1>2. phase = "reading" /\ UNCHANGED phase BY DEF Handles, Read
<1>3. ~((\E e \in Entries : Write(e)) \/ Crash \/ Open \/ Close \/ Resume)
  BY <1>2 DEF Write, Crash, Open, Close, Resume
<1>4. CASE \/ ClaudeUser \/ ClaudeResult \/ ClaudeAssistant \/ ClaudeOther
           \/ CodexUser \/ CodexMessage \/ CodexCall \/ CodexResult \/ CodexUsage \/ CodexEnd
           \/ CopilotUser \/ CopilotMessage \/ CopilotResult \/ CopilotEnd \/ CopilotTurn
           \/ HermesUser \/ HermesAssistant \/ HermesTool
  <2>1. \E u, n : Shows(u, n)
    BY <1>1, <1>4, SilentEntriesShow, EndsOfTurnsShow, UserEntriesShow, CallsAndMessagesShow,
       ClaudeAssistantShows, HermesAssistantShows, CodexUsageShows, CopilotTurnShows, Zenon
  <2>2. QED BY <2>1 DEF Shows, Tells
<1>5. CASE \/ ProbeUser \/ ProbeCall \/ ProbeResult \/ ProbeAssistant \/ ProbeUsage
           \/ KnitTask \/ KnitUser \/ KnitAssistant \/ KnitTool
           \/ ExecPrompt \/ ExecMessage \/ ExecCommand \/ ExecEnd
  <2>1. \E u, n : Shows(u, n)
    BY <1>1, <1>5, SilentEntriesShow, UserEntriesShow, CallsAndMessagesShow, ProbeAssistantShows,
       ResultEntriesShow, ExecMessageShows, ExecCommandShows, ExecEndShows, KnitUserShows,
       KnitAssistantShows, Zenon
  <2>2. QED BY <2>1 DEF Shows, Tells
<1>6. QED BY <1>3, <1>4, <1>5, Zenon DEF Next

LEMMA SaidBeforeStays ==
  ASSUME SaidBefore, UNCHANGED <<agent, heard, before>>
  PROVE  SaidBefore'
<1>1. /\ Speech(before)' = Speech(before) /\ AllCalls(before)' = AllCalls(before)
      /\ AllCalls(heard)' = AllCalls(heard)
  BY DEF Speech, AllCalls, Voiced, Joined
<1>2. SaidOf(agent, heard)' = SaidOf(agent, heard)
  BY DEF SaidOf, UtterancesOf, RepeatsOf, PromptsIn, AskedOf, Words, Joined
<1>3. QED BY <1>1, <1>2 DEF SaidBefore

LEMMA ResumeRemembers ==
  ASSUME Inv, LInv, DInv, Resume
  PROVE  DInv'
<1>1. /\ phase = "done" /\ phase' = "writing" /\ heard' = log /\ before' = steps
      /\ UNCHANGED agent
  BY DEF Resume, file
<1>2. /\ log \in Seq(LogLines(agent)) /\ Len(log) \in Nat /\ pos \in 1..Len(log) + 1
      /\ steps \in Seq(Steps) /\ pending = <<>>
  BY <1>1, InvIs DEF FileTyped, StepsTyped
<1>3. Len(log) = pos - 1 BY <1>1, <1>2 DEF DInv
<1>4. Begins(log, log) BY <1>2 DEF Begins
<1>5. Seen = log BY <1>2, <1>3, <1>4, SeenAre, InvIs
<1>6. Said = SaidOf(agent, log) BY <1>5, SaidIsOf, Zenon
<1>7. Shown = steps BY <1>2 DEF Shown
<1>8. Telling BY LInvIs
<1>9. Speech(steps) = SaidOf(agent, log) /\ AllCalls(steps) = AllCalls(log)
  BY <1>5, <1>6, <1>7, <1>8, Zenon DEF Telling
<1>10. /\ Speech(before)' = Speech(steps) /\ AllCalls(before)' = AllCalls(steps)
       /\ AllCalls(heard)' = AllCalls(log)
  BY <1>1 DEF Speech, AllCalls, Voiced, Joined
<1>11. SaidOf(agent, heard)' = SaidOf(agent, log)
  BY <1>1 DEF SaidOf, UtterancesOf, RepeatsOf, PromptsIn, AskedOf, Words, Joined
<1>12. SaidBefore' BY <1>9, <1>10, <1>11 DEF SaidBefore
<1>13. QED BY <1>1, <1>12 DEF DInv

LEMMA InitRemembers == Init => DInv
<1>1. SUFFICES ASSUME Init PROVE DInv
  OBVIOUS
<1>2. heard = <<>> /\ before = <<>> /\ phase = "writing" BY <1>1 DEF Init
<1>3. /\ [i \in DOMAIN <<>> |-> Voiced(<<>>[i])] = <<>>
      /\ [i \in DOMAIN <<>> |-> UtterancesOf(agent, <<>>, i)] = <<>>
  OBVIOUS
<1>4. Speech(<<>>) = SaidOf(agent, <<>>) BY <1>3, Zenon DEF Speech, SaidOf
<1>5. QED BY <1>2, <1>4 DEF DInv, SaidBefore

All == Inv /\ EInv /\ LInv

LEMMA NextRemembers == All /\ All' /\ DInv /\ [Next]_vars => DInv'
<1>1. SUFFICES ASSUME All, All', DInv, [Next]_vars PROVE DInv'
  OBVIOUS
<1>2. Inv /\ EInv /\ LInv BY <1>1 DEF All
<1>3. SaidBefore' /\ Len(heard') = pos' - 1 => ToldBefore'
  <2>1. (Inv /\ EInv /\ LInv)' BY <1>1 DEF All
  <2>2. SaidBefore' /\ (Len(heard) = pos - 1)' => ToldBefore' BY <2>1, Catches, PTL
  <2>3. QED BY <2>2
<1>4. heard \in Seq(LogLines(agent)) /\ Len(heard) \in Nat /\ pos \in Nat /\ pos >= 1
  <2>1. Len(log) \in Nat /\ pos \in 1..Len(log) + 1 BY <1>2, InvIs DEF FileTyped
  <2>2. QED BY <1>2, <2>1 DEF EInv
<1>5. CASE (\E e \in Entries : Write(e)) \/ Crash
  <2>1. phase' = "writing" /\ UNCHANGED <<agent, heard, before>>
    BY <1>5 DEF Write, Crash, earlier
  <2>2. QED BY <1>1, <2>1, SaidBeforeStays DEF DInv
<1>6. CASE Open
  <2>1. phase = "writing" /\ phase' = "reading" /\ UNCHANGED <<agent, pos, heard, before>>
    BY <1>6 DEF Open, earlier
  <2>2. pos' = 1 BY <1>2, <2>1, InvIs DEF FileTyped
  <2>3. SaidBefore' BY <1>1, <2>1, SaidBeforeStays DEF DInv
  <2>4. Len(heard') <= pos' - 1 => Len(heard') = pos' - 1 BY <1>4, <2>1, <2>2
  <2>5. QED BY <1>3, <2>1, <2>3, <2>4 DEF DInv
<1>7. CASE Resume BY <1>1, <1>2, <1>7, ResumeRemembers
<1>8. CASE Close
  <2>1. /\ phase = "reading" /\ phase' = "done" /\ pos > Len(log) /\ Flush
        /\ UNCHANGED <<agent, log, pos, heard, before>>
    BY <1>8 DEF Close, file, earlier
  <2>2. SaidBefore' BY <1>1, <2>1, SaidBeforeStays DEF DInv
  <2>3. Tells BY <1>2, <2>1, FlushAdds DEF Tells
  <2>4. Len(heard) <= pos - 1 => ToldBefore' BY <1>1, <1>2, <2>1, <2>3, TellsAgain DEF DInv
  <2>5. QED BY <2>1, <2>2, <2>4 DEF DInv
<1>9. CASE Next /\ Handles
  <2>1. /\ phase = "reading" /\ pos' = pos + 1
        /\ UNCHANGED <<agent, log, phase, heard, before>>
    BY <1>9 DEF Handles, Read, file, earlier
  <2>2. SaidBefore' BY <1>1, <2>1, SaidBeforeStays DEF DInv
  <2>3. Tells BY <1>2, <1>9, HandlersTell
  <2>4. CASE Len(heard) <= pos - 1
    <3>1. ToldBefore' BY <1>1, <1>2, <2>1, <2>3, <2>4, TellsAgain DEF DInv
    <3>2. QED BY <2>1, <2>2, <3>1 DEF DInv
  <2>5. CASE ~(Len(heard) <= pos - 1)
    <3>1. Len(heard') <= pos' - 1 => Len(heard') = pos' - 1 BY <1>4, <2>1, <2>5
    <3>2. QED BY <1>3, <2>1, <2>2, <3>1 DEF DInv
  <2>6. QED BY <2>4, <2>5
<1>10. CASE UNCHANGED vars
  <2>1. UNCHANGED <<agent, log, phase, pos, steps, pending, heard, before>>
    BY <1>10 DEF vars, file, parsed, earlier
  <2>2. SaidBefore' BY <1>1, <2>1, SaidBeforeStays DEF DInv
  <2>3. Tells
    <3>1. Adds(<<>>, <<>>, 0) BY <1>2, <2>1, StillAdds, LInvIs
    <3>2. QED BY <3>1 DEF Tells
  <2>4. phase # "writing" /\ Len(heard) <= pos - 1 => ToldBefore'
    BY <1>1, <1>2, <2>1, <2>3, TellsAgain DEF DInv
  <2>5. QED BY <1>1, <2>1, <2>2, <2>4 DEF DInv
<1>11. QED BY <1>1, <1>5, <1>6, <1>7, <1>8, <1>9, <1>10, NextHandles

(* When the file of a session that went on is parsed again, what the earlier  *)
(* parse told, and the calls it showed, are told and shown again, first and   *)
(* in the same order, whatever was written since and however a line broke.    *)
ToldAgain ==
  phase = "done" =>
    /\ IsPrefix(Speech(before), Told)
    /\ IsPrefix(AllCalls(before), AllCalls(steps))

THEOREM NothingIsTakenBack == Spec => []ToldAgain
<1>1. Init => All /\ DInv BY InitTyped, InitEarlier, InitLoses, InitRemembers DEF All
<1>2. All /\ DInv /\ [Next]_vars => (All /\ DInv)'
  <2>1. Inv /\ [Next]_vars => Inv' BY NextTyped
  <2>2. All /\ [Next]_vars => All' BY <2>1, NextEarlier, NextLoses DEF All
  <2>3. QED BY <2>2, NextRemembers
<1>3. All /\ DInv => ToldAgain
  <2>1. SUFFICES ASSUME All, DInv, phase = "done"
                 PROVE  /\ IsPrefix(Speech(before), Told)
                        /\ IsPrefix(AllCalls(before), AllCalls(steps))
    BY DEF ToldAgain
  <2>2. /\ Len(log) \in Nat /\ pos \in Nat /\ Len(heard) \in Nat /\ Len(heard) <= Len(log)
        /\ steps \in Seq(Steps) /\ pending = <<>> /\ before \in Seq(Steps)
    BY <2>1, InvIs DEF All, EInv, FileTyped, StepsTyped, Begins
  <2>3. Len(heard) <= pos - 1 BY <2>1, <2>2 DEF DInv
  <2>4. ToldBefore BY <2>1, <2>3 DEF DInv
  <2>5. Shown = steps /\ Told = Speech(Shown) BY <2>2 DEF Shown, Told, Speech
  <2>6. /\ Speech(before) \in Seq(Spoken) /\ AllCalls(before) \in Seq(Calls)
        /\ Speech(steps) \in Seq(Spoken) /\ AllCalls(steps) \in Seq(Calls)
    BY <2>2, SaidByTyped
  <2>7. Begins(Speech(before), Speech(steps)) /\ Begins(AllCalls(before), AllCalls(steps))
    BY <2>4, <2>5, Zenon DEF ToldBefore
  <2>8. /\ IsPrefix(Speech(before), Speech(steps))
        /\ IsPrefix(AllCalls(before), AllCalls(steps))
    BY <2>6, <2>7, BeginsIsPrefix
  <2>9. QED BY <2>5, <2>8, Zenon
<1>4. QED BY <1>1, <1>2, <1>3, PTL DEF Spec
=============================================================================
