------------------------------- MODULE Parsers -------------------------------
(***************************************************************************)
(* The parsers of trajectoriz/__init__.py: what an agent's session says,   *)
(* read entry by entry into the numbered steps of a trajectory.  An agent  *)
(* appends entries to its log, is killed in the middle of a line, and goes *)
(* on in the same file; a parser then reads what is there.  The session    *)
(* may be resumed after that, and its file read again, from the start.     *)
(*                                                                         *)
(* One action per kind of entry of each agent's format.  Texts, tool names *)
(* and arguments are opaque; timestamps, session ids, models and versions  *)
(* of agents are left out.  A text is blank or not, as after .strip().     *)
(*                                                                         *)
(* A definition named Bug... is the one after it with a plausible mistake. *)
(* Nothing uses it: it is there to try the properties on.                  *)
(***************************************************************************)
EXTENDS Naturals, Sequences, FiniteSets, SequencesExt

CONSTANTS Texts, Replies,  \* what users say, what agents say
          Blank,           \* a text of white space
          Agents,          \* the formats read, of those below
          MaxLog, MaxCalls, \* bounds: entries of a log, tool calls,
          MaxMore           \* and entries written after a resumption, before the next parse

Formats == {"claude", "codex", "copilot", "copilot_db", "hermes", "agent_probe", "agentknit",
            "exec"}
Databases == {"copilot_db", "hermes"}
Collecting == {"agent_probe", "agentknit", "exec"}   \* results are read as they come

ASSUME TextsAssumption == Blank \notin Texts \cup Replies
ASSUME AgentsAssumption == Agents \subseteq Formats
ASSUME BoundsAssumption == MaxLog \in Nat /\ MaxCalls \in Nat /\ MaxMore \in Nat

VARIABLES
  agent,                 \* the format of the log
  log, torn,             \* its entries; whether it ends in half a line
  made, unanswered,      \* tool calls made so far, those still running
  spent,                 \* tokens that its entries say were used
  phase,                 \* "writing", "reading", then "done"
  pos, results,          \* the entry to read, the calls with a result in the file
  steps, pending, stepId,   \* pending: the step in the making, if there is one
  toolCalls, prompt, sawUsage, task, lastUser,
  total,                 \* total_tokens of the trajectory
  heard, before          \* history: the lines that were read before, and the steps then

file == <<agent, log, torn, made, unanswered, spent>>
parsed == <<steps, pending, stepId, toolCalls, prompt, sawUsage, task, lastUser>>
earlier == <<heard, before>>
vars == <<file, phase, pos, results, parsed, total, earlier>>

Says == Texts \cup {Blank}
Answers == Replies \cup {Blank}
Calls == 1..MaxCalls

Line(kind) == [kind |-> kind, text |-> Blank, reply |-> Blank, calls |-> <<>>, id |-> 0,
               used |-> 0]
Torn == Line("torn")

Step(id, source, words) ==
  [id |-> id, source |-> source, words |-> words, calls |-> <<>>, results |-> <<>>, used |-> 0]

Words(text) == IF text = Blank THEN <<>> ELSE <<text>>

(* The elements of s that are in S, in their order.                         *)
Chosen(s, S) ==
  LET chosen[i \in 0..Len(s)] ==
        IF i = 0 THEN <<>>
        ELSE IF s[i] \in S THEN Append(chosen[i - 1], s[i]) ELSE chosen[i - 1]
  IN  chosen[Len(s)]

(* The sequences of s, one after the other, and the sum of numbers.         *)
Joined(s) ==
  LET joined[i \in 0..Len(s)] == IF i = 0 THEN <<>> ELSE joined[i - 1] \o s[i]
  IN  joined[Len(s)]

Added(numbers) ==
  LET added[i \in 0..Len(numbers)] == IF i = 0 THEN 0 ELSE added[i - 1] + numbers[i]
  IN  added[Len(numbers)]

-----------------------------------------------------------------------------
(* The agent                                                                *)

(* Entries an agent may write next: an answer is to a call that has none,   *)
(* new calls have new ids, and wire messages answer a call at once.  The    *)
(* output of `codex exec --json` is that of one turn, after the prompt that *)
(* the caller gives; a command comes with what it printed (id), or nothing. *)
NewCalls == {[i \in 1..n |-> made + i] : n \in 0..MaxCalls - made}

Entries ==
  {[Line("user") EXCEPT !.text = t] : t \in Says}
  \cup {[Line("assistant") EXCEPT !.text = m[1], !.calls = m[2], !.used = m[3]] :
          m \in Answers \X NewCalls \X (0..1)}
  \cup {[Line("call") EXCEPT !.calls = <<made + 1>>] : n \in 1..MaxCalls - made}
  \cup {[Line("result") EXCEPT !.id = i] : i \in unanswered}
  \cup {[Line("usage") EXCEPT !.used = 1]} \cup {[Line("end") EXCEPT !.used = u] : u \in 0..1}
  \cup {[Line("ran") EXCEPT !.calls = <<made + 1>>, !.id = i] :
          i \in {j \in {0, made + 1} : made < MaxCalls}}
  \cup {[Line("task") EXCEPT !.text = t] : t \in Says}
  \cup {[Line("turn") EXCEPT !.text = m[1], !.reply = m[2]] : m \in Says \X Answers}

Kinds == [
  claude      |-> {"user", "assistant", "result", "end"},
  codex       |-> {"user", "assistant", "call", "result", "usage", "end"},
  copilot     |-> {"user", "assistant", "result", "end"},
  copilot_db  |-> {"turn"},
  hermes      |-> {"user", "assistant", "result"},
  agent_probe |-> {"user", "assistant", "call", "result", "usage"},
  agentknit   |-> {"user", "assistant", "result", "task"},
  exec        |-> {"user", "assistant", "ran", "end"}]

Writes(e) ==
  /\ e.kind \in Kinds[agent]
  /\ e.kind = "assistant" /\ {"call", "ran"} \cap Kinds[agent] # {} => e.calls = <<>>
  /\ e.kind = "assistant" /\ e.used > 0 => agent \in {"claude", "hermes"} /\ e.text # Blank
  /\ agent = "agentknit" /\ e.kind # "result" => unanswered = {}
  /\ e.kind = "end" /\ e.used > 0 => agent = "exec"
  /\ agent = "exec" =>
       IF log = <<>> THEN TRUE ELSE e.kind # "user" /\ Last(log).kind \notin {"torn", "end"}

Room == Len(log) < MaxLog /\ (heard = <<>> \/ Len(log) < Len(heard) + MaxMore)

(* A line that follows half a line is lost with it: the two do not parse.   *)
Write(e) ==
  /\ phase = "writing" /\ Room
  /\ Writes(e)
  /\ log' = IF torn THEN log ELSE Append(log, e)
  /\ torn' = FALSE
  /\ made' = made + Len(e.calls)
  /\ unanswered' = (unanswered \ {e.id}) \cup ToSet(e.calls)
  /\ spent' = spent + (IF torn THEN 0 ELSE e.used)
  /\ UNCHANGED <<agent, phase, pos, results, parsed, total, earlier>>

(* The agent is killed while it writes a line.  It may forget the calls     *)
(* that were running.  What databases commit is whole.                      *)
Crash ==
  /\ phase = "writing" /\ Room
  /\ ~torn /\ agent \notin Databases
  /\ log' = Append(log, Torn)
  /\ torn' = TRUE
  /\ unanswered' \in {unanswered, {}}
  /\ UNCHANGED <<agent, made, spent, phase, pos, results, parsed, total, earlier>>

-----------------------------------------------------------------------------
(* The parsers                                                              *)

(* The lines of a file that parse; of the output of codex exec, all or none. *)
ExecLoaded(lines) == IF \E i \in DOMAIN lines : lines[i].kind = "torn" THEN <<>> ELSE lines

Loaded(lines) ==
  IF agent = "exec" THEN ExecLoaded(lines)
  ELSE Chosen(lines, {e \in ToSet(lines) : e.kind # "torn"})

(* The results, in the whole file, whichever side of their calls they are.  *)
ToolResults(lines) ==
  IF agent \in Collecting THEN {}
  ELSE {lines[i].id : i \in {j \in DOMAIN lines : lines[j].kind = "result"}}

Open ==
  /\ phase = "writing"
  /\ phase' = "reading"
  /\ log' = Loaded(log)
  /\ results' = ToolResults(Loaded(log))
  /\ UNCHANGED <<agent, torn, made, unanswered, spent, pos, parsed, total, earlier>>

Entry == log[pos]

Read(format, kind) ==
  /\ phase = "reading" /\ agent = format
  /\ pos <= Len(log) /\ Entry.kind = kind
  /\ pos' = pos + 1
  /\ UNCHANGED <<file, phase, results, total, earlier>>

BugAnswered(step) ==
  [step EXCEPT !.results = Chosen(step.calls,
     {log[i].id : i \in {j \in 1..pos - 1 : log[j].kind = "result"}})]
Answered(step) == [step EXCEPT !.results = Chosen(step.calls, results)]

(* _flush_pending: the steps, with the one in the making closed.            *)
Closed ==
  steps \o [i \in DOMAIN pending |->
              IF agent \in Collecting THEN pending[i] ELSE Answered(pending[i])]

BugFlush == steps' = Closed /\ UNCHANGED pending
Flush == steps' = Closed /\ pending' = <<>>

(* A step of the user's, unless blank, after the step in the making.        *)
BugUserSays(text) ==
  /\ steps' = steps \o [i \in 1..Len(Words(text)) |-> Step(stepId + i, "user", Words(text))]
  /\ stepId' = stepId + Len(Words(text))
  /\ UNCHANGED pending
UserSays(text) ==
  /\ steps' = Closed \o [i \in 1..Len(Words(text)) |-> Step(stepId + i, "user", Words(text))]
  /\ stepId' = stepId + Len(Words(text))
  /\ pending' = <<>>

(* The step in the making goes on, or a step begins.                        *)
Growing == IF pending = <<>> THEN Step(stepId + 1, "agent", <<>>) ELSE pending[1]

BugGrown(text, calls) ==
  [Growing EXCEPT !.words = Words(text), !.calls = @ \o calls]
Grown(text, calls) ==
  [Growing EXCEPT !.words = @ \o Words(text), !.calls = @ \o calls]

Numbered == stepId' = Growing.id
Spent(tokens) == prompt' = prompt + tokens
Called(calls) == toolCalls' = toolCalls + Len(calls)
AnyUser == UNCHANGED <<toolCalls, prompt, sawUsage, task, lastUser>>

(* Claude Code: every entry is a step.                                      *)
ClaudeUser ==
  /\ Read("claude", "user")
  /\ UserSays(Entry.text)
  /\ AnyUser

ClaudeResult == Read("claude", "result") /\ UNCHANGED parsed

ClaudeAssistant ==
  /\ Read("claude", "assistant")
  /\ LET step == [Grown(Entry.text, Entry.calls) EXCEPT !.used = Entry.used]
     IN  steps' = Append(steps, Answered(step))
  /\ Numbered /\ Called(Entry.calls)
  /\ Spent(Entry.used)
  /\ UNCHANGED <<pending, sawUsage, task, lastUser>>

ClaudeOther == Read("claude", "end") /\ UNCHANGED parsed

(* Codex: a step gathers messages and calls until the turn ends.            *)
CodexUser ==
  /\ Read("codex", "user")
  /\ UserSays(Entry.text)
  /\ AnyUser

CodexMessage ==
  /\ Read("codex", "assistant")
  /\ pending' = <<Grown(Entry.text, <<>>)>>
  /\ Numbered
  /\ UNCHANGED steps /\ AnyUser

CodexCall ==
  /\ Read("codex", "call")
  /\ pending' = <<Grown(Blank, Entry.calls)>>
  /\ Numbered /\ Called(Entry.calls)
  /\ UNCHANGED <<steps, prompt, sawUsage, task, lastUser>>

CodexResult == Read("codex", "result") /\ UNCHANGED parsed

(* A count carries the tokens used so far, and those of the last request.   *)
UsedBy(i) == Cardinality({j \in 1..i : log[j].kind = "usage"})

CodexUsage ==
  /\ Read("codex", "usage")
  /\ prompt' = IF UsedBy(pos) > prompt THEN UsedBy(pos) ELSE prompt
  /\ pending' = [i \in DOMAIN pending |-> [pending[i] EXCEPT !.used = Entry.used]]
  /\ UNCHANGED <<steps, stepId, toolCalls, sawUsage, task, lastUser>>

CodexEnd ==
  /\ Read("codex", "end")
  /\ Flush
  /\ UNCHANGED stepId /\ AnyUser

(* Copilot CLI events.                                                      *)
CopilotUser ==
  /\ Read("copilot", "user")
  /\ UserSays(Entry.text)
  /\ AnyUser

CopilotMessage ==
  /\ Read("copilot", "assistant")
  /\ pending' = <<Grown(Entry.text, Entry.calls)>>
  /\ Numbered /\ Called(Entry.calls)
  /\ UNCHANGED <<steps, prompt, sawUsage, task, lastUser>>

CopilotResult == Read("copilot", "result") /\ UNCHANGED parsed

CopilotEnd ==
  /\ Read("copilot", "end")
  /\ Flush
  /\ UNCHANGED stepId /\ AnyUser

(* Copilot's database: a row holds a message and its answer.                *)
CopilotTurn ==
  /\ Read("copilot_db", "turn")
  /\ LET said == Words(Entry.text)
         answer == Words(Entry.reply)
     IN  /\ steps' = steps \o [i \in 1..Len(said) |-> Step(stepId + 1, "user", said)]
                           \o [i \in 1..Len(answer) |->
                                 Step(stepId + Len(said) + 1, "agent", answer)]
         /\ stepId' = stepId + Len(said) + Len(answer)
  /\ UNCHANGED pending /\ AnyUser

(* Hermes: rows of messages; an answer without calls ends the step.         *)
HermesUser ==
  /\ Read("hermes", "user")
  /\ UserSays(Entry.text)
  /\ AnyUser

HermesAssistant ==
  /\ Read("hermes", "assistant")
  /\ LET step == Grown(Entry.text, Entry.calls) IN
     \/ /\ Entry.calls # <<>>
        /\ pending' = <<step>>
        /\ UNCHANGED steps
     \/ /\ Entry.calls = <<>>
        /\ steps' = Append(steps, Answered(step))
        /\ pending' = <<>>
  /\ Numbered /\ Called(Entry.calls)
  /\ UNCHANGED <<prompt, sawUsage, task, lastUser>>

HermesTool == Read("hermes", "result") /\ UNCHANGED parsed

(* agent_probe, the first generation: results have no ids, and are those of *)
(* the step in the making.                                                  *)
ProbeUser ==
  /\ Read("agent_probe", "user")
  /\ UserSays(Entry.text)
  /\ AnyUser

ProbeCall ==
  /\ Read("agent_probe", "call")
  /\ pending' = <<Grown(Blank, Entry.calls)>>
  /\ Numbered /\ Called(Entry.calls)
  /\ UNCHANGED <<steps, prompt, sawUsage, task, lastUser>>

ProbeResult ==
  /\ Read("agent_probe", "result")
  /\ pending' = [i \in DOMAIN pending |->
                   [pending[i] EXCEPT !.results = Append(@, Entry.id)]]
  /\ UNCHANGED <<steps, stepId, toolCalls, prompt, sawUsage, task, lastUser>>

ProbeAssistant ==
  /\ Read("agent_probe", "assistant")
  /\ steps' = Append(steps, [Growing EXCEPT !.words = Words(Entry.text)])
  /\ pending' = <<>>
  /\ Numbered /\ AnyUser

ProbeUsage ==
  /\ Read("agent_probe", "usage")
  /\ sawUsage' = TRUE
  /\ Spent(Entry.used)
  /\ UNCHANGED <<steps, pending, stepId, toolCalls, task, lastUser>>

(* agentknit, the second generation: wire messages.  A task is a step only  *)
(* if its turn has no message of the user's.                                *)
KnitTask ==
  /\ Read("agentknit", "task")
  /\ task' = IF Entry.text = Blank THEN task ELSE Entry.text
  /\ UNCHANGED <<steps, pending, stepId, toolCalls, prompt, sawUsage, lastUser>>

Unless(text, last) == IF text = last THEN Blank ELSE text

KnitUser ==
  /\ Read("agentknit", "user")
  /\ UserSays(Unless(Entry.text, lastUser))
  /\ lastUser' = IF Entry.text = Blank THEN lastUser ELSE Entry.text
  /\ task' = Blank
  /\ UNCHANGED <<toolCalls, prompt, sawUsage>>

BugKnitAssistant ==
  /\ Read("agentknit", "assistant")
  /\ LET id == stepId + 1
     IN  /\ steps' = Closed
         /\ pending' = <<[Step(id, "agent", Words(Entry.text)) EXCEPT !.calls = Entry.calls]>>
         /\ stepId' = id
  /\ Called(Entry.calls)
  /\ UNCHANGED <<prompt, sawUsage, task, lastUser>>
KnitAssistant ==
  /\ Read("agentknit", "assistant")
  /\ LET asked == Words(Unless(task, lastUser))
         id == stepId + Len(asked) + 1
     IN  /\ steps' = Closed \o [i \in 1..Len(asked) |-> Step(stepId + 1, "user", asked)]
         /\ pending' = <<[Step(id, "agent", Words(Entry.text)) EXCEPT !.calls = Entry.calls]>>
         /\ stepId' = id
         /\ lastUser' = IF asked = <<>> THEN lastUser ELSE task
  /\ task' = Blank
  /\ Called(Entry.calls)
  /\ UNCHANGED <<prompt, sawUsage>>

KnitTool ==
  /\ Read("agentknit", "result")
  /\ pending' = [i \in DOMAIN pending |->
                   [pending[i] EXCEPT !.results = Append(@, Entry.id)]]
  /\ UNCHANGED <<steps, stepId, toolCalls, prompt, sawUsage, task, lastUser>>

(* The output of codex exec.  An empty message is none; one of white space  *)
(* makes a step.                                                            *)
ExecPrompt ==
  /\ Read("exec", "user")
  /\ UserSays(Entry.text)
  /\ AnyUser

ExecMessage ==
  /\ Read("exec", "assistant")
  /\ \/ pending' = <<Grown(Entry.text, <<>>)>> /\ Numbered
     \/ Entry.text = Blank /\ UNCHANGED <<pending, stepId>>
  /\ UNCHANGED steps /\ AnyUser

ExecCommand ==
  /\ Read("exec", "ran")
  /\ LET output == IF Entry.id = 0 THEN <<>> ELSE <<Entry.id>>
     IN  pending' = <<[Grown(Blank, Entry.calls) EXCEPT !.results = @ \o output]>>
  /\ Numbered /\ Called(Entry.calls)
  /\ UNCHANGED <<steps, prompt, sawUsage, task, lastUser>>

ExecEnd ==
  /\ Read("exec", "end")
  /\ prompt' = IF Entry.used > prompt THEN Entry.used ELSE prompt
  /\ steps' = steps \o [i \in DOMAIN pending |-> [pending[i] EXCEPT !.used = Entry.used]]
  /\ pending' = <<>>
  /\ UNCHANGED <<stepId, toolCalls, sawUsage, task, lastUser>>

(* estimate_trajectory_tokens: each text, call and result weighs one.       *)
Weight(step) == Len(step.words) + Len(step.calls) + Len(step.results)
Estimate(trajectory) == Added([i \in DOMAIN trajectory |-> Weight(trajectory[i])])

(* The end of the file.                                                     *)
Close ==
  /\ phase = "reading" /\ pos > Len(log)
  /\ phase' = "done"
  /\ Flush
  /\ LET counted == IF agent = "hermes" THEN spent ELSE prompt
     IN  total' = IF counted > 0 \/ sawUsage THEN counted ELSE Estimate(Closed)
  /\ UNCHANGED <<file, pos, results, stepId, toolCalls, prompt, sawUsage, task, lastUser, earlier>>

(* The session goes on, and its file will be parsed again, by a parser that *)
(* knows nothing of this one.  What codex exec prints is read once.  Half   *)
(* lines that were passed over are passed over again: they are left out.    *)
Resume ==
  /\ phase = "done" /\ agent # "exec" /\ Len(log) < MaxLog
  /\ phase' = "writing"
  /\ heard' = log /\ before' = steps
  /\ pos' = 1 /\ results' = {}
  /\ steps' = <<>> /\ pending' = <<>> /\ stepId' = 0
  /\ toolCalls' = 0 /\ prompt' = 0 /\ sawUsage' = FALSE
  /\ task' = Blank /\ lastUser' = Blank
  /\ total' = 0
  /\ UNCHANGED file

-----------------------------------------------------------------------------
Init ==
  /\ agent \in Agents
  /\ log = <<>> /\ torn = FALSE
  /\ made = 0 /\ unanswered = {} /\ spent = 0
  /\ phase = "writing" /\ pos = 1 /\ results = {}
  /\ steps = <<>> /\ pending = <<>> /\ stepId = 0
  /\ toolCalls = 0 /\ prompt = 0 /\ sawUsage = FALSE
  /\ task = Blank /\ lastUser = Blank
  /\ total = 0
  /\ heard = <<>> /\ before = <<>>

Next ==
  \/ \E e \in Entries : Write(e)
  \/ Crash \/ Open \/ Close \/ Resume
  \/ ClaudeUser \/ ClaudeResult \/ ClaudeAssistant \/ ClaudeOther
  \/ CodexUser \/ CodexMessage \/ CodexCall \/ CodexResult \/ CodexUsage \/ CodexEnd
  \/ CopilotUser \/ CopilotMessage \/ CopilotResult \/ CopilotEnd \/ CopilotTurn
  \/ HermesUser \/ HermesAssistant \/ HermesTool
  \/ ProbeUser \/ ProbeCall \/ ProbeResult \/ ProbeAssistant \/ ProbeUsage
  \/ KnitTask \/ KnitUser \/ KnitAssistant \/ KnitTool
  \/ ExecPrompt \/ ExecMessage \/ ExecCommand \/ ExecEnd

Spec == Init /\ [][Next]_vars

(* Every variable has its type, and a parser's run ends with no step open.  *)
Steps == [id : Nat, source : {"user", "agent"}, words : Seq(Texts \cup Replies), calls : Seq(Calls),
          results : Seq(Calls), used : 0..1]

TypeOK ==
  /\ agent \in Agents /\ torn \in BOOLEAN
  /\ \A i \in DOMAIN log : log[i].kind \in Kinds[agent] \cup {"torn"}
  /\ made \in 0..MaxCalls /\ unanswered \subseteq Calls /\ spent \in Nat
  /\ phase \in {"writing", "reading", "done"} /\ pos \in 1..Len(log) + 1
  /\ results \subseteq Calls
  /\ steps \in Seq(Steps) /\ pending \in Seq(Steps) /\ Len(pending) <= 1
  /\ stepId \in Nat /\ toolCalls \in Nat /\ prompt \in Nat /\ total \in Nat
  /\ sawUsage \in BOOLEAN /\ task \in Says /\ lastUser \in Says
  /\ phase = "done" => pending = <<>>
  /\ IsPrefix(heard, log) /\ before \in Seq(Steps)

Shown == steps \o pending

(* The steps of a trajectory are numbered 1, 2, 3... in the order they are  *)
(* shown, whatever was closed, merged, blank or lost: a step is cited by    *)
(* its number in exports and in the search index.                           *)
StepsNumbered ==
  /\ \A i \in DOMAIN Shown : Shown[i].id = i
  /\ stepId = Len(Shown)

(* What was said in the lines read so far, by the format alone: the task of *)
(* a turn counts if no message of the user's follows it before the answer,  *)
(* and agentknit does not repeat a prompt that was the last one.            *)
Seen == SubSeq(log, 1, pos - 1)

AskedBy(i) ==
  \E j \in DOMAIN Seen :
    /\ j > i /\ Seen[j].kind = "assistant"
    /\ \A k \in i + 1..j - 1 :
         Seen[k].kind \notin {"user", "assistant"} /\ (Seen[k].kind = "task" => Seen[k].text = Blank)

Prompts == {i \in DOMAIN Seen :
  /\ Seen[i].text # Blank
  /\ Seen[i].kind \in {"user", "turn"} \/ (Seen[i].kind = "task" /\ AskedBy(i))}

Repeats(i) ==
  /\ agent = "agentknit"
  /\ \E j \in Prompts :
       /\ j < i /\ Seen[j].text = Seen[i].text
       /\ Prompts \cap j + 1..i - 1 = {}

Utterances(i) ==
  LET user == IF i \in Prompts /\ ~Repeats(i) THEN <<Seen[i].text>> ELSE <<>>
      reply == IF Seen[i].kind = "assistant" THEN Words(Seen[i].text) ELSE Words(Seen[i].reply)
  IN  [k \in DOMAIN user |-> <<"user", user[k]>>] \o [k \in DOMAIN reply |-> <<"agent", reply[k]>>]

Said == Joined([i \in DOMAIN Seen |-> Utterances(i)])

Voiced(step) == [k \in DOMAIN step.words |-> <<step.source, step.words[k]>>]

Told == Joined([i \in DOMAIN Shown |-> Voiced(Shown[i])])

AllCalls(records) == Joined([i \in DOMAIN records |-> records[i].calls])

(* After every line, the trajectory tells what was said and the calls made, *)
(* each once and in order, whether a parser merges entries into a step or   *)
(* holds a task back until it knows that nobody typed it; and it counts     *)
(* the calls it shows, and no less than the tokens of its steps.            *)
SpentWithinTotal ==
  phase = "done" => Added([i \in DOMAIN steps |-> steps[i].used]) <= total
NothingLost ==
  /\ Told = Said /\ SpentWithinTotal
  /\ AllCalls(Shown) = AllCalls(Seen)
  /\ toolCalls = Len(AllCalls(Seen))

(* A call shows its result, wherever in the file the result is, and a step  *)
(* shows no result of a call of another step.  The first generation of      *)
(* agent_probe does not say which call a result is of.                      *)
ResultsInLog == {log[i].id : i \in {j \in DOMAIN log : log[j].kind \in {"result", "ran"}}}

AnswersShown ==
  phase = "done" /\ agent # "agent_probe" =>
    \A i, j \in DOMAIN steps :
      /\ ToSet(steps[i].calls) \cap ResultsInLog = ToSet(steps[i].calls) \cap ToSet(steps[i].results)
      /\ i # j => ToSet(steps[i].results) \cap ToSet(steps[j].calls) = {}

(* An agent that goes on with its session only adds to what was shown of it *)
(* by an earlier parse: every step is there again, with its number; but for *)
(* the last of them it says and calls what it did, and the last goes on     *)
(* with what it said; the results that a step shows are still shown, late   *)
(* ones with them.                                                          *)
Extends(new, old) ==
  /\ new.id = old.id /\ new.source = old.source
  /\ IsPrefix(old.words, new.words) /\ IsPrefix(old.calls, new.calls)
  /\ ToSet(old.results) \subseteq ToSet(new.results)

Settled(new, old) == [new EXCEPT !.results = old.results] = old

StepsOnlyGrow ==
  phase = "done" =>
    /\ Len(before) <= Len(steps)
    /\ \A i \in DOMAIN before :
         /\ Extends(steps[i], before[i])
         /\ i < Len(before) => Settled(steps[i], before[i])
=============================================================================
