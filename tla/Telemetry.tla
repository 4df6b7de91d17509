----------------------------- MODULE Telemetry ------------------------------
(***************************************************************************)
(* src/harness/adapters: what an agent wrote, as trajectory steps,         *)
(* reasoning entries and telemetry. Operators of a log or a span export;   *)
(* the sets named ...Cases are the inputs they are checked on.             *)
(***************************************************************************)
EXTENDS Integers, Sequences, SequencesExt, FiniteSets, FiniteSetsExt

CONSTANTS Null,     \* null: not measured, absent
          Refused   \* SpanMappingError, GenericLogError: the trial fails

(***************************************************************************)
(* otlp.py. A span has an id and a parent (0 when missing), a start time,  *)
(* and the whitelisted attributes: op, tool, command, test and exit say    *)
(* what it did, `in` and `out` are token halves, `agent` is a role, Null   *)
(* or outside the closed vocabulary. `model` stands for every other gen_ai *)
(* attribute: it selects a span and is dropped.                            *)
(***************************************************************************)
Roles         == {"planner"}
FileEditTools == {"Edit"}
TestCommands  == {"pytest"}
LlmOperations == {"chat"}

Selected(span) ==
  \E k \in {"op", "tool", "command", "test", "exit", "agent", "in", "out", "reasoning", "model"} :
    span[k] # Null

RefineTool(span) ==
  IF span.test = TRUE \/ span.command \in TestCommands THEN "test_run"
  ELSE IF span.tool \in FileEditTools THEN "file_edit" ELSE "tool_call"
HasTool(span) == span.op = "execute_tool" \/ span.tool # Null
HasVerdiExec(span) == span.test # Null \/ span.command # Null \/ span.exit # Null
Kind(span) ==
  IF HasTool(span) THEN RefineTool(span)
  ELSE IF span.op \in LlmOperations THEN "message"
  ELSE IF HasVerdiExec(span) THEN RefineTool(span) ELSE Null
IsStep(span) == Kind(span) # Null

Tokens(span) == IF span.in = Null \/ span.out = Null THEN Null ELSE span.in + span.out
AgentLies(span) == span.agent # Null /\ span.agent \notin Roles

(* _ordered_selected: stable, by start and then span id.                   *)
OrderedSelected(export) ==
  LET chosen == {i \in DOMAIN export : Selected(export[i])}
      Before(i, j) == \/ export[i].start < export[j].start
                      \/ /\ export[i].start = export[j].start
                         /\ \/ export[i].id < export[j].id
                            \/ export[i].id = export[j].id /\ i < j
      order == SetToSortSeq(chosen, Before)
  IN  [k \in DOMAIN order |-> export[order[k]]]

RelativeTs(sel, span) == span.start - sel[1].start

(* normalize_trajectory: the steps, Null for none, or the trial fails.     *)
Steps(export) ==
  LET sel == OrderedSelected(export)
      acts == SelectSeq(sel, IsStep)
  IN  IF \E i \in DOMAIN acts : AgentLies(acts[i]) THEN Refused
      ELSE IF acts = <<>> THEN Null
      ELSE [i \in DOMAIN acts |->
             [kind |-> Kind(acts[i]), relative_ts |-> RelativeTs(sel, acts[i]),
              tokens |-> Tokens(acts[i]), agent |-> acts[i].agent,
              exit_code |-> IF Kind(acts[i]) \in {"test_run", "tool_call"} THEN acts[i].exit ELSE Null,
              command |-> IF Kind(acts[i]) = "message" THEN "" ELSE acts[i].command]]

(* _step_index: the later of two spans of one id takes it over.            *)
StepIndex(sel, id) ==
  LET last == Max({i \in DOMAIN sel : sel[i].id = id /\ IsStep(sel[i])})
  IN  Cardinality({i \in 1..(last - 1) : IsStep(sel[i])})
StepIds(sel) == {sel[i].id : i \in {j \in DOMAIN sel : IsStep(sel[j]) /\ sel[j].id # 0}}
ParentOf(sel, id) ==
  LET named == {i \in DOMAIN sel : sel[i].id = id}
  IN  IF id = 0 \/ named = {} THEN 0 ELSE sel[Max(named)].parent

(* _nearest_ancestor_step: up the parents until a step, a span that is not *)
(* there, or one seen before.                                              *)
NearestAncestorStep(sel, span) ==
  LET up[n \in 0..Len(sel)] == IF n = 0 THEN span.parent ELSE ParentOf(sel, up[n - 1])
      hits == {n \in 0..Len(sel) : up[n] \in StepIds(sel)}
  IN  IF hits = {} THEN Null ELSE StepIndex(sel, up[Min(hits)])

Reasoning(export) ==
  LET sel == OrderedSelected(export)
      thoughts == SelectSeq(sel, LAMBDA s : s.reasoning # Null)
  IN  IF \E i \in DOMAIN thoughts : AgentLies(thoughts[i]) THEN Refused
      ELSE IF thoughts = <<>> THEN Null
      ELSE [i \in DOMAIN thoughts |->
             [content |-> thoughts[i].reasoning, tokens |-> Tokens(thoughts[i]),
              agent |-> thoughts[i].agent, relative_ts |-> RelativeTs(sel, thoughts[i]),
              turn |-> NearestAncestorStep(sel, thoughts[i])]]

-----------------------------------------------------------------------------
(***************************************************************************)
(* claude_code.py: a message stream is a sequence of content blocks; a     *)
(* block's text stands for itself as its position, or Null. A tool_result  *)
(* goes to the last tool_use of its id, unless that has its detail.        *)
(***************************************************************************)
Block(type, name, id, text) == [type |-> type, name |-> name, id |-> id, text |-> text]
ClaudeStep(blocks, i) ==
  LET b == blocks[i]
      edit == b.name \in FileEditTools
      text == IF b.text = Null THEN Null ELSE i
  IN  IF b.type = "text" THEN [kind |-> "message", command |-> "", detail |-> text, use |-> 0]
      ELSE [kind |-> IF edit THEN "file_edit" ELSE "tool_call",
            command |-> IF b.name = "Bash" THEN text ELSE "",
            detail |-> IF edit THEN text ELSE Null, use |-> b.id]
ClaudeBlock(acc, blocks, i) ==
  LET b == blocks[i]
      owners == {k \in DOMAIN acc : acc[k].use = b.id /\ b.id # 0}
  IN  IF b.type # "tool_result" THEN Append(acc, ClaudeStep(blocks, i))
      ELSE IF owners = {} \/ acc[Max(owners)].detail # Null THEN acc
      ELSE [acc EXCEPT ![Max(owners)].detail = IF b.text = Null THEN Null ELSE i]
ClaudeSteps(blocks) ==
  FoldLeft(LAMBDA acc, i : ClaudeBlock(acc, blocks, i), <<>>, [i \in DOMAIN blocks |-> i])

(* codex.py: events are labelled, timed and independent of each other.     *)
CodexSteps(events) ==
  LET known == SelectSeq(events, LAMBDA e : e.type \in {"message", "patch", "exec"})
  IN  [i \in DOMAIN known |->
        [kind |-> CASE known[i].type = "message" -> "message"
                    [] known[i].type = "patch" -> "file_edit"
                    [] known[i].type = "exec" ->
                         IF known[i].parsed_cmd = "test" THEN "test_run" ELSE "tool_call",
         command |-> IF known[i].type = "exec" THEN known[i].cmd ELSE ""]]

-----------------------------------------------------------------------------
(***************************************************************************)
(* generic.py. A log is the version it declares (Null for none), its top-  *)
(* level keys, those of its blocks that are malformed, and the models its  *)
(* by-model block names.                                                   *)
(***************************************************************************)
TopLevelKeys(v) ==
  {"telemetry", "trajectory", "reasoning"} \cup IF v = 2 THEN {"telemetry_by_model"} ELSE {}
DeclaredVersion(log) ==
  IF log.version = Null THEN Null
  ELSE IF log.version \notin {1, 2} \/ ~(log.keys \subseteq TopLevelKeys(log.version))
  THEN Refused ELSE log.version

GenericBlock(log, key) ==
  CASE DeclaredVersion(log) \in {Null, Refused} -> DeclaredVersion(log)
    [] DeclaredVersion(log) \in {1, 2} ->
         IF key \notin log.keys THEN Null
         ELSE IF key \in log.malformed THEN Refused ELSE "parsed"
NormalizeGenericByModel(log, declared) ==
  IF DeclaredVersion(log) # 2
  THEN IF DeclaredVersion(log) = 1 THEN Null ELSE DeclaredVersion(log)
  ELSE IF "telemetry_by_model" \in log.keys /\ ~(log.models \subseteq declared)
  THEN Refused ELSE GenericBlock(log, "telemetry_by_model")

(* by_model_delta of one field: nulls stay out of the arithmetic.          *)
ByModelDelta(parts, total) ==
  LET measured == {m \in DOMAIN parts : parts[m] # Null}
  IN  IF total = Null \/ measured = {} THEN Null
      ELSE LET d == MapThenSumSet(LAMBDA m : parts[m], measured) - total
           IN  IF d = 0 THEN Null ELSE d

(* base.py Adapter and the registered platforms.                           *)
Platforms ==
  [generic     |-> [speaks |-> TRUE,  overrides |-> {}],
   claude_code |-> [speaks |-> FALSE, overrides |-> {"telemetry", "trajectory"}],
   codex       |-> [speaks |-> FALSE, overrides |-> {"telemetry", "trajectory"}],
   otlp        |-> [speaks |-> FALSE, overrides |-> {"telemetry", "trajectory", "reasoning"}]]
NormalizeReasoning(platform, log) ==
  IF ~Platforms[platform].speaks THEN Null ELSE GenericBlock(log, "reasoning")
Normalize(platform, key, log) ==
  IF key \in Platforms[platform].overrides THEN "native"
  ELSE IF key = "reasoning" THEN NormalizeReasoning(platform, log) ELSE GenericBlock(log, key)

(* run_trial: what it asks of the adapter for an outcome, and gets.        *)
AdapterResults(platform, log, outcome) ==
  {Normalize(platform, "telemetry", log)}
  \cup (IF outcome = "infra_failed" THEN {}
        ELSE {Normalize(platform, k, log) : k \in {"trajectory", "reasoning"}}
             \cup IF Platforms[platform].speaks THEN {NormalizeGenericByModel(log, {"declared"})}
                  ELSE {})

-----------------------------------------------------------------------------
(* The cases. Two to three spans that may be each other's parents; streams *)
(* of four blocks; every log.                                              *)
Bare == [op |-> Null, tool |-> Null, command |-> Null, test |-> Null, exit |-> Null,
         agent |-> Null, in |-> Null, out |-> Null, reasoning |-> Null, model |-> Null]
Attributes ==
  {Bare, [Bare EXCEPT !.model = "m"], [Bare EXCEPT !.reasoning = "why"],
   [Bare EXCEPT !.op = "chat", !.in = 2, !.out = 1, !.reasoning = "why"],
   [Bare EXCEPT !.tool = "Edit", !.agent = "planner", !.in = 2],
   [Bare EXCEPT !.command = "pytest", !.exit = 1, !.agent = "gpt"]}
Span(id, parent, start, a) == [id |-> id, parent |-> parent, start |-> start] @@ a
SpanCases ==
  {<<Span(1, p[1], 1, a), Span(i, p[2], s, b), Span(3, p[3], 2, c)>> :
     p \in {<<0, 1, 2>>, <<2, 1, 1>>, <<3, 3, 3>>, <<2, 3, 9>>}, i \in {0, 1, 2}, s \in 1..3,
     a \in Attributes, b \in Attributes, c \in Attributes}
Blocks == {Block("text", Null, 0, "t")}
  \cup [type : {"tool_use"}, name : {"Edit", "Bash"}, id : {1, 2}, text : {"t"}]
  \cup [type : {"tool_result"}, name : {Null}, id : 0..2, text : {"t", Null}]
StreamCases == [1..4 -> Blocks]
LogCases ==
  [version : {Null, 1, 2, 3}, keys : SUBSET {"telemetry", "trajectory", "reasoning",
                                             "telemetry_by_model", "telemetrie"},
   malformed : SUBSET {"telemetry", "trajectory", "reasoning", "telemetry_by_model"},
   models : SUBSET {"declared", "other"}]

(***************************************************************************)
(* otlp.py: "a shuffled batch order yields byte-identical output" (given   *)
(* that no two spans share start and id), and a thought's turn is the step *)
(* of its nearest acting ancestor, counted as the trajectory counts.       *)
(***************************************************************************)
Ambiguous(export) ==
  \E i, j \in DOMAIN export : i < j /\ export[i].start = export[j].start /\ export[i].id = export[j].id
Shuffles(export) == {[i \in DOMAIN export |-> export[p[i]]] : p \in Permutations(DOMAIN export)}
UniqueIds(sel) == \A i, j \in DOMAIN sel : i # j => sel[i].id # sel[j].id /\ sel[i].id # 0
Below(sel, i, j) == sel[i].parent = sel[j].id
TurnOf(sel, i) ==   \* by paths instead of a walk
  {p[Len(p)] : p \in {q \in UNION {[1..n -> DOMAIN sel] : n \in 1..Len(sel)} :
     /\ Below(sel, i, q[1])
     /\ \A k \in 1..(Len(q) - 1) : Below(sel, q[k], q[k + 1]) /\ ~IsStep(sel[q[k]])
     /\ IsStep(sel[q[Len(q)]])}}
SpansSound(export) ==
  LET sel == OrderedSelected(export)
      thinking == SelectSeq([i \in DOMAIN sel |-> i], LAMBDA i : sel[i].reasoning # Null)
      acting == SelectSeq([i \in DOMAIN sel |-> i], LAMBDA i : IsStep(sel[i]))
  IN  /\ Ambiguous(export) \/ \A s \in Shuffles(export) :
           Steps(s) = Steps(export) /\ Reasoning(s) = Reasoning(export)
      /\ UniqueIds(sel) /\ Reasoning(export) \notin {Null, Refused} =>
           \A k \in DOMAIN thinking :
             LET turn == Reasoning(export)[k].turn IN
             IF turn = Null THEN TurnOf(sel, thinking[k]) = {}
             ELSE /\ turn + 1 \in DOMAIN acting
                  /\ TurnOf(sel, thinking[k]) = {acting[turn + 1]}

(* claude_code.py EVAL-14-D004: a tool call's detail is "the paired        *)
(* tool_result content", read from a result of its own id that came after. *)
StreamSound(blocks) ==
  \A k \in DOMAIN ClaudeSteps(blocks) :
    LET s == ClaudeSteps(blocks)[k] IN
    s.kind = "tool_call" /\ s.detail # Null =>
      /\ blocks[s.detail].type = "tool_result" /\ blocks[s.detail].id = s.use
      /\ \E u \in 1..(s.detail - 1) :
           /\ blocks[u].type = "tool_use" /\ blocks[u].id = s.use /\ blocks[u].name \notin FileEditTools
           /\ \A v \in (u + 1)..(s.detail - 1) :
                ~(blocks[v].id = s.use /\ (blocks[v].type = "tool_use" \/ blocks[v].text # Null))

(***************************************************************************)
(* generic.py: a log that declares the format and violates it anywhere     *)
(* fails its trial, never laundering a typo into an absence; base.py: to   *)
(* a platform that never claimed the format, its keys are inert.           *)
(***************************************************************************)
Violates(log) ==
  log.version # Null /\ (\/ DeclaredVersion(log) = Refused
                         \/ log.malformed \cap log.keys # {}
                         \/ "telemetry_by_model" \in log.keys /\ ~(log.models \subseteq {"declared"}))
LogSound(log) ==
  /\ \A o \in {"completed", "timeout"} :
       (Refused \in AdapterResults("generic", log, o)) <=> Violates(log)
  /\ \A p \in {"claude_code", "codex", "otlp"}, o \in {"completed", "timeout", "infra_failed"} :
       AdapterResults(p, log, o) \subseteq {"native", Null}
=============================================================================
