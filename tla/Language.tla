------------------------------ MODULE Language ------------------------------
(***************************************************************************)
(* A declaration on its way through the toolchain: the author edits it,    *)
(* `agentspec fmt` (cmd/agentspec/fmt.go) rewrites the file, the next      *)
(* command parses what is on disk and lowers it for the plan.              *)
(*                                                                         *)
(* ast is the declaration the author's source parses to and prev what it   *)
(* was before the last edit; text is the formatted file; back and errs are *)
(* what the next command's parser makes of it.  The file is written in     *)
(* place, so a crash may leave a prefix of it, cut here between tokens.     *)
(***************************************************************************)
EXTENDS Parser

CONSTANTS Offered,    \* kind -> the edits an author may make: fields and their new values
          MaxEdits    \* bound on the edits of one declaration

VARIABLES ast, prev, text, back, errs, step, edits
vars == <<ast, prev, text, back, errs, step, edits>>

-----------------------------------------------------------------------------
(* The canonical formatter (internal/formatter/formatter.go), from the syntax tree of
   Parser to the tokens its text is read back as.  A line prints a keyword and a value
   when the source prints it, and nothing for a zero value. *)


LOCAL Each(seq, F(_)) == FlattenSeq([i \in 1 .. Len(seq) |-> F(seq[i])])
LOCAL Commas(seq, F(_)) ==
  FlattenSeq([i \in 1 .. Len(seq) |-> (IF i > 1 THEN Mark(",") ELSE <<>>) \o F(seq[i])])
LOCAL When(cond, toks) == IF cond THEN toks ELSE <<>>
LOCAL Braces(body) == Mark("{") \o NL \o body \o Mark("}") \o NL

Line(kw, v)    == When(v # "", Word(kw) \o Quoted(v) \o NL)
IntLine(kw, v) == When(v \notin {"0", "-1"}, Word(kw) \o Number(v) \o NL)
Flag(kw, v)    == When(v = "true", Word(kw) \o Word("true") \o NL)
ListOf(vs)     == Mark("[") \o Commas(vs, Quoted) \o Mark("]")
ListLine(kw, vs) == When(vs # <<>>, Word(kw) \o ListOf(vs) \o NL)

\* sortedKeys fixes the order; a key is printed bare, its value quoted.
sortedKeys(m) == SetToSeq(DOMAIN m)
Entries(m)    == Each(sortedKeys(m), LAMBDA k : Bare(k) \o Quoted(m[k]) \o NL)
MapBlock(kw, m) == When(DOMAIN m # {}, Word(kw) \o Braces(Entries(m)))
formatMetadata(m) == MapBlock("metadata", m)

formatPackage(p) ==
  Word("package") \o Quoted(p.Name)
    \o When(p.Version # "", Word("version") \o Quoted(p.Version))
    \o When(p.LangVersion # "", Word("lang") \o Quoted(p.LangVersion)) \o NL

formatVariables(vs) ==
  Each(vs, LAMBDA v : Bare(v.Name) \o Bare(v.Type) \o When(v.Required = "true", Word("required"))
                        \o When(v.Default # "", Word("default") \o Quoted(v.Default)) \o NL)
formatFields(kw, fs) ==
  When(fs # <<>>, Word(kw) \o Braces(
    Each(fs, LAMBDA f : Bare(f.Name) \o Bare(f.Type)
                          \o When(f.Required = "true", Word("required")) \o NL)))

formatPrompt(p) ==
  Word("prompt") \o Quoted(p.Name) \o Braces(
    Line("content", p.Content) \o Line("version", p.Version)
      \o When(p.Variables # <<>>, Word("variables") \o Braces(formatVariables(p.Variables)))
      \o formatMetadata(p.Metadata))

formatToolConfig(t) ==
  Word("tool") \o Word(t.Type) \o
  CASE t.Type = "mcp"     -> Quoted(t.ServerTool) \o NL
    [] t.Type = "http"    -> Braces(
         Line("method", t.Method) \o Line("url", t.URL) \o MapBlock("headers", t.Headers)
           \o Line("body_template", t.BodyTemplate) \o Line("timeout", t.Timeout))
    [] t.Type = "command" -> Braces(
         Line("binary", t.Binary) \o ListLine("args", t.Args) \o Line("timeout", t.Timeout)
           \o MapBlock("env", t.Env) \o MapBlock("secrets", t.Secrets))
    [] t.Type = "inline"  -> Braces(
         Line("language", t.Language) \o Line("code", t.Code) \o Line("timeout", t.Timeout)
           \o Line("memory", t.MemoryLimit))

formatSkill(s) ==
  Word("skill") \o Quoted(s.Name) \o Braces(
    Line("description", s.Description) \o formatFields("input", s.Input)
      \o formatFields("output", s.Output)
      \o Each(s.Execution, LAMBDA e : Word("execution") \o Bare(e.Type) \o Quoted(e.Value) \o NL)
      \o Each(s.ToolConfig, formatToolConfig) \o formatMetadata(s.Metadata))

formatConfigBlock(ps) ==
  Word("config") \o Braces(
    Each(ps, LAMBDA p : Bare(p.Name) \o Bare(p.Type) \o When(p.Required = "true", Word("required"))
                          \o When(p.Secret = "true", Word("secret"))
                          \o Each(p.Default, LAMBDA d : Word("default") \o Quoted(d)) \o NL
                          \o When(p.Description # "", Quoted(p.Description) \o NL)))

formatValidateBlock(rs) ==
  Word("validate") \o Braces(
    Each(rs, LAMBDA r : Word("rule") \o Bare(r.Name) \o Bare(r.Severity)
                          \o When(r.MaxRetries \notin {"0", "-1"},
                                  Word("max_retries") \o Number(r.MaxRetries)) \o NL
                          \o When(r.Message # "", Quoted(r.Message) \o NL)
                          \o When(r.Expression # "", Word("when") \o Bare(r.Expression) \o NL)))

formatEvalBlock(cs) ==
  Word("eval") \o Braces(
    Each(cs, LAMBDA c : Word("case") \o Bare(c.Name) \o NL \o Word("input") \o Quoted(c.Input) \o NL
                          \o Word("expect") \o Quoted(c.Expected) \o NL
                          \o When(c.Scoring # "", Word("scoring") \o Bare(c.Scoring)
                               \o When(c.Threshold # "0.8", Word("threshold") \o Float(c.Threshold))
                               \o NL)
                          \o ListLine("tags", c.Tags)))

RECURSIVE formatOnInputStmt(_)
formatStmts(ss) == Each(ss, formatOnInputStmt)
formatIfBlock(s) ==
  Word("if") \o Bare(s.expr) \o Mark("{") \o NL \o formatStmts(s.body) \o Mark("}")
    \o Each(s.elifs, LAMBDA e : Word("else") \o Word("if") \o Bare(e.expr) \o Mark("{") \o NL
                                  \o formatStmts(e.body) \o Mark("}"))
    \o When(s.els # <<>>, Word("else") \o Mark("{") \o NL \o formatStmts(s.els) \o Mark("}")) \o NL
formatForEachBlock(s) ==
  Word("for") \o Word("each") \o Bare(s.name) \o Word("in") \o Bare(s.expr)
    \o Braces(formatStmts(s.body))
formatOnInputStmt(s) ==
  CASE s.s = "use"      -> Word("use") \o Word("skill") \o Bare(s.name)
         \o When(DOMAIN s.params # {}, Word("with") \o Mark("{")
              \o Commas(sortedKeys(s.params), LAMBDA k : Bare(k) \o Mark(":") \o Bare(s.params[k]))
              \o Mark("}")) \o NL
    [] s.s = "delegate" -> Word("delegate") \o Word("to") \o Bare(s.name) \o NL
    [] s.s = "respond"  -> Word("respond") \o Quoted(s.expr) \o NL
    [] s.s = "if"       -> formatIfBlock(s)
    [] s.s = "for"      -> formatForEachBlock(s)
formatOnInputBlock(ss) == Word("on") \o Word("input") \o Braces(formatStmts(ss))

formatAgent(a) ==
  Word("agent") \o Quoted(a.Name) \o Braces(FlattenSeq(<<
    Each(a.Prompt, LAMBDA v : Word("uses") \o Word("prompt") \o Quoted(v) \o NL),
    Each(a.Skills, LAMBDA v : Word("uses") \o Word("skill") \o Quoted(v) \o NL),
    Line("model", a.Model), ListLine("models", a.Models),
    When(a.BudgetDaily \notin {"0", "-1"},
         Word("budget") \o Word("daily") \o Float(a.BudgetDaily) \o NL),
    When(a.BudgetMonthly \notin {"0", "-1"},
         Word("budget") \o Word("monthly") \o Float(a.BudgetMonthly) \o NL),
    Each(a.GuardrailRefs, LAMBDA v : Word("uses") \o Word("guardrail") \o Quoted(v) \o NL),
    Each(a.Client, LAMBDA v : Word("connects") \o Word("to") \o Word("client") \o Quoted(v) \o NL),
    Line("strategy", a.Strategy), IntLine("max_turns", a.MaxTurns), Line("timeout", a.Timeout),
    IntLine("token_budget", a.TokenBudget),
    Each(a.Temperature, LAMBDA v : Word("temperature") \o Float(v) \o NL),
    Each(a.Stream, LAMBDA v : Word("stream") \o Word(v) \o NL),
    Line("on_error", a.OnError), IntLine("max_retries", a.MaxRetries),
    Line("fallback", a.Fallback),
    Each(a.MemoryCfg, LAMBDA m : Word("memory") \o Braces(
           Line("strategy", m.Strategy) \o IntLine("max_messages", m.MaxMessages))),
    Each(a.Delegates, LAMBDA d : Word("delegate") \o Word("to") \o Word("agent")
           \o Quoted(d.AgentRef) \o Word("when") \o Quoted(d.Condition) \o NL),
    When(a.ConfigParams # <<>>, formatConfigBlock(a.ConfigParams)),
    When(a.ValidationRules # <<>>, formatValidateBlock(a.ValidationRules)),
    When(a.EvalCases # <<>>, formatEvalBlock(a.EvalCases)),
    Each(a.OnInput, formatOnInputBlock), formatMetadata(a.Metadata)>>))

formatBinding(b) ==
  Word("binding") \o Quoted(b.Name) \o When(b.Adapter # "", Word("adapter") \o Quoted(b.Adapter))
    \o Braces(Flag("default", b.Default) \o Entries(b.Config))

formatSecret(s) ==
  Word("secret") \o Quoted(s.Name) \o Braces(
    When(s.Source # "", Word(s.Source) \o Mark("(") \o Bare(s.Key) \o Mark(")") \o NL))

\* The overrides of one resource are printed together, where it came first.
formatEnvironment(e) ==
  LET first(i)  == \A j \in 1 .. i - 1 : e.Overrides[j].Resource # e.Overrides[i].Resource
      order     == SelectSeq([i \in 1 .. Len(e.Overrides) |-> i], first)
      Group(i)  == SelectSeq(e.Overrides, LAMBDA o : o.Resource = e.Overrides[i].Resource)
      Override(o) == Bare(o.Attribute) \o Quoted(o.Value) \o NL
  IN  Word("environment") \o Quoted(e.Name) \o Braces(
        Each(order, LAMBDA i : Bare(e.Overrides[i].Resource[1]) \o Quoted(e.Overrides[i].Resource[2])
                                 \o Braces(Each(Group(i), Override))))

formatPolicy(p) ==
  Word("policy") \o Quoted(p.Name) \o Braces(
    Each(p.Rules, LAMBDA r : Word(r.Action) \o Bare(r.Resource) \o Each(r.Subject, Bare) \o NL))

formatPlugin(p) ==
  Word("plugin") \o Quoted(p.Name) \o When(p.Version # "", Word("version") \o Quoted(p.Version)) \o NL

formatMCPServer(s) ==
  Word("server") \o Quoted(s.Name) \o Braces(FlattenSeq(<<
    Line("transport", s.Transport), Line("command", s.Command), ListLine("args", s.Args),
    Line("url", s.URL), Each(s.Auth, LAMBDA v : Word("auth") \o Quoted(v) \o NL),
    Each(s.Skills, LAMBDA v : Word("exposes") \o Word("skill") \o Quoted(v) \o NL),
    MapBlock("env", s.Env), formatMetadata(s.Metadata)>>))

formatMCPClient(c) ==
  Word("client") \o Quoted(c.Name) \o Braces(
    Each(c.Servers, LAMBDA v : Word("connects") \o Word("to") \o Word("server") \o Quoted(v) \o NL)
      \o formatMetadata(c.Metadata))

formatDeployTarget(d) ==
  Word("deploy") \o Quoted(d.Name) \o Word("target") \o Quoted(d.Target) \o Braces(FlattenSeq(<<
    IntLine("port", d.Port), Flag("default", d.Default), Line("namespace", d.Namespace),
    IntLine("replicas", d.Replicas), Line("image", d.Image),
    Each(d.Resources, LAMBDA r : Word("resources") \o Braces(
           Line("cpu", r.CPU) \o Line("memory", r.Memory))),
    Each(d.Health, LAMBDA h : Word("health") \o Braces(
           Line("path", h.Path) \o Line("interval", h.Interval) \o Line("timeout", h.Timeout))),
    Each(d.Autoscale, LAMBDA a : Word("autoscale") \o Braces(
           IntLine("min", a.MinReplicas) \o IntLine("max", a.MaxReplicas)
             \o Line("metric", a.Metric) \o IntLine("target", a.Target))),
    MapBlock("env", d.Env), MapBlock("secrets", d.Secrets)>>))

\* Variant: every type is printed as a record.
formatTypeDefFields(t) ==
  Word("type") \o Quoted(t.Name) \o Braces(formatVariables(t.Fields))

formatTypeDef(t) ==
  Word("type") \o Quoted(t.Name) \o
  CASE t.EnumVals # <<>> -> Word("enum") \o ListOf(t.EnumVals) \o NL
    [] t.EnumVals = <<>> /\ t.ListOf # "" -> Word("list") \o Bare(t.ListOf) \o NL
    [] OTHER             -> Braces(formatVariables(t.Fields))

formatPipeline(p) ==
  Word("pipeline") \o Quoted(p.Name) \o Braces(
    Each(p.Steps, LAMBDA s : Word("step") \o Quoted(s.Name) \o Braces(
      Line("agent", s.Agent) \o Line("input", s.Input) \o Line("output", s.Output)
        \o ListLine("depends_on", s.DependsOn) \o Flag("parallel", s.Parallel)
        \o Line("when", s.When))))

formatImport(i) ==
  Word("import") \o Quoted(i.Path) \o When(i.Version # "", Word("version") \o Quoted(i.Version))
    \o When(i.Alias # "", Word("as") \o Bare(i.Alias)) \o NL

formatUser(u) ==
  Word("user") \o Quoted(u.Name) \o Braces(
    When(u.KeyRef # "", Word("key") \o Word("secret") \o Mark("(") \o Quoted(u.KeyRef) \o Mark(")") \o NL)
      \o ListLine("agents", u.Agents) \o Line("role", u.Role))

formatGuardrail(g) ==
  Word("guardrail") \o Quoted(g.Name) \o Braces(
    Line("mode", g.Mode) \o ListLine("keywords", g.Keywords) \o ListLine("patterns", g.Patterns)
      \o Line("fallback", g.FallbackMsg))

formatStateConfig(s) ==
  Word("state") \o When(s.Name # "", Quoted(s.Name)) \o Braces(
    Word("type") \o Quoted(s.Type) \o NL \o Entries(s.Properties))

formatStatement(d) ==
  CASE d.kind = "Prompt"       -> formatPrompt(d)
    [] d.kind = "Skill"        -> formatSkill(d)
    [] d.kind = "Agent"        -> formatAgent(d)
    [] d.kind = "Binding"      -> formatBinding(d)
    [] d.kind = "Secret"       -> formatSecret(d)
    [] d.kind = "Environment"  -> formatEnvironment(d)
    [] d.kind = "Policy"       -> formatPolicy(d)
    [] d.kind = "Plugin"       -> formatPlugin(d)
    [] d.kind = "MCPServer"    -> formatMCPServer(d)
    [] d.kind = "MCPClient"    -> formatMCPClient(d)
    [] d.kind = "DeployTarget" -> formatDeployTarget(d)
    [] d.kind = "TypeDef"      -> formatTypeDef(d)
    [] d.kind = "Pipeline"     -> formatPipeline(d)
    [] d.kind = "Import"       -> formatImport(d)
    [] d.kind = "User"         -> formatUser(d)
    [] d.kind = "Guardrail"    -> formatGuardrail(d)
    [] d.kind = "StateConfig"  -> formatStateConfig(d)

Format(f) == formatPackage(f.Package) \o Each(f.Statements, LAMBDA d : NL \o formatStatement(d))

-----------------------------------------------------------------------------
(* The toolchain *)

Empty(kind) ==
  CASE kind = "Prompt" -> Prompt           [] kind = "Skill" -> Skill
    [] kind = "Agent" -> Agent             [] kind = "Binding" -> Binding
    [] kind = "Secret" -> Secret           [] kind = "Environment" -> Environment
    [] kind = "Policy" -> Policy           [] kind = "Plugin" -> Plugin
    [] kind = "MCPServer" -> MCPServer     [] kind = "MCPClient" -> MCPClient
    [] kind = "DeployTarget" -> DeployTarget [] kind = "TypeDef" -> TypeDef
    [] kind = "Pipeline" -> Pipeline       [] kind = "Import" -> Import
    [] kind = "User" -> User               [] kind = "Guardrail" -> Guardrail
    [] kind = "StateConfig" -> StateConfig

File(d) == [Package |-> [Name |-> "x", Version |-> "x", LangVersion |-> "x"], Statements |-> <<d>>]

Init ==
  /\ \E kind \in DOMAIN Offered : ast = Empty(kind)
  /\ prev = ast /\ text = <<>> /\ back = <<>> /\ errs = 0
  /\ step = "edited" /\ edits = 0

Edit ==
  /\ step = "edited" /\ edits < MaxEdits
  /\ \E e \in Offered[ast.kind] : e @@ ast # ast /\ ast' = e @@ ast
  /\ prev' = ast /\ edits' = edits + 1
  /\ UNCHANGED <<text, back, errs, step>>

\* formatFile: the file parsed without errors; the text replaces it.
formatFile ==
  /\ step = "edited"
  /\ text' = Format(File(ast)) /\ step' = "written"
  /\ UNCHANGED <<ast, prev, back, errs, edits>>

\* os.WriteFile truncates the file before it writes: a crash leaves a prefix.
Cut ==
  /\ step = "written" /\ edits < MaxEdits
  /\ \E n \in 0 .. Len(text) - 1 : text' = SubSeq(text, 1, n)
  /\ step' = "cut"
  /\ UNCHANGED <<ast, prev, back, errs, edits>>

Read ==
  /\ step \in {"written", "cut"}
  /\ \E r \in {Parse(text)} : back' = r.is.Statements /\ errs' = r.errs
  /\ step' = IF step = "cut" THEN "read cut" ELSE "read"
  /\ UNCHANGED <<ast, prev, text, edits>>

Next == Edit \/ formatFile \/ Cut \/ Read
Spec == Init /\ [][Next]_vars

----------------------------------------------------------------------------
\* Overrides of different resources may change places: the last of an attribute wins.
Overridden(overrides) ==
  FoldLeft(LAMBDA attrs, o : (<<o.Resource, o.Attribute>> :> o.Value) @@ attrs, <<>>, overrides)
Same(a, b) ==
  IF a.kind = "Environment"
  THEN b.kind = a.kind /\ Overridden(a.Overrides) = Overridden(b.Overrides)
  ELSE a = b

\* Formatting a declaration and parsing the result gives the same
\* declaration and no error (formatter.go: "from AST back to source").
FmtKeepsProgram == step = "read" => errs = 0 /\ Len(back) = 1 /\ Same(ast, back[1])

\* A file cut short after the opening brace of its declaration is reported as
\* a parse error or still holds the whole declaration; it is never read as a
\* smaller program (expectToken at the end of every block parser).
CutIsReported ==
  step = "read cut" /\ (\E i \in 1 .. Len(text) : text[i].t = "{")
  => errs > 0 \/ (Len(back) = 1 /\ Same(ast, back[1]))

\* An edit changes what the plan sees: the attributes the hash is computed
\* from.  The name identifies the resource; the code leaves out metadata and
\* the skills a server exposes, and plugin declarations altogether.
Blind == {"Name", "Metadata"} \cup (IF ast.kind = "MCPServer" THEN {"Skills"} ELSE {})
EditIsPlanned ==
  step = "edited" /\ edits > 0 /\ ast.kind # "Plugin"
    /\ (\E f \in DOMAIN ast \ Blind : ast[f] # prev[f])
  => Lower(ast).attrs # Lower(prev).attrs
=============================================================================
