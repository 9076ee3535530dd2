------------------------------ MODULE Program ------------------------------
(***************************************************************************)
(* A file of several declarations: what `agentspec validate' says of it    *)
(* (internal/validate), what it is lowered to as a whole, which binding    *)
(* and deploy target a command takes when none is named (internal/plan/    *)
(* plan.go), and the overlay of an environment (internal/ir/               *)
(* environment.go).  The state is the file; authors add and remove         *)
(* declarations and migrate it to IntentLang 2.0 (internal/migrate).       *)
(*                                                                         *)
(* A validator is true when it appends no error.  The declarations are     *)
(* those of Parser, after the imports have been merged.                    *)
(***************************************************************************)
EXTENDS Parser

CONSTANTS Files,          \* the files an author starts from
          Pool,           \* declarations an author may add
          Mentions(_),    \* the names between {{ and }} in a prompt's content
          Fold(_),        \* a kind or name as strings.EqualFold compares it
          Alphabet,       \* the kinds and names, in the order of Go's strings
          MaxEdits        \* bound on the edits

VARIABLES file, edits
vars == <<file, edits>>

LOCAL Stmts(f) == Range(f.Statements)
LOCAL Negative(n) == n = "-1"

-----------------------------------------------------------------------------
(* structural.go *)

validateImport(s) == s.Path # ""

validateConfigParams(a) ==
  \A p \in Range(a.ConfigParams) :
    /\ p.Name # "" /\ p.Type \in {"", "string", "int", "float", "bool"}
    /\ ~ (p.Secret = "true" /\ p.Default # <<>>)

validateValidationRules(a) ==
  \A r \in Range(a.ValidationRules) :
    /\ r.Name # "" /\ r.Severity \in {"", "error", "warning"}
    /\ ~ Negative(r.MaxRetries) /\ r.Expression # ""

validateEvalCases(a) ==
  \A c \in Range(a.EvalCases) :
    /\ c.Name # "" /\ c.Input # "" /\ c.Expected # ""
    /\ c.Scoring \in {"", "exact", "contains", "semantic", "custom"}
    /\ ~ Negative(c.Threshold) /\ c.Threshold # "1e6"

RECURSIVE validateOnInputBlock(_)
validateOnInputStmt(s) ==
  CASE s.s \in {"use", "delegate"} -> s.name # ""
    [] s.s = "respond" -> s.expr # ""
    [] s.s = "if"  -> /\ s.expr # "" /\ validateOnInputBlock(s.body)
                      /\ \A e \in Range(s.elifs) : e.expr # "" /\ validateOnInputBlock(e.body)
                      /\ validateOnInputBlock(s.els)
    [] s.s = "for" -> s.name # "" /\ s.expr # "" /\ validateOnInputBlock(s.body)
validateOnInputBlock(stmts) == \A s \in Range(stmts) : validateOnInputStmt(s)

validateAgent(a) ==
  /\ a.Name # "" /\ a.Prompt # <<>>
  /\ (a.Model # "") # (a.Models # <<>>)
  /\ ~ Negative(a.BudgetDaily) /\ ~ Negative(a.BudgetMonthly)
  /\ a.Strategy \in {"", "react", "plan-and-execute", "reflexion", "router", "map-reduce"}
  /\ a.OnError \in {"", "retry", "fail", "fallback"}
  /\ a.OnError = "fallback" => a.Fallback # ""
  /\ \A t \in Range(a.Temperature) : ~ Negative(t) /\ t # "1e6"
  /\ validateConfigParams(a) /\ validateValidationRules(a) /\ validateEvalCases(a)
  /\ \A b \in Range(a.OnInput) : validateOnInputBlock(b)

validatePrompt(p) == p.Name # "" /\ p.Content # ""

validateSkill(s) ==
  /\ s.Name # "" /\ s.Description # "" /\ s.Input # <<>> /\ s.Output # <<>>
  /\ (s.Execution # <<>>) # (s.ToolConfig # <<>>)
  /\ \A t \in Range(s.ToolConfig) : t.Type \in {"mcp", "http", "command", "inline"}

validateMCPServer(s) ==
  /\ s.Name # "" /\ s.Transport # ""
  /\ s.Transport = "stdio" => s.Command # ""
  /\ s.Transport \in {"sse", "streamable-http"} => s.URL # ""

validateMCPClient(c) == c.Name # "" /\ c.Servers # <<>>
validateSecret(s)    == s.Name # "" /\ s.Source # "" /\ s.Key # ""
validateBinding(b)   == b.Name # "" /\ b.Adapter # ""
validateDeployTarget(d) ==
  d.Name # "" /\ d.Target \in {"process", "docker", "docker-compose", "kubernetes"}

validateTypeDef(t) ==
  /\ t.Name # "" /\ (t.Fields # <<>> \/ t.EnumVals # <<>> \/ t.ListOf # "")
  /\ \A f \in Range(t.Fields) : f.Name # "" /\ f.Type # ""

validatePipeline(p) ==
  /\ p.Name # "" /\ p.Steps # <<>>
  /\ \A i \in DOMAIN p.Steps :
       LET step == p.Steps[i]
       IN  /\ step.Name # "" /\ step.Agent # ""
           /\ \A j \in 1 .. i - 1 : p.Steps[j].Name # step.Name
           /\ \A dep \in Range(step.DependsOn) :
                /\ \E other \in Range(p.Steps) : other.Name = dep
                /\ dep # step.Name

validateUser(u) == u.Name # "" /\ u.KeyRef # "" /\ u.Role \in {"", "invoke", "admin"}

validateGuardrail(g) ==
  /\ g.Name # "" /\ g.Mode \in {"warn", "block"}
  /\ g.Keywords # <<>> \/ g.Patterns # <<>>
  /\ g.Mode = "block" => g.FallbackMsg # ""

ValidateStructural(f) ==
  /\ f.Package # <<>>
  /\ \A p \in Range(f.Package) : p.Name # "" /\ p.Version # "" /\ p.LangVersion # ""
  /\ \A s \in Stmts(f) :
       CASE s.kind = "Agent"     -> validateAgent(s)
         [] s.kind = "Prompt"    -> validatePrompt(s)
         [] s.kind = "Skill"     -> validateSkill(s)
         [] s.kind = "MCPServer" -> validateMCPServer(s)
         [] s.kind = "MCPClient" -> validateMCPClient(s)
         [] s.kind = "Secret"    -> validateSecret(s)
         [] s.kind = "Binding"   -> validateBinding(s)
         [] s.kind = "DeployTarget" -> validateDeployTarget(s)
         [] s.kind = "TypeDef"   -> validateTypeDef(s)
         [] s.kind = "Pipeline"  -> validatePipeline(s)
         [] s.kind = "User"      -> validateUser(s)
         [] s.kind = "Guardrail" -> validateGuardrail(s)
         [] s.kind = "Import"    -> validateImport(s)
         [] OTHER -> TRUE

-----------------------------------------------------------------------------
(* semantic.go; names are <<kind, name>> *)

collectNames(f) ==
  {<<s.kind, s.Name>> : s \in {d \in Stmts(f) : d.kind \notin {"Import", "Plugin", "StateConfig"}}}

LOCAL Known(names, kind, seq) == \A n \in Range(seq) : <<kind, n>> \in names

RECURSIVE validateOnInputRefs(_, _)
validateOnInputRefs(stmts, names) ==
  \A s \in Range(stmts) :
    CASE s.s = "use"      -> <<"Skill", s.name>> \in names
      [] s.s = "delegate" -> <<"Agent", s.name>> \in names
      [] s.s = "respond"  -> TRUE
      [] s.s = "if"  -> /\ validateOnInputRefs(s.body, names) /\ validateOnInputRefs(s.els, names)
                        /\ \A e \in Range(s.elifs) : validateOnInputRefs(e.body, names)
      [] s.s = "for" -> validateOnInputRefs(s.body, names)

agentRefs(s, names) ==
  /\ Known(names, "Prompt", s.Prompt) /\ Known(names, "Skill", s.Skills)
  /\ Known(names, "MCPClient", s.Client)
  /\ s.Fallback # "" => <<"Agent", s.Fallback>> \in names /\ s.Fallback # s.Name
  /\ \A d \in Range(s.Delegates) : <<"Agent", d.AgentRef>> \in names
  /\ \A b \in Range(s.OnInput) : validateOnInputRefs(b, names)
  /\ Known(names, "Guardrail", s.GuardrailRefs)

\* Only a tool reference with a slash names a server; "p/q" stands for these.
skillRefs(s, names) ==
  \A t \in Range(s.ToolConfig) : t.Type = "mcp" /\ t.ServerTool = "p/q" => <<"MCPServer", "p">> \in names

\* Variables are checked only in a prompt that declares some.
promptVariables(s) ==
  s.Variables # <<>> => Mentions(s.Content) \subseteq {v.Name : v \in Range(s.Variables)}

serverRefs(s, names) == Known(names, "Skill", s.Skills) /\ Known(names, "Secret", s.Auth)

atMostOneDefault(f, kind) ==
  Cardinality({i \in DOMAIN f.Statements :
                 f.Statements[i].kind = kind /\ f.Statements[i].Default = "true"}) <= 1

ValidateSemantic(f) ==
  LET names == collectNames(f)
  IN  /\ \A s \in Stmts(f) :
           CASE s.kind = "Agent"     -> agentRefs(s, names)
             [] s.kind = "Skill"     -> skillRefs(s, names)
             [] s.kind = "MCPClient" -> Known(names, "MCPServer", s.Servers)
             [] s.kind = "Pipeline"  ->
                  \A p \in Range(s.Steps) : p.Agent # "" => <<"Agent", p.Agent>> \in names
             [] s.kind = "Prompt"    -> promptVariables(s)
             [] s.kind = "MCPServer" -> serverRefs(s, names)
             [] s.kind = "User"      -> Known(names, "Agent", s.Agents)
             [] OTHER -> TRUE
      /\ atMostOneDefault(f, "Binding") /\ atMostOneDefault(f, "DeployTarget")

\* environment.go: the words of an override and the kinds they stand for.
OverrideKinds == [agent |-> "Agent", prompt |-> "Prompt", skill |-> "Skill",
                  server |-> "MCPServer", client |-> "MCPClient", secret |-> "Secret"]
ValidateEnvironments(f) ==
  \A s \in {d \in Stmts(f) : d.kind = "Environment"} :
    \A i \in DOMAIN s.Overrides :
      LET o == s.Overrides[i]
      IN  /\ \A j \in 1 .. i - 1 : \/ s.Overrides[j].Resource # o.Resource
                                   \/ s.Overrides[j].Attribute # o.Attribute
          /\ o.Resource[1] \in DOMAIN OverrideKinds
          /\ <<OverrideKinds[o.Resource[1]], o.Resource[2]>> \in collectNames(f)

-----------------------------------------------------------------------------
(* lower.go, plan.go, environment.go, migrate/v2.go *)

OfKind(f, kinds) == SelectSeq(f.Statements, LAMBDA s : s.kind \in kinds)

lowerStateBlocks(f) ==
  LET blocks == OfKind(f, {"StateConfig"})
  IN  Len(blocks) <= 1 /\ \A b \in Range(blocks) : b.Type \in {"local", "kubernetes", "etcd", "postgres", "s3"}

\* sort.Slice leaves the order of resources with one kind and name open; here it is kept.
SortResources(rs) ==
  LET Rank(n) == CHOOSE i \in DOMAIN Alphabet : Alphabet[i] = n
      Less(a, b) == \/ Rank(a.Kind) < Rank(b.Kind)
                    \/ a.Kind = b.Kind /\ Rank(a.Name) < Rank(b.Name)
  IN  SortSeq(rs, Less)

\* [ok, Resources]; the bindings and deploy targets are those of the file.
LowerFile(f) ==
  LET decls == OfKind(f, {"Prompt", "Skill", "Agent", "MCPServer", "MCPClient", "Secret",
                          "Environment", "TypeDef", "Pipeline", "User", "Guardrail"})
  IN  [ok |-> f.Package # <<>> /\ lowerStateBlocks(f),
       Resources |-> SortResources([i \in DOMAIN decls |->
                        [Kind |-> IF decls[i].kind = "TypeDef" THEN "Type" ELSE decls[i].kind,
                         Name |-> decls[i].Name] @@ Lower(decls[i])])]

\* Both choose the one named, else the first default, else the only one.
ResolveBinding(bindings, target) ==
  LET First(Test(_)) == LET found == SelectSeq(bindings, Test) IN SubSeq(found, 1, Min({1, Len(found)}))
      default == First(LAMBDA b : b.Default = "true")
  IN  IF target # "" THEN First(LAMBDA b : b.Name = target)
      ELSE IF default # <<>> \/ Len(bindings) # 1 THEN default ELSE bindings
ResolveDeployTarget(targets, target) == ResolveBinding(targets, target)

\* Each override goes to the first resource of that kind and name, in any case.
overrideAttribute(doc, o) ==
  LET hits == {i \in DOMAIN doc.Resources :
                 <<Fold(doc.Resources[i].Kind), Fold(doc.Resources[i].Name)>>
                   = <<Fold(o.Resource[1]), Fold(o.Resource[2])>>}
  IN  IF ~ doc.ok \/ o.Attribute = "" THEN doc
      ELSE IF hits = {} THEN [doc EXCEPT !.ok = FALSE]
      ELSE [doc EXCEPT !.Resources[Min(hits)].attrs = (o.Attribute :> o.Value) @@ @]

ApplyEnvironment(doc, envName) ==
  LET envs == SelectSeq(doc.Resources, LAMBDA r : r.Kind = "Environment" /\ r.Name = envName)
      done == FoldLeft(overrideAttribute, doc, envs[1].attrs["overrides"])
  IN  IF envName = "" THEN doc
      ELSE IF envs = <<>> THEN [doc EXCEPT !.ok = FALSE]
      ELSE [done EXCEPT !.Resources = SelectSeq(@, LAMBDA r : r.Kind # "Environment")]

\* migrate/v2.go.  An execution's arguments are never parsed; a binding's config is dropped.
migrateSkill(s) ==
  LET e    == s.Execution[1]
      tool == IF e.Type = "http" THEN [ToolConfig EXCEPT !.Type = "http", !.URL = e.Value]
              ELSE [ToolConfig EXCEPT !.Type = "command", !.Binary = e.Value]
  IN  IF s.Execution = <<>> \/ s.ToolConfig # <<>> THEN s
      ELSE [s EXCEPT !.ToolConfig = <<tool>>, !.Execution = <<>>]

migrateBinding(b) ==
  [DeployTarget EXCEPT
     !.Name = b.Name, !.Default = b.Default,
     !.Target = IF b.Adapter \in {"docker", "docker-compose", "kubernetes"} THEN b.Adapter ELSE "process"]

migrateStmt(s) ==
  CASE s.kind = "Skill"   -> migrateSkill(s)
    [] s.kind = "Binding" -> migrateBinding(s)
    [] OTHER -> s

ToV2(f) ==
  [Package |-> [i \in DOMAIN f.Package |-> [f.Package[i] EXCEPT !.LangVersion = "2.0"]],
   Statements |-> [i \in DOMAIN f.Statements |-> migrateStmt(f.Statements[i])]]

-----------------------------------------------------------------------------
TypeOK ==
  /\ \E f \in Files : file.Package \in {f.Package, ToV2(f).Package}
  /\ LET written == Pool \cup UNION {Stmts(f) : f \in Files}
     IN  Stmts(file) \subseteq written \cup {migrateStmt(s) : s \in written}
  /\ edits \in 0 .. MaxEdits

Init == file \in Files /\ edits = 0

Declare ==
  /\ edits < MaxEdits
  /\ \E d \in Pool : file' = [file EXCEPT !.Statements = Append(@, d)]
  /\ edits' = edits + 1

Drop ==
  /\ edits < MaxEdits
  /\ \E i \in DOMAIN file.Statements : file' = [file EXCEPT !.Statements = RemoveAt(@, i)]
  /\ edits' = edits + 1

\* `agentspec migrate --to-v2'; what it formats and writes reads back as it was (Language).
Migrate ==
  /\ edits < MaxEdits
  /\ \A p \in Range(file.Package) : p.LangVersion # "2.0"
  /\ file' = ToV2(file)
  /\ edits' = edits + 1

Next == Declare \/ Drop \/ Migrate
Spec == Init /\ [][Next]_vars

-----------------------------------------------------------------------------
Accepts(f) == ValidateStructural(f) /\ ValidateSemantic(f)
Accepted == Accepts(file)
Resources == Range(LowerFile(file).Resources)

RECURSIVE Calls(_)
Calls(stmts) ==
  UNION {CASE s["type"] = "use"      -> {<<"Skill", s["skill"]>>}
           [] s["type"] = "delegate" -> {<<"Agent", s["agent"]>>}
           [] s["type"] = "respond"  -> {}
           [] s["type"] = "for"      -> Calls(s["body"])
           [] s["type"] = "if"       ->
                Calls(s["body"])
                  \cup (IF "else_body" \in DOMAIN s THEN Calls(s["else_body"]) ELSE {})
                  \cup (IF "else_ifs" \in DOMAIN s
                        THEN UNION {Calls(e["body"]) : e \in Range(s["else_ifs"])} ELSE {})
         : s \in Range(stmts)}

\* What `agentspec validate' accepts is a whole program: every reference of a lowered
\* resource, the calls of an agent's on_input block at any depth included, is to a
\* resource of the file; an agent has one way to name its models and a prompt with
\* something in it, and each of its skills is carried out in one way.
ValidIsWhole ==
  Accepted =>
    \A r \in Resources :
      /\ \A ref \in Range(r.refs) : \E q \in Resources : ref = <<q.Kind, q.Name>>
      /\ r.Kind = "Agent" =>
           /\ (r.attrs["model"] # "") # ("models" \in DOMAIN r.attrs)
           /\ "on_input" \in DOMAIN r.attrs =>
                \A c \in Calls(r.attrs["on_input"]) : \E q \in Resources : c = <<q.Kind, q.Name>>
           /\ \E q \in Resources : q.Kind = "Prompt" /\ q.Name = r.attrs["prompt"] /\ q.attrs["content"] # ""
           /\ "skills" \in DOMAIN r.attrs =>
                \A q \in Resources : q.Kind = "Skill" /\ q.Name \in Range(r.attrs["skills"])
                  => Cardinality({"execution", "tool"} \cap DOMAIN q.attrs) = 1

\* In a file that was accepted, the binding and the deploy target taken when none is
\* named do not depend on the order of the declarations.
DefaultsAreUnambiguous ==
  Accepted =>
    LET bs == OfKind(file, {"Binding"})
        ts == OfKind(file, {"DeployTarget"})
    IN  /\ ResolveBinding(bs, "") = ResolveBinding(Reverse(bs), "")
        /\ ResolveDeployTarget(ts, "") = ResolveDeployTarget(Reverse(ts), "")

\* Migration to IntentLang 2.0 keeps a file that was accepted acceptable, unless a binding
\* and a deploy target are both the default, and the deploy target then taken when none
\* is named is the binding taken before, if the file had no deploy targets (ToV2).
MigrationKeepsProgram ==
  LET bs == OfKind(file, {"Binding"})
      ts == OfKind(file, {"DeployTarget"})
      of == OfKind(ToV2(file), {"DeployTarget"})
      Default(seq) == \E d \in Range(seq) : d.Default = "true"
      Names(seq)   == {d.Name : d \in Range(seq)}
  IN  /\ Accepted /\ ~ (Default(bs) /\ Default(ts)) => Accepts(ToV2(file))
      /\ ts = <<>> => Names(ResolveDeployTarget(of, "")) = Names(ResolveBinding(bs, ""))

\* An environment that ValidateEnvironments accepts can be applied, and every one of its
\* overrides is in effect afterwards.  Excepted are overrides of servers and clients, whose
\* kinds ApplyEnvironment does not find, and resources whose names differ only in case.
Folded(d) == <<Fold(d.Kind), Fold(d.Name)>>
OverridesApply ==
  LET doc == LowerFile(file)
  IN  /\ doc.ok /\ ValidateEnvironments(file)
      /\ \A q, r \in Resources : Folded(q) = Folded(r) => q.Name = r.Name
      => \A e \in {r \in Resources : r.Kind = "Environment"} :
           LET first == SelectSeq(doc.Resources, LAMBDA r : r.Kind = "Environment" /\ r.Name = e.Name)[1]
               os    == Range(first.attrs["overrides"])
               after == ApplyEnvironment(doc, e.Name)
           IN  (\A o \in os : o.Resource[1] \notin {"server", "client"})
               => /\ after.ok
                  /\ \A o \in os : \E q \in Range(after.Resources) :
                       /\ <<q.Kind, q.Name>> = <<OverrideKinds[o.Resource[1]], o.Resource[2]>>
                       /\ o.Attribute \in DOMAIN q.attrs /\ q.attrs[o.Attribute] = o.Value
=============================================================================
