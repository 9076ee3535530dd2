---------------------------- MODULE MCComponents ----------------------------
(***************************************************************************)
(* The safety of the components, for model checking.  They share no state, *)
(* so each behaviour runs one of them, named by `part', on as many of the  *)
(* variables r1, r2, ... as it has; the others keep their initial value.   *)
(***************************************************************************)
EXTENDS Integers, Sequences, TLC

CONSTANT Untracked

VARIABLES part, r1, r2, r3, r4, r5, r6, r7, r8, r9, r10, r11, r12
vars == <<part, r1, r2, r3, r4, r5, r6, r7, r8, r9, r10, r11, r12>>

-----------------------------------------------------------------------------
(* Values for the constants *)

\* What an author may write, for instances of Language: for every kind of declaration,
\* the values of each of its fields.  Plain holds the values the formatter prints back as
\* it read them; Awkward holds texts and numbers it prints in a form the lexer does not
\* read.
Ast == INSTANCE Parser

Texts  == {"", "x", "a b", "p/q", "quo"}
Word1  == {"", "x"}
Ints   == {"0", "1"}
Bools  == {"true", "false"}
Maps   == {<<>>, "x" :> "a b", ("x" :> "quo") @@ ("y" :> "")}
Lists  == {<<>>, <<"x">>, <<"a b", "quo">>}
Refer  == {<<>>, <<"x">>, <<"quo">>}

Var(n, t, r, d)  == [Name |-> n, Type |-> t, Required |-> r, Default |-> d]
Fld(n, t, r)     == [Name |-> n, Type |-> t, Required |-> r]
Vars   == {<<>>} \cup {<<Var("x", "y", "true", d), Var("y", "x", "false", "")>> : d \in {"", "quo"}}
Flds   == {<<>>, <<Fld("x", "y", "false"), Fld("y", "x", "true")>>}

Tool(t) == [Ast!ToolConfig EXCEPT !.Type = t]
ToolConfigs ==
  {<<>>} \cup {<<t>> : t \in {
    [Tool("mcp") EXCEPT !.ServerTool = "p/q"],
    [Tool("http") EXCEPT !.URL = "p/q", !.Headers = "x" :> "a b"],
    [Tool("http") EXCEPT !.Method = "x", !.BodyTemplate = "quo", !.Timeout = "x"],
    [Tool("command") EXCEPT !.Binary = "p/q", !.Args = <<"x", "y">>],
    [Tool("command") EXCEPT !.Timeout = "x", !.Env = "x" :> "y", !.Secrets = "y" :> "x"],
    [Tool("inline") EXCEPT !.Language = "x", !.Code = "quo"],
    [Tool("inline") EXCEPT !.Timeout = "x", !.MemoryLimit = "y"]}}

Prms == {<<>>,
  <<[Name |-> "x", Type |-> "y", Required |-> "true", Secret |-> "false",
     Default |-> <<"quo">>, Description |-> ""],
    [Name |-> "y", Type |-> "y", Required |-> "false", Secret |-> "true",
     Default |-> <<>>, Description |-> "a b"]>>}
Rules == {<<>>,
  <<[Name |-> "x", Severity |-> "y", MaxRetries |-> "1", Message |-> "", Expression |-> "e"],
    [Name |-> "y", Severity |-> "y", MaxRetries |-> "0", Message |-> "quo", Expression |-> ""]>>}
Cases == {<<>>,
  <<[Name |-> "x", Input |-> "", Expected |-> "a b", Scoring |-> "y",
     Threshold |-> "0.5", Tags |-> <<"x">>],
    [Name |-> "y", Input |-> "quo", Expected |-> "", Scoring |-> "",
     Threshold |-> "0.8", Tags |-> <<>>]>>}

Respond == [Ast!Stmt("respond") EXCEPT !.expr = "quo"]
Use     == [Ast!Stmt("use") EXCEPT !.name = "x", !.params = ("x" :> "e") @@ ("y" :> "x")]
Hand    == [Ast!Stmt("delegate") EXCEPT !.name = "y"]
Branch  == [Ast!Stmt("if") EXCEPT !.expr = "e", !.body = <<Hand>>,
              !.elifs = <<[expr |-> "x", body |-> <<>>]>>, !.els = <<Respond>>]
Loop    == [Ast!Stmt("for") EXCEPT !.name = "x", !.expr = "e", !.body = <<Use, Respond>>]
Flows   == {<<>>, <<<<>>>>, <<<<Use, Branch>>>>, <<<<Loop, Hand>>>>}

Deleg == {<<>>, <<[AgentRef |-> "x", Condition |-> "a b"], [AgentRef |-> "y", Condition |-> ""]>>}
Over(k, n, a, v) == [Resource |-> <<k, n>>, Attribute |-> a, Value |-> v]
Overs == {<<>>, <<Over("x", "a b", "x", "quo"), Over("y", "x", "x", "x"), Over("x", "a b", "x", "y")>>}
Denied == {<<>>, <<[Action |-> "deny", Resource |-> "x", Subject |-> <<"x", "y">>],
                   [Action |-> "require", Resource |-> "y", Subject |-> <<>>]>>}
Stages == {<<>>,
  <<[Ast!PipelineStep EXCEPT !.Name = "x", !.Agent = "y", !.Parallel = "true"],
    [Ast!PipelineStep EXCEPT !.Name = "quo", !.Input = "a b", !.Output = "x",
                         !.DependsOn = <<"x">>, !.When = "quo"]>>}

AgentVals == [
  Prompt |-> Refer, Skills |-> Lists, Model |-> Word1, Client |-> Refer, Metadata |-> Maps,
  Strategy |-> Word1, MaxTurns |-> Ints, Timeout |-> Word1, TokenBudget |-> Ints,
  Temperature |-> {<<>>, <<"0">>, <<"0.5">>}, Stream |-> {<<>>, <<"true">>, <<"false">>},
  OnError |-> Word1, MaxRetries |-> Ints, Fallback |-> Word1,
  MemoryCfg |-> {<<>>, <<Ast!MemoryConfig>>, <<[Strategy |-> "x", MaxMessages |-> "1"]>>},
  Delegates |-> Deleg, Models |-> Lists, BudgetDaily |-> {"0", "0.5"}, BudgetMonthly |-> {"0", "1"},
  GuardrailRefs |-> Lists, ConfigParams |-> Prms, ValidationRules |-> Rules,
  EvalCases |-> Cases, OnInput |-> Flows]
DeployVals == [
  Name |-> Texts, Target |-> Texts, Default |-> Bools, Port |-> Ints, Namespace |-> Texts,
  Replicas |-> Ints, Image |-> Texts,
  Resources |-> {<<>>, <<Ast!ResourceLimits>>, <<[CPU |-> "x", Memory |-> "quo"]>>},
  Health |-> {<<>>, <<[Path |-> "p/q", Interval |-> "x", Timeout |-> "y"]>>},
  Autoscale |-> {<<>>, <<[MinReplicas |-> "1", MaxReplicas |-> "1", Metric |-> "x", Target |-> "1"]>>},
  Env |-> Maps, Secrets |-> Maps]

\* Kind -> field -> values, the fields edited one at a time.
Vals == [
  Prompt |-> [Content |-> Texts, Variables |-> Vars, Version |-> Texts, Metadata |-> Maps],
  Skill |-> [Description |-> Texts, Input |-> Flds, Output |-> Flds, ToolConfig |-> ToolConfigs,
             Execution |-> {<<>>, <<[Type |-> "x", Value |-> "quo"]>>}, Metadata |-> Maps],
  Agent |-> AgentVals,
  Binding |-> [Adapter |-> Texts, Default |-> Bools, Config |-> Maps],
  Environment |-> [Overrides |-> Overs],
  Policy |-> [Rules |-> Denied],
  Plugin |-> [Name |-> Texts, Version |-> Texts],
  MCPServer |-> [Transport |-> Texts, Command |-> Texts, Args |-> Lists, URL |-> Texts,
                 Auth |-> Refer, Skills |-> Lists, Env |-> Maps, Metadata |-> Maps],
  MCPClient |-> [Servers |-> Lists, Metadata |-> Maps],
  DeployTarget |-> DeployVals,
  Pipeline |-> [Steps |-> Stages],
  Import |-> [Path |-> Texts, Version |-> Texts, Alias |-> Word1],
  User |-> [KeyRef |-> Texts, Agents |-> Lists, Role |-> Texts],
  Guardrail |-> [Mode |-> Texts, Keywords |-> Lists, Patterns |-> Lists, FallbackMsg |-> Texts],
  StateConfig |-> [Name |-> Texts, Type |-> Texts, Properties |-> Maps]]

Types == {[Fields |-> v, EnumVals |-> <<>>, ListOf |-> ""] : v \in Vars}
           \cup {[Fields |-> <<>>, EnumVals |-> v, ListOf |-> ""] : v \in Lists}
           \cup {[Fields |-> <<>>, EnumVals |-> <<>>, ListOf |-> v] : v \in {"x", "y"}}

Plain ==
  [k \in DOMAIN Vals |-> UNION {{f :> v : v \in Vals[k][f]} : f \in DOMAIN Vals[k]}]
    @@ [Secret |-> [Source : {"env", "store"}, Key : {"x", "y"}], TypeDef |-> Types]

Awkward ==
  [Secret |-> [Source : {"env", "store"}, Key : {"x", "p/q"}],
   Agent  |-> {"BudgetMonthly" :> b : b \in {"1", "1e6"}},
   Prompt |-> {"Content" :> c : c \in {"x", "quo", "ctl"}}]

\* For instances of Program: a whole program, and declarations that complete or spoil it.
Calling(skill) == <<<<[Loop EXCEPT !.body = <<[Branch EXCEPT !.els = <<[Use EXCEPT !.name = skill]>>]>>]>>>>
AgentOf(n) == [Ast!Agent EXCEPT !.Name = n, !.Prompt = <<"x">>, !.Model = "x"]
SkillOf(n) ==
  [Ast!Skill EXCEPT !.Name = n, !.Description = "x", !.Input = <<Fld("x", "y", "false")>>,
                !.Output = <<Fld("x", "y", "false")>>, !.Execution = <<[Type |-> "x", Value |-> "x"]>>]
ServerOf(n, secret) ==
  [Ast!MCPServer EXCEPT !.Name = n, !.Transport = "stdio", !.Command = "x", !.Auth = <<secret>>,
                    !.Skills = <<"x">>]
StepOf(n, agent, deps) == [Ast!PipelineStep EXCEPT !.Name = n, !.Agent = agent, !.DependsOn = deps]
BindingOf(n, d) == [Ast!Binding EXCEPT !.Name = n, !.Adapter = "x", !.Default = d]
DeployOf(n, d)  == [Ast!DeployTarget EXCEPT !.Name = n, !.Target = "docker", !.Default = d]
OverlayOf(n, os) == [Ast!Environment EXCEPT !.Name = n, !.Overrides = os]
StateOf(t)      == [Ast!StateConfig EXCEPT !.Name = "state", !.Type = t]

Whole == <<
  [Ast!Prompt EXCEPT !.Name = "x", !.Content = "{{x}}", !.Variables = <<Var("x", "y", "true", "")>>],
  [SkillOf("x") EXCEPT !.Execution = <<>>, !.ToolConfig = <<[Tool("mcp") EXCEPT !.ServerTool = "p/q"]>>],
  [AgentOf("x") EXCEPT !.Skills = <<"x">>, !.Client = <<"x">>, !.GuardrailRefs = <<"x">>],
  [AgentOf("y") EXCEPT !.Model = "", !.Models = <<"x">>, !.OnError = "fallback", !.Fallback = "x",
                       !.Delegates = <<[AgentRef |-> "x", Condition |-> ""]>>, !.OnInput = Calling("x")],
  ServerOf("p", "x"), [Ast!MCPClient EXCEPT !.Name = "x", !.Servers = <<"p">>],
  [Ast!Secret EXCEPT !.Name = "x", !.Source = "env", !.Key = "x"],
  [Ast!Guardrail EXCEPT !.Name = "x", !.Mode = "block", !.Keywords = <<"x">>, !.FallbackMsg = "x"],
  [Ast!Pipeline EXCEPT !.Name = "x", !.Steps = <<StepOf("b", "y", <<"a">>), StepOf("a", "x", <<>>)>>],
  [Ast!User EXCEPT !.Name = "x", !.KeyRef = "x", !.Agents = <<"x">>],
  BindingOf("x", "false"), BindingOf("y", "true"), DeployOf("x", "false"),
  OverlayOf("dev", <<Over("agent", "x", "model", "y"), Over("prompt", "x", "model", "y")>>),
  [Ast!TypeDef EXCEPT !.Name = "x", !.ListOf = "y"], StateOf("local")>>

\* Valid ones, and for each check one that fails it.
Additions == {
  AgentOf("X"), AgentOf("z"), [AgentOf("z") EXCEPT !.Fallback = "z"],
  [AgentOf("z") EXCEPT !.Models = <<"x">>], [AgentOf("z") EXCEPT !.OnInput = Calling("y")],
  [AgentOf("z") EXCEPT !.GuardrailRefs = <<"y">>], [AgentOf("z") EXCEPT !.Temperature = <<"1e6">>],
  [AgentOf("z") EXCEPT !.ConfigParams = <<[Name |-> "x", Type |-> "int", Required |-> "false", Secret |-> "true",
                                             Default |-> <<"x">>, Description |-> ""]>>],
  [AgentOf("z") EXCEPT !.ValidationRules = <<[Name |-> "x", Severity |-> "error", MaxRetries |-> "1", Message |-> "",
                                                Expression |-> ""]>>],
  [AgentOf("z") EXCEPT !.EvalCases = <<[Name |-> "x", Input |-> "x", Expected |-> "", Scoring |-> "",
                                          Threshold |-> "0.8", Tags |-> <<>>]>>],
  [Ast!Prompt EXCEPT !.Name = "x"],
  [Ast!Prompt EXCEPT !.Name = "y", !.Content = "{{y}}", !.Variables = <<Var("x", "y", "true", "")>>],
  SkillOf("y"), [SkillOf("x") EXCEPT !.ToolConfig = <<Tool("http")>>],
  ServerOf("q", "y"), [ServerOf("q", "x") EXCEPT !.Command = ""],
  BindingOf("z", "true"), DeployOf("y", "true"), DeployOf("z", "true"), [DeployOf("z", "false") EXCEPT !.Target = "x"],
  OverlayOf("dev", <<Over("server", "p", "url", "x")>>),
  OverlayOf("e", <<Over("agent", "x", "model", "x"), Over("agent", "x", "model", "y")>>),
  OverlayOf("e", <<Over("agent", "z", "model", "y"), Over("agent", "y", "model", "x")>>),
  StateOf("etcd"), StateOf("x"),
  [Ast!Pipeline EXCEPT !.Name = "y", !.Steps = <<StepOf("a", "z", <<>>)>>],
  [Ast!Pipeline EXCEPT !.Name = "y", !.Steps = <<StepOf("a", "x", <<"b">>)>>],
  [Ast!User EXCEPT !.Name = "y", !.KeyRef = "x", !.Agents = <<"z">>],
  [Ast!Guardrail EXCEPT !.Name = "y", !.Mode = "block", !.Keywords = <<"x">>],
  [Ast!TypeDef EXCEPT !.Name = "y"], [Ast!MCPClient EXCEPT !.Name = "y"], [Ast!Import EXCEPT !.Alias = "x"],
  [Ast!Plugin EXCEPT !.Name = "x"]}

Programs ==
  {[Package |-> p, Statements |-> Whole] :
     p \in {<<[Name |-> "x", Version |-> "x", LangVersion |-> "x"]>>,
            <<[Name |-> "x", Version |-> "", LangVersion |-> "x"]>>, <<>>}}
MentionedIn(content) == CASE content = "{{x}}" -> {"x"} [] content = "{{y}}" -> {"y"} [] OTHER -> {}
FoldCase(n) == CASE n = "X" -> "x" [] n = "Agent" -> "agent" [] n = "Prompt" -> "prompt"
                 [] n = "Skill" -> "skill" [] n = "Secret" -> "secret" [] OTHER -> n
InOrder == <<"Agent", "Environment", "Guardrail", "MCPClient", "MCPServer", "Pipeline", "Prompt",
             "Secret", "Skill", "Type", "User", "X", "dev", "e", "p", "q", "x", "y", "z">>

\* Agent programs: an if inside a loop, nested loops, two loops over one name,
\* and a statement of no known type.
Act == [type |-> "act"]
If(x, y) == [type |-> "if", bodies |-> <<x, y>>]
For(v, b) == [type |-> "for_each", var |-> v, body |-> b]
MCPrograms ==
  {<<Act, For("v", <<Act, If(<<Act>>, <<Act, Act>>)>>), Act>>,
   <<For("v", <<For("w", <<Act>>), Act>>)>>,
   <<For("v", <<Act>>), For("v", <<If(<<For("w", <<Act>>)>>, <<>>)>>)>>,
   <<[type |-> "unknown"]>>}

\* Four source files in two directories, and a package in two versions: chains,
\* shared and circular imports, a file that does not parse.
Local(p) == [path |-> p, version |-> ""]
Package(v) == [path |-> "q/p.io", version |-> v]
File(f, imports) == [imports |-> imports, hash |-> <<f, 0>>, parses |-> TRUE]
A == Local("./a")
X == Local("./lib/x")
MCDirs == [main |-> "/", a |-> "/", libx |-> "lib", liba |-> "lib", p1 |-> "pkg", p2 |-> "pkg"]
MCLocalNames ==
  [k \in {"/", "lib", "pkg"} \X {"./a", "./lib/x", "./main"} |->
     CASE k = <<"/", "./a">>     -> <<"a">>
       [] k = <<"/", "./lib/x">> -> <<"libx">>
       [] k = <<"lib", "./a">>   -> <<"liba">>
       [] k = <<"/", "./main">>  -> <<"main">>
       [] OTHER -> <<>>]
Names1(one, two, none) ==
  [k \in {"q/p.io"} \X {"", "1", "2"} |->
     CASE k[2] = "1" -> one [] k[2] = "2" -> two [] k[2] = "" -> none]
MCPackageNames == Names1(<<"p1">>, <<"p2">>, <<>>)
MCSearchPaths == <<Names1(<<>>, <<"p2">>, <<"p2">>)>>
MCSemver == [v \in {"1", "2"} |-> IF v = "1" THEN <<1, 0>> ELSE <<1, 1>>]
MCDisks ==
  {[main |-> File("main", m), a |-> File("a", a), libx |-> File("libx", x),
    liba |-> File("liba", <<>>), p1 |-> File("p1", <<>>), p2 |-> File("p2", p)] :
     m \in {<<A>>, <<X, A>>, <<Package("1"), A>>, <<X, Package("2")>>},
     a \in {<<>>, <<Local("./main")>>, <<X, Package("2")>>, <<A>>},
     x \in {<<>>, <<A>>, <<Package("1")>>}, p \in {<<>>, <<Package("1")>>}}
  \cup {[main |-> File("main", <<A, X>>), a |-> File("a", <<Package("1")>>),
         libx |-> [File("libx", <<A>>) EXCEPT !.parses = FALSE]]}

\* Releases of three packages: a chain, two versions of one dependency, and one
\* whose manifest is not valid; a lock file may pin a release with other contents.
Release(deps, valid) == [deps |-> deps, valid |-> valid]
A1 == <<"a", "1">>
A2 == <<"a", "2">>
B1 == <<"b", "1">>
B2 == <<"b", "2">>
MCReleases ==
  (A1 :> Release({B1}, TRUE)) @@ (A2 :> Release({B2, A1}, TRUE)) @@ (B1 :> Release({B2}, TRUE))
    @@ (B2 :> Release({}, TRUE)) @@ (<<"c", "1">> :> Release({}, FALSE))
MCPublished == DOMAIN MCReleases \ {A2}
Entry(r, h) == [source |-> r[1], version |-> r[2], hash |-> h]
MCLocks == {<<>>, <<Entry(A1, <<A1, "whole">>)>>, <<Entry(A1, <<A1, "other">>), Entry(B2, <<>>)>>}

\* Pipelines of three steps: chains, forks, joins, a dependency given twice, one
\* that is unknown, a step that waits for itself and a cycle.
MCPipelines ==
  {[a |-> x, b |-> y, c |-> z] :
     x \in {<<>>, <<"c">>, <<"a">>}, y \in {<<>>, <<"a">>, <<"a", "a">>, <<"?">>},
     z \in {<<>>, <<"a">>, <<"a", "b">>, <<"b", "a">>, <<"b">>}}

\* exact, regexp, contains and no expectation; two of the four pass.
MCCases == <<[input |-> <<1>>, expected |-> <<1>>, match |-> "exact"],
             [input |-> <<1, 2>>, expected |-> <<2>>, match |-> "regexp"],
             [input |-> <<1>>, expected |-> <<2>>, match |-> "contains"],
             [input |-> <<1>>, expected |-> <<>>, match |-> "exact"]>>

-----------------------------------------------------------------------------
(* The components *)

Talk == INSTANCE Conversations WITH
  Workers <- {"w1", "w2"}, MaxMessages <- 2, Threshold <- 2, MaxSessions <- 1, Expiry <- 1,
  MaxTime <- 2, MaxIds <- 2, MaxExchanges <- 2,
  kind <- r1, clock <- r2, store <- r3, mem <- r4, lru <- r5, req <- r6, issued <- r7,
  asked <- r8, saved <- r9, shared <- r10

Rate == INSTANCE RateLimiter WITH
  Workers <- {"w1", "w2"}, Keys <- {"a", "b"}, Rate <- 1, Burst <- 2, TTL <- 2,
  MaxEntries <- 1, MaxTime <- 3, MaxBuckets <- 2,
  now <- r1, buckets <- r2, heap <- r3, call <- r4, squeezed <- r5

Auth == INSTANCE AuthThrottle WITH
  Workers <- {"w1", "w2"}, Clients <- {"a", "b"}, MaxFailures <- 2, Window <- 1,
  Block <- 2, EvictAfter <- 3, EvictSize <- 1, MaxTime <- 5,
  now <- r1, table <- r2, check <- r3, failed <- r4

Cost == INSTANCE Budgets WITH
  Workers <- {"w1", "w2"}, Limits <- <<2, 3>>, Periods <- <<1, 2>>, MaxCost <- 2,
  MaxTime <- 4, MaxTotal <- 3,
  now <- r1, entries <- r2, total <- r3, inv <- r4, warned <- r5, resetOn <- r6

Dev == INSTANCE DevServer WITH
  MaxEdits <- 2, MaxRotations <- 1,
  disk <- r1, loop <- r2, rt <- r3, rts <- r4, port <- r5, pending <- r6, armed <- r7,
  tls <- r8, tlsEvent <- r9, early <- r10, missed <- r11

Redis == INSTANCE RedisSessions WITH
  Clients <- {"c1", "c2"}, MaxMessages <- 2, MaxFaults <- 1,
  sess <- r1, msgs <- r2, run <- r3, sent <- r4, faults <- r5, log <- r6, mixed <- r7

Loops == INSTANCE AgentLoops WITH
  Chunks <- 2, MaxTurns <- 3, MaxTokens <- 1, Budgets <- {0, 3}, MaxCalls <- 2, MaxUse <- 2,
  strategy <- r1, budget <- r2, run <- r3, spent <- r4, cancelled <- r5

MCP == INSTANCE MCPPool WITH
  Workers <- {"w1", "w2"}, Servers <- {"a", "b"}, MaxConns <- 3, MaxCloses <- 1,
  clients <- r1, conn <- r2, flight <- r3, worker <- r4, closer <- r5, closes <- r6,
  found <- r7

Vault == INSTANCE VaultCache WITH
  Workers <- {"w1", "w2"}, Keys <- {"a"}, TTL <- 2, Timeout <- 1, MaxTime <- 6,
  now <- r1, vault <- r2, cache <- r3, worker <- r4

Check == INSTANCE RetryLoop WITH
  Rules <- {"a", "b"}, Retries <- {0, 1, 2}, ConfigMax <- {0, 1},
  severity <- r1, max <- r2, configMax <- r3, output <- r4, retryCount <- r5, calls <- r6,
  pc <- r7

Flow == INSTANCE ControlFlow WITH
  Programs <- MCPrograms, MaxItems <- 2,
  program <- r1, stack <- r2, bound <- r3, done <- r4, rcOutput <- r5, result <- r6

Remote == INSTANCE RemoteBackends WITH
  Clients <- {"c1", "c2"}, Names <- {"a", "b"}, MaxSaves <- 3,
  Kinds <- {"etcd", "postgres", "s3", "kubernetes"},
  kind <- r1, store <- r2, rev <- r3, client <- r4, saves <- r5

Migrate == INSTANCE StateMigrate WITH
  Names <- {"a", "b", "c"},
  Sources <- {<<"?">>, <<>>, <<"a">>, <<"a", "b">>, <<"a", "b", "c">>},
  src <- r1, dst <- r2, before <- r3, dryRun <- r4, pc <- r5, i <- r6, migrated <- r7,
  failed <- r8, exit <- r9

History == INSTANCE VersionHistory WITH
  Workers <- {"w1", "w2"}, Keep <- 2, MaxWrites <- 5,
  rows <- r1, worker <- r2, writes <- r3, unpruned <- r4

Alone == INSTANCE ApplyEngine WITH
  Procs <- {"p1"}, NoProc <- "", FQNs <- {"f", "g"}, Hashes <- {"h1", "h2"},
  NoHash <- "none", NoEntry <- Untracked, Gone <- "gone", Adapters <- {"crds", "config"},
  Locked <- TRUE, Faults <- {"crash", "save"},
  adapter <- r1, state <- r2, world <- r3, lock <- r4, pc <- r5, want <- r6, plan <- r7,
  todo <- r8, outcome <- r9, existing <- r10, unsaved <- r11

Pair == INSTANCE StateLock WITH
  Procs <- {"p1", "p2"}, NoProc <- "", Inodes <- {1, 2, 3}, NoFile <- 0,
  MayCrash <- TRUE, MayAge <- FALSE,
  path <- r1, owner <- r2, info <- r3, fd <- r4, pc <- r5, expired <- r6

Schedule == INSTANCE ScheduleController WITH
  Period <- 2, Deadline <- 1, Limit <- 1, Retry <- 1, MaxTime <- 4, MaxFaults <- 2,
  now <- r1, policy <- r2, obj <- r3, prev <- r4, tasks <- r5, timer <- r6, event <- r7,
  w <- r8, faults <- r9, fired <- r10, blind <- r11

Tools == INSTANCE BindingControllers WITH
  Kinds <- {"ToolBinding", "ClusterPolicy"}, Users <- {"a"}, MaxEdits <- 1, MaxFaults <- 1,
  obj <- r1, refs <- r2, queued <- r3, w <- r4, edits <- r5, faults <- r6, counted <- r7

Classes == INSTANCE BindingControllers WITH
  Kinds <- {"MemoryClass", "Policy"}, Users <- {"a"}, MaxEdits <- 1, MaxFaults <- 1,
  obj <- r1, refs <- r2, queued <- r3, w <- r4, edits <- r5, faults <- r6, counted <- r7

Merge == INSTANCE Policies WITH
  Names <- {"a", "b"}, MaxCost <- 2, MaxPolicies <- 3,
  aspect <- r1, policies <- r2

Lang == INSTANCE Language WITH
  Offered <- Plain, MaxEdits <- 2,
  ast <- r1, prev <- r2, text <- r3, back <- r4, errs <- r5, step <- r6, edits <- r7

Prog == INSTANCE Program WITH
  Files <- Programs, Pool <- Additions, Mentions <- MentionedIn,
  Fold <- FoldCase, Alphabet <- InOrder, MaxEdits <- 2,
  file <- r1, edits <- r2

Import == INSTANCE Imports WITH
  Root <- "main", DirOf <- MCDirs, Disks <- MCDisks, PackagePaths <- {"q/p.io"},
  LocalNames <- MCLocalNames, PackageNames <- MCPackageNames, SearchPaths <- MCSearchPaths,
  Semver <- MCSemver, MaxRounds <- 2,
  disk <- r1, step <- r2, stack <- r3, cache <- r4, visited <- r5, resolved <- r6,
  merged <- r7, lock <- r8, mismatches <- r9, rounds <- r10, was <- r11

Graph == INSTANCE ImportGraph WITH
  Paths <- <<"a", "b", "c">>, MaxImports <- 2,
  nodes <- r1

Reg == INSTANCE Registry WITH
  Releases <- MCReleases, Published <- MCPublished, Locks <- MCLocks, MaxRuns <- 3, MaxFaults <- 1,
  tags <- r1, local <- r2, cache <- r3, lock <- r4, run <- r5, runs <- r6, faults <- r7

Stream == INSTANCE LLMClients WITH
  Chains <- {<<"openai">>, <<"anthropic">>, <<"openai", "anthropic">>, <<"openai", "openai">>,
             <<"anthropic", "openai">>},
  Answers <- {<<"text", "noise", "text">>, <<"text", "call", "call">>, <<>>, <<"call", "text", "call">>},
  Cap <- 1,
  chain <- r1, answer <- r2, stream <- r3, split <- r4, at <- r5, failed <- r6, prod <- r7,
  chan <- r8, cons <- r9

Pipe == INSTANCE PipelineExecutor WITH
  Steps <- {"a", "b", "c"}, Pipelines <- MCPipelines,
  depends <- r1, own <- r2, built <- r3, order <- r4, at <- r5, snapshot <- r6, step <- r7,
  input <- r8, outputs <- r9, cancelled <- r10, status <- r11, tokens <- r12

Rel == INSTANCE ReleaseController WITH
  Releases <- {1, 2}, MaxSpec <- 2, MaxFaults <- 2,
  rel <- r1, agent <- r2, queue <- r3, w <- r4, stale <- r5, faults <- r6, applied <- r7,
  retried <- r8

Agent == INSTANCE AgentController WITH
  Sessions <- {"s1"}, Tasks <- {"t1"}, MaxGen <- 3, MaxFaults <- 2,
  agent <- r1, status <- r2, built <- r3, children <- r4, queued <- r5, w <- r6,
  faults <- r7, late <- r8

EvalRun == INSTANCE EvalRunController WITH
  Cases <- MCCases, Parallelism <- 2, MaxFaults <- 2,
  run <- r1, agent <- r2, queued <- r3, w <- r4, gos <- r5, faults <- r6

Session == INSTANCE SessionController WITH
  TTL <- 1, MaxTime <- 5, MaxFaults <- 2,
  now <- r1, sess <- r2, agent <- r3, class <- r4, event <- r5, timer <- r6, w <- r7,
  faults <- r8, active <- r9

StateStore == INSTANCE StateStoreController WITH
  Strays <- {"stray"}, Grace <- 1, MaxGen <- 2, MaxEdits <- 2, MaxFaults <- 2,
  store <- r1, agent <- r2, w <- r3, edits <- r4, faults <- r5

-----------------------------------------------------------------------------
Unused(n) ==
  /\ n < 1 => r1 = 0
  /\ n < 2 => r2 = 0
  /\ n < 3 => r3 = 0
  /\ n < 4 => r4 = 0
  /\ n < 5 => r5 = 0
  /\ n < 6 => r6 = 0
  /\ n < 7 => r7 = 0
  /\ n < 8 => r8 = 0
  /\ n < 9 => r9 = 0
  /\ n < 10 => r10 = 0
  /\ n < 11 => r11 = 0
  /\ n < 12 => r12 = 0
Idle(n) ==
  /\ UNCHANGED part
  /\ n < 1 => UNCHANGED r1
  /\ n < 2 => UNCHANGED r2
  /\ n < 3 => UNCHANGED r3
  /\ n < 4 => UNCHANGED r4
  /\ n < 5 => UNCHANGED r5
  /\ n < 6 => UNCHANGED r6
  /\ n < 7 => UNCHANGED r7
  /\ n < 8 => UNCHANGED r8
  /\ n < 9 => UNCHANGED r9
  /\ n < 10 => UNCHANGED r10
  /\ n < 11 => UNCHANGED r11
  /\ n < 12 => UNCHANGED r12

Init ==
  \/ part = "talk" /\ Talk!Init /\ Unused(10)
  \/ part = "rate" /\ Rate!Init /\ Unused(5)
  \/ part = "auth" /\ Auth!Init /\ Unused(4)
  \/ part = "budgets" /\ Cost!Init /\ Unused(6)
  \/ part = "dev" /\ Dev!Init /\ Unused(11)
  \/ part = "redis" /\ Redis!Init /\ Unused(7)
  \/ part = "loops" /\ Loops!Init /\ Unused(5)
  \/ part = "mcp" /\ MCP!Init /\ Unused(7)
  \/ part = "vault" /\ Vault!Init /\ Unused(4)
  \/ part = "retry" /\ Check!Init /\ Unused(7)
  \/ part = "flow" /\ Flow!Init /\ Unused(6)
  \/ part = "remote" /\ Remote!Init /\ Unused(5)
  \/ part = "migrate" /\ Migrate!Init /\ Unused(9)
  \/ part = "history" /\ History!Init /\ Unused(4)
  \/ part = "alone" /\ Alone!Init /\ Unused(11)
  \/ part = "pair" /\ Pair!Init /\ Unused(6)
  \/ part = "schedule" /\ Schedule!Init /\ Unused(11)
  \/ part = "tools" /\ Tools!Init /\ Unused(7)
  \/ part = "classes" /\ Classes!Init /\ Unused(7)
  \/ part = "policies" /\ Merge!Init /\ Unused(2)
  \/ part = "language" /\ Lang!Init /\ Unused(7)
  \/ part = "program" /\ Prog!Init /\ Unused(2)
  \/ part = "imports" /\ Import!Init /\ Unused(11)
  \/ part = "graph" /\ Graph!Init /\ Unused(1)
  \/ part = "registry" /\ Reg!Init /\ Unused(7)
  \/ part = "stream" /\ Stream!Init /\ Unused(9)
  \/ part = "pipe" /\ Pipe!Init /\ Unused(12)
  \/ part = "release" /\ Rel!Init /\ Unused(8)
  \/ part = "agent" /\ Agent!Init /\ Unused(8)
  \/ part = "evalrun" /\ EvalRun!Init /\ Unused(6)
  \/ part = "session" /\ Session!Init /\ Unused(9)
  \/ part = "statestore" /\ StateStore!Init /\ Unused(5)

Next ==
  \/ part = "talk" /\ Talk!Next /\ Idle(10)
  \/ part = "rate" /\ Rate!Next /\ Idle(5)
  \/ part = "auth" /\ Auth!Next /\ Idle(4)
  \/ part = "budgets" /\ Cost!Next /\ Idle(6)
  \/ part = "dev" /\ Dev!Next /\ Idle(11)
  \/ part = "redis" /\ Redis!Next /\ Idle(7)
  \/ part = "loops" /\ Loops!Next /\ Idle(5)
  \/ part = "mcp" /\ MCP!Next /\ Idle(7)
  \/ part = "vault" /\ Vault!Next /\ Idle(4)
  \/ part = "retry" /\ Check!Next /\ Idle(7)
  \/ part = "flow" /\ Flow!Next /\ Idle(6)
  \/ part = "remote" /\ Remote!Next /\ Idle(5)
  \/ part = "migrate" /\ Migrate!Next /\ Idle(9)
  \/ part = "history" /\ History!Next /\ Idle(4)
  \/ part = "alone" /\ Alone!Next /\ Idle(11)
  \/ part = "pair" /\ Pair!Next /\ Idle(6)
  \/ part = "schedule" /\ Schedule!Next /\ Idle(11)
  \/ part = "tools" /\ Tools!Next /\ Idle(7)
  \/ part = "classes" /\ Classes!Next /\ Idle(7)
  \/ part = "policies" /\ Merge!Next /\ Idle(2)
  \/ part = "language" /\ Lang!Next /\ Idle(7)
  \/ part = "program" /\ Prog!Next /\ Idle(2)
  \/ part = "imports" /\ Import!Next /\ Idle(11)
  \/ part = "graph" /\ Graph!Next /\ Idle(1)
  \/ part = "registry" /\ Reg!Next /\ Idle(7)
  \/ part = "stream" /\ Stream!Next /\ Idle(9)
  \/ part = "pipe" /\ Pipe!Next /\ Idle(12)
  \/ part = "release" /\ Rel!Next /\ Idle(8)
  \/ part = "agent" /\ Agent!Next /\ Idle(8)
  \/ part = "evalrun" /\ EvalRun!Next /\ Idle(6)
  \/ part = "session" /\ Session!Next /\ Idle(9)
  \/ part = "statestore" /\ StateStore!Next /\ Idle(5)

Spec == Init /\ [][Next]_vars

\* The language toolchain on values the formatter does not print plainly.
Awk == INSTANCE Language WITH
  Offered <- Awkward, MaxEdits <- 1,
  ast <- r1, prev <- r2, text <- r3, back <- r4, errs <- r5, step <- r6, edits <- r7
AwkwardSpec == (part = "awkward" /\ Awk!Init /\ Unused(7)) /\ [][Awk!Next /\ Idle(7)]_vars

-----------------------------------------------------------------------------
(* Each component's module states its properties in full. *)

\* Every component's variables have their types.
TypesOK ==
  /\ part = "talk" => Talk!TypeOK
  /\ part = "rate" => Rate!TypeOK
  /\ part = "auth" => Auth!TypeOK
  /\ part = "budgets" => Cost!TypeOK
  /\ part = "dev" => Dev!TypeOK
  /\ part = "redis" => Redis!TypeOK
  /\ part = "loops" => Loops!TypeOK
  /\ part = "mcp" => MCP!TypeOK
  /\ part = "vault" => Vault!TypeOK
  /\ part = "retry" => Check!TypeOK
  /\ part = "flow" => Flow!TypeOK
  /\ part = "remote" => Remote!TypeOK
  /\ part = "migrate" => Migrate!TypeOK
  /\ part = "history" => History!TypeOK
  /\ part = "alone" => Alone!TypeOK
  /\ part = "pair" => Pair!TypeOK
  /\ part = "schedule" => Schedule!TypeOK
  /\ part = "tools" => Tools!TypeOK
  /\ part = "classes" => Classes!TypeOK
  /\ part = "policies" => Merge!TypeOK
  /\ part = "program" => Prog!TypeOK
  /\ part = "imports" => Import!TypeOK
  /\ part = "registry" => Reg!TypeOK
  /\ part = "stream" => Stream!TypeOK
  /\ part = "pipe" => Pipe!TypeOK
  /\ part = "release" => Rel!TypeOK
  /\ part = "agent" => Agent!TypeOK
  /\ part = "evalrun" => EvalRun!TypeOK
  /\ part = "session" => Session!TypeOK
  /\ part = "statestore" => StateStore!TypeOK

\* No conversation loses what was said.  In memory, the sliding window holds the latest
\* exchanges whole and in order and the summaries stand for all the rest, unless
\* requests with summaries overlapped; in Redis, one process at a time finds every
\* message again, migrated or not (SlidingWindow.Save, Summary.Save, RedisStore).
HistoryIsKept ==
  /\ part = "talk" => Talk!NothingForgotten
  /\ part = "redis" => Redis!HistoryIsKept

\* The limits of internal/auth hold whichever requests race.  A bucket never grants more
\* than its burst and its refills, evicting it grants nothing extra and the map keeps
\* to its size (Allow); an address is blocked only for failures within one window, and
\* only the success of a request admitted before ends a block early (AuthFailure).
RequestsAreThrottled ==
  [][/\ part = "rate" => (Rate!BucketIsFair /\ Rate!EvictionIsFree /\ Rate!MapIsBounded)'
     /\ part = "auth" => Auth!BlockIsEarned' /\ Auth!UnblocksOnSuccess]_vars

\* A budget is overrun by no more than the requests already admitted can cost, pauses an
\* agent only while it is spent, warns once per period and is refilled once per period,
\* though requests check it first and pay later (CheckBudget, RecordUsage, nextReset).
BudgetsHold ==
  [][part = "budgets" => (Cost!OverrunBounded /\ Cost!PausedIsSpent /\ Cost!WarnedOnce)' /\ Cost!ResetIsDue]_vars

\* A session goes only when it is idle or deleted, and its history does not outlive all
\* bounds: in memory the LRU knows every history and keeps to its limit, in Redis every
\* list has a TTL or is about to get one (MemoryStore, SlidingWindow, RedisStore).
SessionsExpire ==
  [][/\ part = "talk" => Talk!RemovesIdle /\ Talk!HistoriesAreTracked'
     /\ part = "redis" => Redis!HistoriesExpire']_vars

\* At rest `agentspec run' serves the files on disk with the certificate on disk, and no
\* runtime of an earlier version is left (startRuntime, reload, ReloadTLSCertificate).
SettlesOnLatest ==
  part = "dev" => Dev!SettlesOnLatest /\ Dev!CertificateFollows

\* Under every strategy the model sees a result for each of its tool calls, the invocation
\* reports every token it used, and the budget is overspent by no more than the
\* strategy's concurrency allows (react, reflexion, plan, router, map-reduce).
LoopsKeepCount ==
  part = "loops" => Loops!CallsAreAnswered /\ Loops!TokensAreCounted /\ Loops!BudgetHolds

\* A server has one open connection at most, and every open one is in the pool or about to
\* be stored there, whatever Close does meanwhile (Pool.Connect, Close).
OneConnection ==
  part = "mcp" => MCP!OneConnection /\ MCP!NothingLeaks

\* A secret handed out was current within the TTL and the time of one request, although
\* answers are stored out of order (VaultResolver.Resolve).
StalenessBounded ==
  part = "vault" => Vault!StalenessBounded

\* An on_input block that succeeds reports every action carried out at any depth and binds
\* each loop variable for its body only (ExecuteBlock, executeForEach); an output that
\* fails its rules is asked for again as often as the rules allow and given up only
\* when none of the failing ones has a retry left (RetryLoop).
AgentProgramsRun ==
  /\ part = "flow" => Flow!ScopesAreKept /\ Flow!ReportIsWhole
  /\ part = "retry" => Check!RetriesBounded /\ Check!GivesUpLast

\* A call that succeeds has passed on exactly the text of its response, which is all the
\* model said unless OpenAI's connection broke; the clients of a fallback chain are tried
\* in order, each once, and a stream that has begun is not begun again (ChatStream).
ResponseIsWhole ==
  part = "stream" => Stream!TextIsWhole /\ Stream!FallsBackInOrder

\* Exactly the pipelines that can be ordered are accepted, a step starts after all it
\* depends on, with their output, and the result tells what happened to every step,
\* although the steps of a layer fail and are cancelled concurrently (BuildDAG, Execute).
PipelineIsSound ==
  part = "pipe" => Pipe!BuildsWhatIsSound /\ Pipe!DependenciesFirst /\ Pipe!OutcomeIsRight

\* A save nobody disturbs leaves its entries, or the old ones when it fails (etcd: a mixture
\* that lost nothing new); a loaded S3 object is replaced only if nobody else replaced
\* it; a migration leaves nothing of the destination's own (Save of each backend, Migrate).
\* Between commands the version history is the latest ones without a gap, and its
\* newest is never removed (SaveVersion).
SavesAreExact ==
  [][/\ part = "remote" => Remote!EndsExactly /\ Remote!EndsOnWhatItRead
     /\ part = "migrate" => Migrate!DestinationIsExplained'
     /\ part = "history" => History!RetainsLatest' /\ History!KeepsNewest]_vars

\* An apply that reports success leaves nothing for the next plan to change (apply.Apply).
Converged ==
  part = "alone" => Alone!Converged

\* Two processes never hold the state lock together, though either may die holding it, and
\* a process that is idle, waits or is dead holds none (LockWithContext, Unlock).
MutualExclusion ==
  part = "pair" => Pair!MutualExclusion /\ Pair!NoLeakedLock

\* One firing of a Schedule creates one Task at most, and the Replace policy leaves one
\* running at most, unless a status write was lost, a stale copy was read or the history
\* limit dropped its name (ScheduleReconciler.Reconcile).
FiringsAreServed ==
  part = "schedule" => Schedule!FiringsAreServed

\* At most one Release of an Agent is current at every moment of a reconcile, and a promotion
\* overwrites the Agent's spec again only when its phase could not be recorded
\* (ReleaseReconciler).
OneCurrent ==
  part = "release" => Rel!OneCurrent /\ Rel!AppliedOnce

\* An Agent at rest is Ready and its ConfigMap, Deployment and Service are built from its
\* current generation; an Agent that is deleted is not let go before its Sessions and Tasks
\* are, those its cleanup could not list excepted (AgentReconciler).
OwnedObjectsFollow ==
  part = "agent" => Agent!RestIsProvisioned /\ Agent!CleanedUp

\* A completed EvalRun reports the verdict of every test case in its own slot, whatever order
\* the goroutines finished in, and no more of them ran at once than configured
\* (EvalRunReconciler, executeTestCases).
CompletedIsWhole ==
  part = "evalrun" => EvalRun!CompletedIsWhole /\ EvalRun!ParallelismBounded

\* A Session expires only after its TTL without activity, and a StateStore loses only an entry
\* whose grace period as an orphan is over or that the reconcile had not read
\* (SessionReconciler, StateStoreReconciler).
NothingRemovedEarly ==
  [][/\ part = "session" => Session!ExpiresIdle
     /\ part = "statestore" => StateStore!RemovesOverdue]_vars

\* An object at rest reports whether its current spec is valid, and a valid one the count of the
\* last listing, through edits that race the status write and lists that fail (the
\* ToolBinding, MemoryClass, Policy and ClusterPolicy reconcilers).
RestIsTruthful ==
  /\ part = "tools" => Tools!RestIsTruthful
  /\ part = "classes" => Classes!RestIsTruthful

\* The merged policy lets a name through exactly when every policy does, if the lists of allowed
\* names have one in common, and its limits are the tightest of all (MergePolicies).
MergeIsMeet ==
  part = "policies" => Merge!MergeIsMeet /\ Merge!LimitsAreMet

\* Formatting and parsing again gives the same declaration, a file cut short is never read as a
\* smaller program, and an edit changes the attributes a plan compares (Format, the
\* block parsers, Lower).  A file that validates lowers to a program without loose ends,
\* its defaults do not hang on the order of declarations, its environments apply and it
\* can be migrated (ValidateStructural, ValidateSemantic, ApplyEnvironment, ToV2).
ToolchainKeepsProgram ==
  /\ part = "language" => Lang!FmtKeepsProgram /\ Lang!CutIsReported /\ Lang!EditIsPlanned
  /\ part = "program" => Prog!ValidIsWhole /\ Prog!DefaultsAreUnambiguous /\ Prog!OverridesApply /\ Prog!MigrationKeepsProgram

\* The walk of imports ends, circular or not; the merged program is their closure, each file
\* once; the lock file accepts the locked contents and no other; the version selected is
\* the newest asked for (Resolver, MergeImports, ValidateLockFile, MVS).  The cycles, the
\* order and the chains of the import graph are the real ones (DetectCycles,
\* TopologicalSort, DependencyChain).
ImportsAreClosed ==
  /\ part = "imports" => Import!WalkIsBounded /\ Import!MergedIsClosed /\ Import!LockIsExact /\ Import!SelectionIsSound
  /\ part = "graph" => Graph!CyclesAreReal /\ Graph!SortIsSound /\ Graph!ChainIsPath

\* What an install writes to the lock file is in the package cache with the checksum
\* recorded, and it has resolved the dependencies of everything it resolved
\* (updateLockFile, ResolveDependencies).
LockNamesTheCache ==
  [][part = "registry" => Reg!LocksCached /\ Reg!WalkIsClosed']_vars

\* With values that are not plain as well, formatting and parsing again gives the same
\* declaration (Format, Parse).
FmtKeepsProgram == part = "awkward" => Awk!FmtKeepsProgram
=============================================================================
