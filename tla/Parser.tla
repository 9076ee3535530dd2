------------------------------- MODULE Parser -------------------------------
(***************************************************************************)
(* The recursive-descent parser of IntentLang (internal/parser/parser.go)  *)
(* and the syntax tree it builds (internal/ast/ast.go); the last section   *)
(* is the lowering of the tree to resources (internal/ir/lower.go).        *)
(*                                                                         *)
(* Every parse function of the source is an operator from a token sequence *)
(* and a position to [at, is, errs]: the next position, the value and the  *)
(* number of errors added.  The block parsers of the source all run the    *)
(* same loop over a switch on keywords, so the loop is written once        *)
(* (Fields) and each block is the table of its switch: the keyword, the    *)
(* field of the node it sets, what it expects next and how it stores it.   *)
(*                                                                         *)
(* A node is a record of the fields of its Go struct without positions.    *)
(* Pointers are sequences of at most one element (<<>> is nil), maps are   *)
(* functions, HasTemp and HasDefault are whether the sequence is empty.    *)
(*                                                                         *)
(* The first section is what becomes of a value the formatter prints when  *)
(* the lexer reads it back (internal/parser/lexer.go, token.go).           *)
(* A source text is its sequence of tokens [t |-> type, v |-> literal].    *)
(* Identifiers and keywords are "word" tokens, operators are "op" tokens;  *)
(* an expression is one "expr" token, because collectExpressionUntil       *)
(* joins again the tokens the lexer splits.  A "bad" token is a place      *)
(* where Tokenize returns an error.                                        *)
(*                                                                         *)
(* Texts are abstracted to the classes the lexer tells apart:              *)
(*   ""          the empty text                                            *)
(*   "a b"       text that is not one word                                 *)
(*   "p/q"       text with a character no token starts with                *)
(*   "quo"       text with quotes, newlines, tabs or backslashes           *)
(*   "ctl"       text with another character %q escapes (\r, \x00...)      *)
(*   "\\ctl"     the same with the escape kept as letters                  *)
(*   "\n"        the literal of a newline token                            *)
(*   "e", "e\""  an expression, and one with a quote in a string literal   *)
(*   any other   a word                                                    *)
(* Numbers are "0", "1", "-1", "0.5", "0.8", "1e6" for 1000000 and         *)
(* "1e-5" for 0.00001.                                                     *)
(***************************************************************************)
EXTENDS Sequences, SequencesExt, Integers, FiniteSets, TLC

Tok(t, v) == [t |-> t, v |-> v]
Word(v)   == <<Tok("word", v)>>
Mark(c)   == <<Tok(c, c)>>
NL        == <<Tok("nl", "\n")>>
Bad       == <<Tok("bad", "?")>>

\* scanString on what %q printed: \n \t \\ \" are undone, any other escape
\* keeps its backslash.
scanString(v) == IF v = "ctl" THEN "\\ctl" ELSE v
Quoted(v)     == <<Tok("string", scanString(v))>>

\* scanIdentOrKeyword, and what nextToken makes of a text that is no word.
Bare(v) ==
  CASE v = ""                                  -> <<>>
    [] v = "\n"                                -> NL
    [] v = "a b"                               -> Word("a") \o Word("b")
    [] v \in {"p/q", "quo", "ctl", "\\ctl"}    -> Bad
    [] v \in {"e"}                             -> <<Tok("expr", v)>>
    [] v = "e\""                               -> Bad
    [] OTHER                                   -> Word(v)

\* scanNumber reads digits, dots and dashes.  %g prints 1000000 as 1e+06 and
\* 0.00001 as 1e-05.
Number(v) == <<Tok("number", v)>>
Float(v)  ==
  CASE v = "1e6"  -> Number("1") \o Word("e") \o Bad
    [] v = "1e-5" -> Number("1") \o Word("e-05")
    [] OTHER      -> Number(v)

\* Tokenize fails on the first bad character of the whole file.
Lexes(toks) == \A i \in 1 .. Len(toks) : toks[i].t # "bad"

----------------------------------------------------------------------------

Res(at, is, errs) == [at |-> at, is |-> is, errs |-> errs]

\* current, advance, skipNewlines, isAtEnd.
At(T, i)  == IF i <= Len(T) THEN T[i] ELSE Tok("eof", "")
Adv(T, i) == IF i <= Len(T) THEN i + 1 ELSE i
Skip(T, i) ==
  IF \E j \in i .. Len(T) : T[j].t # "nl"
  THEN CHOOSE j \in i .. Len(T) : T[j].t # "nl" /\ \A k \in i .. j - 1 : T[k].t = "nl"
  ELSE Len(T) + 1
IsWord(T, i, v) == At(T, i) = Tok("word", v)
Past(T, i, v)   == IF IsWord(T, i, v) THEN i + 1 ELSE i

----------------------------------------------------------------------------
\* What the expect functions accept, return and report.
expectToken(T, i, c) ==
  LET j == Skip(T, i)
  IN  IF At(T, j).t = c THEN Res(j + 1, "", 0) ELSE Res(j, "", 1)

\* One parse function after another: the errors of both are reported.
Then(r, Next(_)) == IF r.errs = 0 THEN Next(r) ELSE [Next(r) EXCEPT !.errs = @ + r.errs]

Refused(T, i, is) == Res(Adv(T, i), is, 1)

expectString(T, i) ==
  IF At(T, i).t = "string" THEN Res(i + 1, At(T, i).v, 0) ELSE Refused(T, i, At(T, i).v)

expectStringOrIdent(T, i) ==
  IF At(T, i).t \in {"string", "word", "op"}
  THEN Res(i + 1, At(T, i).v, 0) ELSE Refused(T, i, At(T, i).v)

expectInt(T, i) ==
  IF At(T, i).t = "number" /\ At(T, i).v \in {"0", "1", "-1"}
  THEN Res(i + 1, At(T, i).v, 0) ELSE Refused(T, i, "0")

expectFloat(T, i) ==
  IF At(T, i).t = "number" THEN Res(i + 1, At(T, i).v, 0) ELSE Refused(T, i, "0")

expectBool(T, i) ==
  IF IsWord(T, i, "true") \/ IsWord(T, i, "false")
  THEN Res(i + 1, At(T, i).v, 0) ELSE Refused(T, i, "false")

\* collectExpressionUntil: the text of the tokens before the first stop.
Stops(tok, stops) == tok.t \in stops \cup {"eof"} \/ (tok.t = "word" /\ tok.v \in stops)
collectExpressionUntil(T, i, stops) ==
  LET j    == CHOOSE k \in i .. Len(T) + 1 :
                /\ Stops(At(T, k), stops)
                /\ \A m \in i .. k - 1 : ~Stops(At(T, m), stops)
      toks == SelectSeq(SubSeq(T, i, j - 1), LAMBDA tok : tok.t # "nl")
      text == CASE toks = <<>>                           -> ""
                [] Len(toks) = 1 /\ toks[1].t = "string" ->
                     IF toks[1].v = "quo" THEN "e\"" ELSE "e"
                [] Len(toks) = 1                         -> toks[1].v
                [] OTHER                                 -> "e"
  IN  Res(j, text, 0)

----------------------------------------------------------------------------
\* The entries of a block's table: the field f, what is expected next and
\* how the result is stored; skip holds the words that may be left out.
Entry(f, e, s)  == [f |-> f, e |-> e, s |-> s, skip |-> <<>>]
Set(f, e)       == Entry(f, e, "set")
Ref(f, e)       == Entry(f, e, "ref")
Add(f, e)       == Entry(f, e, "add")
Map(f)          == Entry(f, "map", "map")
Merge(e)        == Entry("", e, "merge")
Pair(sub)       == Entry(sub, "pair", "pair")
After(words, x) == [x EXCEPT !.skip = words]

Store(ast, x, v) ==
  CASE x.s = "set"    -> [ast EXCEPT ![x.f] = v]
    [] x.s = "ref"    -> [ast EXCEPT ![x.f] = <<v>>]
    [] x.s = "add"    -> [ast EXCEPT ![x.f] = Append(@, v)]
    [] x.s = "concat" -> [ast EXCEPT ![x.f] = @ \o v]
    [] x.s = "map"    -> [ast EXCEPT ![x.f] = v @@ @]
    [] x.s = "merge"  -> v @@ ast

RECURSIVE PastAll(_, _, _)
PastAll(T, i, words) ==
  IF words = <<>> THEN i ELSE PastAll(T, Past(T, i, Head(words)), Tail(words))

RECURSIVE Fields(_, _, _, _, _, _), Value(_, _, _), Items(_, _, _, _, _),
          Statements(_, _, _, _), Else(_, _, _)

\* The loop every block parser runs, up to the token that stops it.  A word
\* of the table is handled, "*" stands for the default of a switch that
\* takes any token, and any other token is reported and skipped.
Fields(T, i, table, stops, ast, errs) ==
  LET j     == Skip(T, i)
      tok   == At(T, j)
      next  == At(T, j + 1)
      entry == table[tok.v]
      found == IF tok.t = "word" /\ tok.v \in DOMAIN table
               THEN IF entry.s # "pair" THEN <<entry, j + 1>>
                    ELSE IF next.t = "word" /\ next.v \in DOMAIN entry.f
                         THEN <<entry.f[next.v], j + 2>> ELSE <<>>
               ELSE IF "*" \in DOMAIN table THEN <<table["*"], j>> ELSE <<>>
      Go(x, k) == Then(Value(T, PastAll(T, k, x.skip), x.e),
                       LAMBDA r : Fields(T, r.at, table, stops, Store(ast, x, r.is), errs))
  IN  IF Stops(tok, stops) THEN Res(j, ast, errs)
      ELSE IF found = <<>> THEN Fields(T, j + 1, table, stops, ast, errs + 1)
      ELSE Go(found[1], found[2])

\* A body between braces.
Closed(T, body) == Then(body, LAMBDA b : [expectToken(T, b.at, "}") EXCEPT !.is = b.is])
Block(T, i, table, ast) ==
  Then(expectToken(T, i, "{"), LAMBDA open : Closed(T, Fields(T, open.at, table, {"}"}, ast, 0)))

\* parseStringList: no newlines are skipped inside the brackets.
RECURSIVE ListItems(_, _, _, _)
ListItems(T, i, acc, errs) ==
  CASE At(T, i).t = "]"   -> Res(i + 1, acc, errs)
    [] At(T, i).t = "eof" -> Res(i, acc, errs + 1)
    [] At(T, i).t = ","   -> ListItems(T, i + 1, acc, errs)
    [] OTHER -> Then(expectString(T, i), LAMBDA r : ListItems(T, r.at, Append(acc, r.is), errs))
parseStringList(T, i) ==
  IF At(T, i).t = "[" THEN ListItems(T, i + 1, <<>>, 0)
  ELSE LET r == expectString(T, i) IN Res(r.at, <<r.is>>, r.errs)

\* parseMetadataBlock: a key is the literal of any token.
KeyValue(T, i) ==
  LET r == expectStringOrIdent(T, Adv(T, i)) IN Res(r.at, At(T, i).v :> r.is, r.errs)
parseMetadataBlock(T, i) ==
  IF At(T, i).t # "{" THEN Res(i, <<>>, 0)
  ELSE Then(Block(T, i, "*" :> Entry("m", "entry", "map"), [m |-> <<>>]),
            LAMBDA b : Res(b.at, b.is.m, 0))

----------------------------------------------------------------------------
\* Items of a list block.  A variable and the field of a type take their
\* modifiers from the same line; the other items are read as written.
RECURSIVE Modifiers(_, _, _, _)
Modifiers(T, i, ast, errs) ==
  CASE IsWord(T, i, "required") -> Modifiers(T, i + 1, [ast EXCEPT !.Required = "true"], errs)
    [] IsWord(T, i, "default")  ->
         Then(expectString(T, i + 1),
              LAMBDA r : Modifiers(T, r.at, [ast EXCEPT !.Default = r.is], errs))
    [] OTHER -> Res(i, ast, errs)
parseVariable(T, i) ==
  Modifiers(T, Adv(T, Adv(T, i)),
            [Name |-> At(T, i).v, Type |-> At(T, i + 1).v, Required |-> "false", Default |-> ""], 0)

parseField(T, i) ==
  LET k == Adv(T, Adv(T, i))
  IN  Res(Past(T, k, "required"),
          [Name |-> At(T, i).v, Type |-> At(T, i + 1).v,
           Required |-> IF IsWord(T, k, "required") THEN "true" ELSE "false"], 0)

RECURSIVE ParamModifiers(_, _, _, _)
ParamModifiers(T, i, ast, errs) ==
  CASE IsWord(T, i, "required") -> ParamModifiers(T, i + 1, [ast EXCEPT !.Required = "true"], errs)
    [] IsWord(T, i, "secret")   -> ParamModifiers(T, i + 1, [ast EXCEPT !.Secret = "true"], errs)
    [] IsWord(T, i, "default")  ->
         Then(IF At(T, i + 1).t = "number" THEN expectFloat(T, i + 1)
              ELSE expectStringOrIdent(T, i + 1),
              LAMBDA r : ParamModifiers(T, r.at, [ast EXCEPT !.Default = <<r.is>>], errs))
    [] OTHER -> Res(i, ast, errs)
\* A string that may follow, on this line or a later one.
Message(T, j) == IF At(T, j).t = "string" THEN Res(j + 1, At(T, j).v, 0) ELSE Res(j, "", 0)
parseConfigParam(T, i) ==
  Then(expectStringOrIdent(T, i), LAMBDA name :
  Then(expectStringOrIdent(T, name.at), LAMBDA type :
  Then(ParamModifiers(T, type.at,
         [Name |-> name.is, Type |-> type.is, Required |-> "false", Secret |-> "false",
          Default |-> <<>>, Description |-> ""], 0), LAMBDA mods :
  Then(Message(T, Skip(T, mods.at)), LAMBDA text :
       Res(text.at, [mods.is EXCEPT !.Description = text.is], 0)))))

parseValidationRule(T, i) ==
  LET Retries(k) == IF IsWord(T, k, "max_retries") THEN expectInt(T, k + 1) ELSE Res(k, "0", 0)
      When(k)    == IF IsWord(T, k, "when") THEN collectExpressionUntil(T, k + 1, {"rule", "}"})
                    ELSE Res(k, "", 0)
  IN  Then(expectStringOrIdent(T, i), LAMBDA name :
      Then(expectStringOrIdent(T, name.at), LAMBDA sev :
      Then(Retries(sev.at), LAMBDA max :
      Then(Message(T, Skip(T, max.at)), LAMBDA msg :
      Then(When(Skip(T, msg.at)), LAMBDA expr :
           Res(expr.at, [Name |-> name.is, Severity |-> sev.is, MaxRetries |-> max.is,
                         Message |-> msg.is, Expression |-> expr.is], 0))))))

EvalCaseTable ==
  [input |-> Set("Input", "string"), expect |-> Set("Expected", "string"),
   scoring |-> Merge("scoring"), tags |-> Set("Tags", "list")]
parseEvalCase(T, i) ==
  Then(expectStringOrIdent(T, i), LAMBDA name :
       Fields(T, name.at, EvalCaseTable, {"case", "}"},
              [Name |-> name.is, Input |-> "", Expected |-> "", Scoring |-> "",
               Threshold |-> "0.8", Tags |-> <<>>], 0))
parseScoring(T, i) ==
  LET how == expectStringOrIdent(T, i)
      thr == expectFloat(T, how.at + 1)
  IN  IF IsWord(T, how.at, "threshold")
      THEN Res(thr.at, [Scoring |-> how.is, Threshold |-> thr.is], how.errs + thr.errs)
      ELSE Res(how.at, [Scoring |-> how.is], how.errs)

\* The blocks that are lists of items; two of them start every item with a
\* keyword and skip what is not one.
Item(T, i, kind) ==
  CASE kind = "variable" -> parseVariable(T, i)
    [] kind = "field"    -> parseField(T, i)
    [] kind = "param"    -> parseConfigParam(T, i)
    [] kind = "rule"     -> parseValidationRule(T, i + 1)
    [] kind = "case"     -> parseEvalCase(T, i + 1)
Items(T, i, kind, acc, errs) ==
  LET j == Skip(T, i)
  IN  CASE At(T, j).t \in {"}", "eof"} -> Closed(T, Res(j, acc, errs))
        [] kind \in {"rule", "case"} /\ ~IsWord(T, j, kind) -> Items(T, j + 1, kind, acc, errs + 1)
        [] OTHER -> Then(Item(T, j, kind), LAMBDA r : Items(T, r.at, kind, Append(acc, r.is), errs))
ItemBlock(T, i, kind) ==
  Then(expectToken(T, i, "{"), LAMBDA open : Items(T, open.at, kind, <<>>, 0))

----------------------------------------------------------------------------
\* The statements of an "on input" block.
Stmt(s) == [s |-> s, name |-> "", params |-> <<>>, expr |-> "",
            body |-> <<>>, elifs |-> <<>>, els |-> <<>>]

\* A brace-delimited list of statements.
Braced(T, i) ==
  Then(expectToken(T, i, "{"), LAMBDA open : Closed(T, Statements(T, open.at, <<>>, 0)))

RECURSIVE Params(_, _, _, _)
Params(T, i, m, errs) ==
  LET j        == Skip(T, i)
      Comma(k) == IF At(T, k).t = "," THEN k + 1 ELSE k
  IN  IF At(T, j).t \in {"}", "eof"} THEN Closed(T, Res(j, m, errs))
      ELSE Then(expectStringOrIdent(T, j), LAMBDA key :
           Then(expectToken(T, key.at, ":"), LAMBDA colon :
           Then(collectExpressionUntil(T, colon.at, {",", "}", "nl"}), LAMBDA val :
                Params(T, Comma(val.at), (key.is :> val.is) @@ m, errs))))
parseUseSkillStmt(T, i) ==
  LET With(k) == IF IsWord(T, k, "with")
                 THEN Then(expectToken(T, k + 1, "{"), LAMBDA open : Params(T, open.at, <<>>, 0))
                 ELSE Res(k, <<>>, 0)
  IN  Then(expectStringOrIdent(T, Past(T, i, "skill")), LAMBDA name :
      Then(With(name.at), LAMBDA with :
           Res(with.at, [Stmt("use") EXCEPT !.name = name.is, !.params = with.is], 0)))

parseDelegateToStmt(T, i) ==
  LET name == expectStringOrIdent(T, Past(T, i, "to"))
  IN  Res(name.at, [Stmt("delegate") EXCEPT !.name = name.is], name.errs)

parseRespondStmt(T, i) ==
  LET r == IF At(T, i).t = "string" THEN Res(i + 1, At(T, i).v, 0)
           ELSE collectExpressionUntil(T, i, {"nl", "}"})
  IN  Res(r.at, [Stmt("respond") EXCEPT !.expr = r.is], 0)

parseIfBlock(T, i) ==
  Then(collectExpressionUntil(T, i, {"{"}), LAMBDA cond :
  Then(Braced(T, cond.at), LAMBDA body :
       Else(T, Skip(T, body.at), [Stmt("if") EXCEPT !.expr = cond.is, !.body = body.is])))
Else(T, i, stmt) ==
  CASE ~IsWord(T, i, "else")  -> Res(i, stmt, 0)
    [] IsWord(T, i, "else") /\ IsWord(T, i + 1, "if") ->
         Then(collectExpressionUntil(T, i + 2, {"{"}), LAMBDA cond :
         Then(Braced(T, cond.at), LAMBDA body :
              Else(T, Skip(T, body.at),
                   [stmt EXCEPT !.elifs = Append(@, [expr |-> cond.is, body |-> body.is])])))
    [] OTHER -> Then(Braced(T, i + 1), LAMBDA body : Res(body.at, [stmt EXCEPT !.els = body.is], 0))

parseForEachBlock(T, i) ==
  LET In(k) == Res(Past(T, k, "in"), "", IF IsWord(T, k, "in") THEN 0 ELSE 1)
  IN  Then(expectStringOrIdent(T, Past(T, i, "each")), LAMBDA var :
      Then(In(var.at), LAMBDA in :
      Then(collectExpressionUntil(T, in.at, {"{"}), LAMBDA coll :
      Then(Braced(T, coll.at), LAMBDA body :
           Res(body.at,
               [Stmt("for") EXCEPT !.name = var.is, !.expr = coll.is, !.body = body.is], 0)))))

Statements(T, i, acc, errs) ==
  LET j == Skip(T, i)
      stmt == CASE IsWord(T, j, "use")      -> parseUseSkillStmt(T, j + 1)
                [] IsWord(T, j, "delegate") -> parseDelegateToStmt(T, j + 1)
                [] IsWord(T, j, "respond")  -> parseRespondStmt(T, j + 1)
                [] IsWord(T, j, "if")       -> parseIfBlock(T, j + 1)
                [] IsWord(T, j, "for")      -> parseForEachBlock(T, j + 1)
                [] OTHER                    -> Refused(T, j, Stmt("none"))
  IN  IF At(T, j).t \in {"}", "eof"} THEN Res(j, acc, errs)
      ELSE Then(stmt, LAMBDA r :
                Statements(T, r.at, IF r.is.s = "none" THEN acc ELSE Append(acc, r.is), errs))

parseOnInputBlock(T, i) ==
  Then(Res(Past(T, i, "input"), "", IF IsWord(T, i, "input") THEN 0 ELSE 1),
       LAMBDA on : Braced(T, on.at))

----------------------------------------------------------------------------
\* The nested blocks.
ToolTables ==
  [http    |-> [method |-> Set("Method", "string"), url |-> Set("URL", "string"),
                headers |-> Set("Headers", "map"), body_template |-> Set("BodyTemplate", "string"),
                timeout |-> Set("Timeout", "string")],
   command |-> [binary |-> Set("Binary", "string"), args |-> Set("Args", "list"),
                timeout |-> Set("Timeout", "string"), env |-> Set("Env", "map"),
                secrets |-> Set("Secrets", "map")],
   inline  |-> [language |-> Set("Language", "string"), code |-> Set("Code", "string"),
                timeout |-> Set("Timeout", "string"), memory |-> Set("MemoryLimit", "string")]]
ToolConfig ==
  [Type |-> "", ServerTool |-> "", Method |-> "", URL |-> "", Headers |-> <<>>,
   BodyTemplate |-> "", Binary |-> "", Args |-> <<>>, Timeout |-> "", Env |-> <<>>,
   Secrets |-> <<>>, Language |-> "", Code |-> "", MemoryLimit |-> ""]
parseToolConfig(T, i) ==
  LET type == At(T, i).v
      ref  == expectString(T, i + 1)
  IN  IF IsWord(T, i, "mcp")
      THEN Res(ref.at, [ToolConfig EXCEPT !.Type = "mcp", !.ServerTool = ref.is], ref.errs)
      ELSE IF At(T, i).t = "word" /\ type \in DOMAIN ToolTables
           THEN Block(T, i + 1, ToolTables[type], [ToolConfig EXCEPT !.Type = type])
           ELSE Refused(T, i, ToolConfig)

MemoryConfig == [Strategy |-> "", MaxMessages |-> "0"]
parseMemoryConfig ==
  [strategy |-> Set("Strategy", "string"), max_messages |-> Set("MaxMessages", "int")]

ResourceLimits == [CPU |-> "", Memory |-> ""]
parseResourceLimits == [cpu |-> Set("CPU", "string"), memory |-> Set("Memory", "string")]

HealthConfig == [Path |-> "", Interval |-> "", Timeout |-> ""]
parseHealthConfig ==
  [path |-> Set("Path", "string"), interval |-> Set("Interval", "string"),
   timeout |-> Set("Timeout", "string")]

AutoscaleConfig == [MinReplicas |-> "0", MaxReplicas |-> "0", Metric |-> "", Target |-> "0"]
parseAutoscaleConfig ==
  [min |-> Set("MinReplicas", "int"), max |-> Set("MaxReplicas", "int"),
   metric |-> Set("Metric", "string"), target |-> Set("Target", "int")]

\* The blocks that are a switch over their fields and nothing else.
Nested ==
  [memory |-> <<parseMemoryConfig, MemoryConfig>>, resources |-> <<parseResourceLimits, ResourceLimits>>,
   health |-> <<parseHealthConfig, HealthConfig>>, autoscale |-> <<parseAutoscaleConfig, AutoscaleConfig>>]

PipelineStep == [Name |-> "", Agent |-> "", Input |-> "", Output |-> "", DependsOn |-> <<>>,
                 Parallel |-> "false", When |-> ""]
parsePipelineStep(T, i) ==
  Then(expectString(T, i), LAMBDA name :
       Block(T, name.at,
             [agent |-> Set("Agent", "string"), input |-> Set("Input", "string"),
              output |-> Set("Output", "string"), depends_on |-> Set("DependsOn", "list"),
              parallel |-> Set("Parallel", "bool"), when |-> Set("When", "string")],
             [PipelineStep EXCEPT !.Name = name.is]))

parseDelegate(T, i) ==
  LET agent == expectString(T, i)
      cond  == expectString(T, agent.at + 1)
  IN  IF IsWord(T, agent.at, "when")
      THEN Res(cond.at, [AgentRef |-> agent.is, Condition |-> cond.is], agent.errs + cond.errs)
      ELSE Res(agent.at, [AgentRef |-> agent.is, Condition |-> ""], agent.errs)

parseExecution(T, i) ==
  LET v == expectString(T, Adv(T, i)) IN Res(v.at, [Type |-> At(T, i).v, Value |-> v.is], v.errs)

\* A value that may stand in parentheses, after env, store and secret.
Parenthesised(T, i, Expect(_, _)) ==
  Then(expectToken(T, i, "("), LAMBDA open :
  Then(Expect(T, open.at), LAMBDA v : [expectToken(T, v.at, ")") EXCEPT !.is = v.is]))
parseSource(T, i, source) ==
  LET r == IF At(T, i).t = "(" THEN Parenthesised(T, i, expectStringOrIdent)
           ELSE expectStringOrIdent(T, i)
  IN  Res(r.at, [Source |-> source, Key |-> r.is], r.errs)
parseKey(T, i) ==
  IF IsWord(T, i, "secret") THEN Parenthesised(T, i + 1, expectString) ELSE expectString(T, i)

\* "default" in a binding may stand alone.
parseDefault(T, i) ==
  IF IsWord(T, i, "true") \/ IsWord(T, i, "false") THEN Res(i + 1, At(T, i).v, 0)
  ELSE Res(i, "true", 0)

\* A resource's overrides in an environment, one by one.
parseOverrides(T, i) ==
  Then(expectString(T, Adv(T, i)), LAMBDA name :
  Then(Block(T, name.at, "*" :> Entry("o", "attribute", "add"), [o |-> <<>>]), LAMBDA body :
       Res(body.at, [k \in 1 .. Len(body.is.o) |->
                       [Resource |-> <<At(T, i).v, name.is>>] @@ body.is.o[k]], 0)))
parseAttribute(T, i) ==
  LET r == expectStringOrIdent(T, Adv(T, i))
  IN  Res(r.at, [Attribute |-> At(T, i).v, Value |-> r.is], r.errs)

\* The rest of a policy rule's line; strings.Join forgets where the tokens
\* of the subject were.
Words(v) == IF v = "a b" THEN <<"a", "b">> ELSE <<v>>
parseRule(T, i, action) ==
  LET j     == CHOOSE k \in i .. Len(T) + 1 :
                 /\ At(T, k).t \in {"nl", "}", "eof"}
                 /\ \A m \in i .. k - 1 : At(T, m).t \notin {"nl", "}"}
      parts == [k \in 1 .. j - i |-> T[i + k - 1].v]
  IN  Res(j, [Action |-> action, Resource |-> IF parts = <<>> THEN "" ELSE parts[1],
              Subject |-> FlattenSeq([k \in 1 .. Len(parts) - 1 |-> Words(parts[k + 1])])], 0)

Value(T, i, e) ==
  CASE e = "string"    -> expectString(T, i)
    [] e = "word"      -> expectStringOrIdent(T, i)
    [] e = "int"       -> expectInt(T, i)
    [] e = "float"     -> expectFloat(T, i)
    [] e = "bool"      -> expectBool(T, i)
    [] e = "list"      -> parseStringList(T, i)
    [] e = "map"       -> parseMetadataBlock(T, i)
    [] e = "entry"     -> KeyValue(T, i)
    [] e = "scoring"   -> parseScoring(T, i)
    [] e \in {"variable", "field", "param", "rule", "case"} -> ItemBlock(T, i, e)
    [] e = "on"        -> parseOnInputBlock(T, i)
    [] e = "tool"      -> parseToolConfig(T, i)
    [] e \in DOMAIN Nested -> Block(T, i, Nested[e][1], Nested[e][2])
    [] e = "step"      -> parsePipelineStep(T, i)
    [] e = "delegate"  -> parseDelegate(T, i)
    [] e = "execution" -> parseExecution(T, i)
    [] e \in {"env", "store"} -> parseSource(T, i, e)
    [] e = "key"       -> parseKey(T, i)
    [] e = "default"   -> parseDefault(T, i)
    [] e = "literals"  -> Res(Adv(T, Adv(T, i)), At(T, i).v :> At(T, i + 1).v, 0)
    [] e = "property"  -> LET r == expectString(T, Adv(T, i))
                          IN  Res(r.at, At(T, i).v :> r.is, r.errs)
    [] e = "overrides" -> parseOverrides(T, i)
    [] e = "attribute" -> parseAttribute(T, i)
    [] e \in {"deny", "allow", "require"} -> parseRule(T, i, e)

----------------------------------------------------------------------------
\* The top-level declarations: the empty node, and the switch of its parser.
Prompt == [kind |-> "Prompt", Name |-> "", Content |-> "", Variables |-> <<>>, Version |-> "",
           Metadata |-> <<>>]
parsePrompt ==
  [content |-> Set("Content", "string"), version |-> Set("Version", "string"),
   variables |-> Set("Variables", "variable"), metadata |-> Map("Metadata")]

Skill == [kind |-> "Skill", Name |-> "", Description |-> "", Input |-> <<>>, Output |-> <<>>,
          Execution |-> <<>>, ToolConfig |-> <<>>, Metadata |-> <<>>]
parseSkill ==
  [description |-> Set("Description", "string"), input |-> Set("Input", "field"),
   output |-> Set("Output", "field"), execution |-> Ref("Execution", "execution"),
   tool |-> Ref("ToolConfig", "tool"), metadata |-> Map("Metadata")]

Agent ==
  [kind |-> "Agent", Name |-> "", Prompt |-> <<>>, Skills |-> <<>>, Model |-> "", Client |-> <<>>,
   Metadata |-> <<>>, Strategy |-> "", MaxTurns |-> "0", Timeout |-> "", TokenBudget |-> "0",
   Temperature |-> <<>>, Stream |-> <<>>, OnError |-> "", MaxRetries |-> "0", Fallback |-> "",
   MemoryCfg |-> <<>>, Delegates |-> <<>>, Models |-> <<>>, BudgetDaily |-> "0",
   BudgetMonthly |-> "0", GuardrailRefs |-> <<>>, ConfigParams |-> <<>>,
   ValidationRules |-> <<>>, EvalCases |-> <<>>, OnInput |-> <<>>]
parseAgent ==
  [uses |-> Pair([prompt |-> Ref("Prompt", "string"), skill |-> Add("Skills", "string"),
                  guardrail |-> Add("GuardrailRefs", "string")]),
   model |-> Set("Model", "string"), models |-> Set("Models", "list"),
   budget |-> Pair([daily |-> Set("BudgetDaily", "float"), monthly |-> Set("BudgetMonthly", "float")]),
   connects |-> After(<<"to", "client">>, Ref("Client", "string")),
   strategy |-> Set("Strategy", "string"), max_turns |-> Set("MaxTurns", "int"),
   timeout |-> Set("Timeout", "string"), token_budget |-> Set("TokenBudget", "int"),
   temperature |-> Ref("Temperature", "float"), stream |-> Ref("Stream", "bool"),
   on_error |-> Set("OnError", "string"), max_retries |-> Set("MaxRetries", "int"),
   fallback |-> Set("Fallback", "string"), memory |-> Ref("MemoryCfg", "memory"),
   delegate |-> After(<<"to", "agent">>, Add("Delegates", "delegate")),
   metadata |-> Map("Metadata"), prompt |-> Ref("Prompt", "word"),
   config |-> Set("ConfigParams", "param"), validate |-> Set("ValidationRules", "rule"),
   eval |-> Set("EvalCases", "case"), on |-> Ref("OnInput", "on"),
   loop |-> Set("Strategy", "string")]

Binding == [kind |-> "Binding", Name |-> "", Adapter |-> "", Default |-> "false", Config |-> <<>>]
parseBinding ==
  [default |-> Set("Default", "default"), adapter |-> Set("Adapter", "string")]
  @@ ("*" :> Entry("Config", "literals", "map"))

Secret == [kind |-> "Secret", Name |-> "", Source |-> "", Key |-> ""]
parseSecret == [env |-> Merge("env"), store |-> Merge("store")]

Environment == [kind |-> "Environment", Name |-> "", Overrides |-> <<>>]
parseEnvironment == "*" :> Entry("Overrides", "overrides", "concat")

Policy == [kind |-> "Policy", Name |-> "", Rules |-> <<>>]
parsePolicy ==
  [deny |-> Add("Rules", "deny"), allow |-> Add("Rules", "allow"),
   require |-> Add("Rules", "require")]

MCPServer == [kind |-> "MCPServer", Name |-> "", Transport |-> "", Command |-> "", Args |-> <<>>,
              URL |-> "", Auth |-> <<>>, Skills |-> <<>>, Env |-> <<>>, Metadata |-> <<>>]
parseMCPServer ==
  [transport |-> Set("Transport", "word"), command |-> Set("Command", "string"),
   args |-> Set("Args", "list"), url |-> Set("URL", "string"), auth |-> Ref("Auth", "string"),
   exposes |-> After(<<"skill">>, Add("Skills", "string")), env |-> Map("Env"),
   metadata |-> Map("Metadata")]

MCPClient == [kind |-> "MCPClient", Name |-> "", Servers |-> <<>>, Metadata |-> <<>>]
parseMCPClient ==
  [connects |-> After(<<"to", "server">>, Add("Servers", "string")), metadata |-> Map("Metadata")]

DeployTarget ==
  [kind |-> "DeployTarget", Name |-> "", Target |-> "", Default |-> "false", Port |-> "0",
   Namespace |-> "", Replicas |-> "0", Image |-> "", Resources |-> <<>>, Health |-> <<>>,
   Autoscale |-> <<>>, Env |-> <<>>, Secrets |-> <<>>]
parseDeployTarget ==
  [port |-> Set("Port", "int"), default |-> Set("Default", "bool"),
   namespace |-> Set("Namespace", "string"), replicas |-> Set("Replicas", "int"),
   image |-> Set("Image", "string"), resources |-> Ref("Resources", "resources"),
   health |-> Ref("Health", "health"), autoscale |-> Ref("Autoscale", "autoscale"),
   env |-> Map("Env"), secrets |-> Map("Secrets")]

Pipeline == [kind |-> "Pipeline", Name |-> "", Steps |-> <<>>]
parsePipeline == [step |-> Add("Steps", "step")]

User == [kind |-> "User", Name |-> "", KeyRef |-> "", Agents |-> <<>>, Role |-> ""]
parseUser ==
  [key |-> Set("KeyRef", "key"), agents |-> Set("Agents", "list"), role |-> Set("Role", "string")]

Guardrail == [kind |-> "Guardrail", Name |-> "", Mode |-> "", Keywords |-> <<>>,
              Patterns |-> <<>>, FallbackMsg |-> ""]
parseGuardrail ==
  [mode |-> Set("Mode", "string"), keywords |-> Set("Keywords", "list"),
   patterns |-> Set("Patterns", "list"), fallback |-> Set("FallbackMsg", "string")]

StateConfig == [kind |-> "StateConfig", Name |-> "", Type |-> "", Properties |-> <<>>]
parseState == [type |-> Set("Type", "string")] @@ ("*" :> Entry("Properties", "property", "map"))

TypeDef == [kind |-> "TypeDef", Name |-> "", Fields |-> <<>>, EnumVals |-> <<>>, ListOf |-> ""]
Plugin  == [kind |-> "Plugin", Name |-> "", Version |-> ""]
Import  == [kind |-> "Import", Path |-> "", Version |-> "", Alias |-> ""]

----------------------------------------------------------------------------
\* A word and a string that may come next on the line.
Clause(T, i, word, Expect(_, _)) ==
  IF IsWord(T, i, word) THEN Expect(T, i + 1) ELSE Res(i, "", 0)

Declared(T, i, table, node) ==
  Then(expectString(T, i), LAMBDA name : Block(T, name.at, table, [node EXCEPT !.Name = name.is]))

DeclaredBinding(T, i) ==
  Then(expectString(T, i), LAMBDA name :
  Then(Clause(T, name.at, "adapter", expectString), LAMBDA ad :
       Block(T, ad.at, parseBinding, [Binding EXCEPT !.Name = name.is, !.Adapter = ad.is])))

DeclaredDeploy(T, i) ==
  Then(expectString(T, i), LAMBDA name :
  Then(IF IsWord(T, name.at, "target") THEN expectString(T, name.at + 1)
       ELSE Res(name.at, "", 1), LAMBDA t :
       Block(T, t.at, parseDeployTarget,
             [DeployTarget EXCEPT !.Name = name.is, !.Target = t.is])))

DeclaredState(T, i) ==
  IF At(T, i).t = "string" THEN Block(T, i + 1, parseState, [StateConfig EXCEPT !.Name = At(T, i).v])
  ELSE Block(T, i, parseState, StateConfig)

parseTypeDef(T, i) ==
  LET Body(k, node) ==
        CASE IsWord(T, k, "enum") ->
               Then(parseStringList(T, k + 1), LAMBDA l : Res(l.at, [node EXCEPT !.EnumVals = l.is], 0))
          [] IsWord(T, k, "list") -> Res(Adv(T, k + 1), [node EXCEPT !.ListOf = At(T, k + 1).v], 0)
          [] At(T, k).t = "{"     ->
               Then(ItemBlock(T, k, "variable"), LAMBDA l : Res(l.at, [node EXCEPT !.Fields = l.is], 0))
          [] OTHER                -> Res(k, node, 1)
  IN  Then(expectString(T, i), LAMBDA name : Body(name.at, [TypeDef EXCEPT !.Name = name.is]))

parsePlugin(T, i) ==
  Then(expectString(T, i), LAMBDA name :
  Then(Clause(T, name.at, "version", expectString), LAMBDA v :
       Res(v.at, [Plugin EXCEPT !.Name = name.is, !.Version = v.is], 0)))

parseImportAsStmt(T, i) ==
  Then(expectString(T, i), LAMBDA path :
  Then(Clause(T, path.at, "version", expectString), LAMBDA v :
  Then(Clause(T, v.at, "as", expectStringOrIdent), LAMBDA as :
       Res(as.at, [Import EXCEPT !.Path = path.is, !.Version = v.is, !.Alias = as.is], 0))))

Declarations ==
  [prompt |-> <<parsePrompt, Prompt>>, skill |-> <<parseSkill, Skill>>,
   agent |-> <<parseAgent, Agent>>, secret |-> <<parseSecret, Secret>>,
   environment |-> <<parseEnvironment, Environment>>, policy |-> <<parsePolicy, Policy>>,
   server |-> <<parseMCPServer, MCPServer>>, client |-> <<parseMCPClient, MCPClient>>,
   pipeline |-> <<parsePipeline, Pipeline>>, user |-> <<parseUser, User>>,
   guardrail |-> <<parseGuardrail, Guardrail>>]
parseStatement(T, i) ==
  LET w == IF At(T, i).t = "word" THEN At(T, i).v ELSE "" IN
  CASE w \in DOMAIN Declarations -> Declared(T, i + 1, Declarations[w][1], Declarations[w][2])
    [] w = "binding" -> DeclaredBinding(T, i + 1)
    [] w = "deploy"  -> DeclaredDeploy(T, i + 1)
    [] w = "plugin"  -> parsePlugin(T, i + 1)
    [] w = "type"    -> parseTypeDef(T, i + 1)
    [] w = "import"  -> parseImportAsStmt(T, i + 1)
    [] w = "state"   -> DeclaredState(T, i + 1)
    [] OTHER         -> Refused(T, i, [kind |-> "none"])

\* registerName: a second declaration of a name within its kind is an error.
registerName(stmts) ==
  Cardinality({k \in 1 .. Len(stmts) :
    /\ stmts[k].kind \notin {"Plugin", "Import", "StateConfig"}
    /\ \E m \in 1 .. k - 1 : stmts[m].kind = stmts[k].kind /\ stmts[m].Name = stmts[k].Name})

RECURSIVE Attributes(_, _, _, _)
Attributes(T, i, pkg, errs) ==
  LET v == expectString(T, i + 1) IN
  CASE IsWord(T, i, "version") -> Attributes(T, v.at, [pkg EXCEPT !.Version = v.is], errs + v.errs)
    [] IsWord(T, i, "lang")    -> Attributes(T, v.at, [pkg EXCEPT !.LangVersion = v.is], errs + v.errs)
    [] OTHER                   -> Res(i, pkg, errs)
parsePackage(T, i) ==
  Then(expectString(T, i), LAMBDA name :
  Then(Attributes(T, name.at, [Name |-> name.is, Version |-> "", LangVersion |-> ""], 0), LAMBDA pkg :
       Res(pkg.at, pkg.is, IF pkg.is.LangVersion = "1.0" THEN 1 ELSE 0)))

RECURSIVE TopLevel(_, _, _, _)
TopLevel(T, i, acc, errs) ==
  LET j == Skip(T, i)
  IN  IF At(T, j).t = "eof" THEN Res(j, acc, errs)
      ELSE Then(parseStatement(T, j), LAMBDA r :
                TopLevel(T, r.at, IF r.is.kind = "none" THEN acc ELSE Append(acc, r.is), errs))
parseFile(T) ==
  LET Package(i) == IF IsWord(T, i, "package") THEN parsePackage(T, i + 1)
                    ELSE Res(i, [Name |-> "", Version |-> "", LangVersion |-> ""], 1)
  IN  Then(Package(Skip(T, 1)), LAMBDA pkg :
      Then(TopLevel(T, pkg.at, <<>>, 0), LAMBDA body :
           Res(body.at, [Package |-> pkg.is, Statements |-> body.is], registerName(body.is))))

\* Parse: a lexical error leaves no tree.
Parse(T) ==
  IF Lexes(T) THEN parseFile(T)
  ELSE Res(1, [Package |-> [Name |-> "", Version |-> "", LangVersion |-> ""], Statements |-> <<>>], 1)

-----------------------------------------------------------------------------
(***************************************************************************)
(* Lower (internal/ir/lower.go): from a declaration of the syntax tree to  *)
(* the resource of the intermediate representation.  A resource's hash is  *)
(* computed from its attributes alone, and the plan compares hashes, so    *)
(* the attributes are what a change must reach to be applied.  References  *)
(* are the <<kind, name>> pairs of the fully qualified names.              *)
(***************************************************************************)

LOCAL Attr(k, v) == k :> v
LOCAL Opt(k, v)  == IF v = "" THEN <<>> ELSE k :> v
LOCAL Num(k, v)  == IF v \in {"0", "-1"} THEN <<>> ELSE k :> v
LOCAL Many(k, v) == IF v = <<>> THEN <<>> ELSE k :> v
LOCAL Strs(k, m) == IF DOMAIN m = {} THEN <<>> ELSE k :> m
LOCAL Bool(k, v) == IF v = "true" THEN k :> v ELSE <<>>
LOCAL One(k, v)  == IF v = <<>> THEN <<>> ELSE k :> v[1]
LOCAL Over(seq, F(_)) == [i \in 1 .. Len(seq) |-> F(seq[i])]
LOCAL Refs(kind, names) == [i \in 1 .. Len(names) |-> <<kind, names[i]>>]

Resource(attrs, refs) == [attrs |-> attrs, refs |-> refs]

lowerFields(fs) ==
  Over(fs, LAMBDA f : Attr("name", f.Name) @@ Attr("type", f.Type) @@ Bool("required", f.Required))
lowerVariables(vs) ==
  Over(vs, LAMBDA v : Attr("name", v.Name) @@ Attr("type", v.Type)
                        @@ Bool("required", v.Required) @@ Opt("default", v.Default))

lowerPrompt(s) ==
  Resource(Attr("content", s.Content) @@ Opt("version", s.Version)
             @@ Many("variables", lowerVariables(s.Variables)), <<>>)

lowerToolConfig(t) ==
  Attr("type", t.Type) @@ Opt("timeout", t.Timeout) @@
  CASE t.Type = "mcp"     -> Attr("server_tool", t.ServerTool)
    [] t.Type = "http"    -> Opt("method", t.Method) @@ Opt("url", t.URL)
                               @@ Strs("headers", t.Headers) @@ Opt("body_template", t.BodyTemplate)
    [] t.Type = "command" -> Opt("binary", t.Binary) @@ Many("args", t.Args)
                               @@ Strs("env", t.Env) @@ Strs("secrets", t.Secrets)
    [] t.Type = "inline"  -> Opt("language", t.Language) @@ Opt("code", t.Code)
                               @@ Opt("memory_limit", t.MemoryLimit)

lowerSkill(s) ==
  Resource(Attr("description", s.Description) @@ One("execution", s.Execution)
             @@ One("tool", Over(s.ToolConfig, lowerToolConfig))
             @@ Many("input", lowerFields(s.Input)) @@ Many("output", lowerFields(s.Output)), <<>>)

lowerConfigParams(ps) ==
  Over(ps, LAMBDA p : Attr("name", p.Name) @@ Attr("type", p.Type)
                        @@ Opt("description", p.Description) @@ Bool("required", p.Required)
                        @@ Bool("secret", p.Secret) @@ One("default", p.Default))
lowerValidationRules(rs) ==
  Over(rs, LAMBDA r : Attr("name", r.Name) @@ Attr("severity", r.Severity)
                        @@ Attr("expression", r.Expression)
                        @@ Num("max_retries", r.MaxRetries) @@ Opt("message", r.Message))
lowerEvalCases(cs) ==
  Over(cs, LAMBDA c : Attr("name", c.Name) @@ Attr("input", c.Input) @@ Attr("expected", c.Expected)
                        @@ Opt("scoring", c.Scoring)
                        @@ (IF c.Threshold = "0.8" THEN <<>> ELSE Attr("threshold", c.Threshold))
                        @@ Many("tags", c.Tags))

RECURSIVE lowerOnInputStmts(_)
lowerOnInputStmts(ss) ==
  Over(ss, LAMBDA s : Attr("type", s.s) @@
    CASE s.s = "use"      -> Attr("skill", s.name) @@ Strs("params", s.params)
      [] s.s = "delegate" -> Attr("agent", s.name)
      [] s.s = "respond"  -> Attr("expression", s.expr)
      [] s.s = "if"       -> Attr("condition", s.expr) @@ Attr("body", lowerOnInputStmts(s.body))
           @@ Many("else_ifs", Over(s.elifs, LAMBDA e : Attr("condition", e.expr)
                                                         @@ Attr("body", lowerOnInputStmts(e.body))))
           @@ Many("else_body", lowerOnInputStmts(s.els))
      [] s.s = "for"      -> Attr("variable", s.name) @@ Attr("collection", s.expr)
                               @@ Attr("body", lowerOnInputStmts(s.body)))

\* The agent's attributes, in the two halves of the source.
lowerAgentRuntime(s) ==
  Attr("model", s.Model) @@ One("prompt", s.Prompt) @@ Many("skills", s.Skills)
    @@ One("client", s.Client) @@ Opt("strategy", s.Strategy) @@ Num("max_turns", s.MaxTurns)
    @@ Opt("timeout", s.Timeout) @@ Num("token_budget", s.TokenBudget)
    @@ One("temperature", s.Temperature) @@ One("stream", s.Stream) @@ Opt("on_error", s.OnError)
    @@ Num("max_retries", s.MaxRetries) @@ Opt("fallback", s.Fallback)
    @@ One("memory", Over(s.MemoryCfg, LAMBDA m : Opt("strategy", m.Strategy)
                                                    @@ Num("max_messages", m.MaxMessages)))
    @@ Many("delegates", s.Delegates)
lowerAgentExtensions(s) ==
  Many("config_params", lowerConfigParams(s.ConfigParams))
    @@ Many("validation_rules", lowerValidationRules(s.ValidationRules))
    @@ Many("eval_cases", lowerEvalCases(s.EvalCases))
    @@ One("on_input", Over(s.OnInput, lowerOnInputStmts))
    @@ Many("models", s.Models) @@ Num("budget_daily", s.BudgetDaily)
    @@ Num("budget_monthly", s.BudgetMonthly) @@ Many("guardrails", s.GuardrailRefs)
lowerAgentRefs(s) ==
  Refs("Prompt", s.Prompt) \o Refs("Skill", s.Skills) \o Refs("MCPClient", s.Client)
    \o (IF s.Fallback = "" THEN <<>> ELSE <<<<"Agent", s.Fallback>>>>)
    \o [i \in 1 .. Len(s.Delegates) |-> <<"Agent", s.Delegates[i].AgentRef>>]
    \o Refs("Guardrail", s.GuardrailRefs)
lowerAgent(s) == Resource(lowerAgentRuntime(s) @@ lowerAgentExtensions(s), lowerAgentRefs(s))

lowerMCPServer(s) ==
  Resource(Attr("transport", s.Transport) @@ Opt("command", s.Command) @@ Many("args", s.Args)
             @@ Opt("url", s.URL) @@ Strs("env", s.Env) @@ One("auth", s.Auth),
           Refs("Secret", s.Auth) \o Refs("Skill", s.Skills))

lowerMCPClient(s) == Resource(Many("servers", s.Servers), Refs("MCPServer", s.Servers))

lowerSecret(s) == Resource(Attr("source", s.Source) @@ Attr("key", s.Key), <<>>)

lowerEnvironment(s) == Resource(Attr("name", s.Name) @@ Attr("overrides", s.Overrides), <<>>)

lowerTypeDef(s) ==
  Resource(Attr("name", s.Name) @@ Many("enum", s.EnumVals) @@ Opt("list_of", s.ListOf)
             @@ Many("fields", lowerVariables(s.Fields)), <<>>)

lowerPipeline(s) ==
  Resource(Attr("name", s.Name) @@
             Many("steps", Over(s.Steps, LAMBDA p : Attr("name", p.Name) @@ Opt("agent", p.Agent)
               @@ Opt("input", p.Input) @@ Opt("output", p.Output)
               @@ Many("depends_on", p.DependsOn) @@ Bool("parallel", p.Parallel)
               @@ Opt("when", p.When))),
           FlattenSeq(Over(s.Steps, LAMBDA p : IF p.Agent = "" THEN <<>> ELSE <<<<"Agent", p.Agent>>>>)))

lowerUser(s) ==
  Resource(Attr("key_ref", s.KeyRef) @@ Many("agents", s.Agents) @@ Opt("role", s.Role), <<>>)

lowerGuardrail(s) ==
  Resource(Opt("mode", s.Mode) @@ Many("keywords", s.Keywords) @@ Many("patterns", s.Patterns)
             @@ Opt("fallback", s.FallbackMsg), <<>>)

\* The declarations kept beside the resources.
lowerPolicy(s)  == Resource(Attr("rules", s.Rules), <<>>)
lowerBinding(s) ==
  Resource(Attr("adapter", s.Adapter) @@ Bool("default", s.Default) @@ Strs("config", s.Config), <<>>)
lowerImport(s)  ==
  Resource(Attr("path", s.Path) @@ Opt("version", s.Version) @@ Opt("alias", s.Alias), <<>>)
lowerStateConfig(s) == Resource(Attr("type", s.Type) @@ Attr("properties", s.Properties), <<>>)
lowerDeployTarget(s) ==
  Resource(Attr("target", s.Target) @@ Bool("default", s.Default) @@ Num("port", s.Port)
    @@ Opt("namespace", s.Namespace) @@ Num("replicas", s.Replicas) @@ Opt("image", s.Image)
    @@ One("resources", Over(s.Resources, LAMBDA r : Opt("cpu", r.CPU) @@ Opt("memory", r.Memory)))
    @@ One("health", Over(s.Health, LAMBDA h : Opt("path", h.Path) @@ Opt("interval", h.Interval)
                                                 @@ Opt("timeout", h.Timeout)))
    @@ One("autoscale", Over(s.Autoscale, LAMBDA a : Num("min_replicas", a.MinReplicas)
             @@ Num("max_replicas", a.MaxReplicas) @@ Opt("metric", a.Metric)
             @@ Num("target", a.Target)))
    @@ Strs("env", s.Env) @@ Strs("secrets", s.Secrets), <<>>)

Lower(s) ==
  CASE s.kind = "Prompt"      -> lowerPrompt(s)
    [] s.kind = "Skill"       -> lowerSkill(s)
    [] s.kind = "Agent"       -> lowerAgent(s)
    [] s.kind = "MCPServer"   -> lowerMCPServer(s)
    [] s.kind = "MCPClient"   -> lowerMCPClient(s)
    [] s.kind = "Secret"      -> lowerSecret(s)
    [] s.kind = "Environment" -> lowerEnvironment(s)
    [] s.kind = "TypeDef"     -> lowerTypeDef(s)
    [] s.kind = "Pipeline"    -> lowerPipeline(s)
    [] s.kind = "User"        -> lowerUser(s)
    [] s.kind = "Guardrail"   -> lowerGuardrail(s)
    [] s.kind = "Policy"      -> lowerPolicy(s)
    [] s.kind = "Binding"     -> lowerBinding(s)
    [] s.kind = "Import"      -> lowerImport(s)
    [] s.kind = "StateConfig" -> lowerStateConfig(s)
    [] s.kind = "DeployTarget" -> lowerDeployTarget(s)
    [] s.kind = "Plugin"      -> Resource(<<>>, <<>>)
=============================================================================
