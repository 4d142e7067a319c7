------------------------------- MODULE Parser --------------------------------
(***************************************************************************)
(* The recursive descent parser (lib/Parser/Parser.cpp) and the names it   *)
(* keeps (lib/Parser/ParserContext.cpp).                                   *)
(*                                                                         *)
(* The calls of parseScope that are under way are the sequence "frames";   *)
(* an action handles one construct of the input: a let, a declaration, a   *)
(* statement, the head of a loop or of a range check, a closing brace.     *)
(* The text is unknown: whenever the parser reads on, any construct or the *)
(* end of the file may come next.  Constructs are whole: a file that ends  *)
(* inside of one is a file that ends after it.  A malformed head of a loop *)
(* or of a check keeps its parentheses.                                    *)
(***************************************************************************)
EXTENDS Integers, Sequences, FiniteSets

CONSTANTS
  Input,     \* the constructs that a file may hold
  MaxInput,  \* bound: the number of constructs in a file
  NoName     \* a declaration without a name

\* A file may be empty, but it is read.
ASSUME BoundAssumption == MaxInput \in Nat \ {0}

VARIABLES
  debug,     \* the build checks assertions (the default of CMakeLists.txt)
  tok,       \* the construct at the current token
  read,      \* how many constructs were read
  depth,     \* braces opened minus braces closed in the text before tok
  pc,        \* where the parser is
  frames,    \* the scopes that are being parsed, the innermost last
  lets,      \* letStack_
  loops,     \* loopNextStack_
  locals,    \* varMap_ and varStack_: the variables of the program
  args,      \* argMap_
  nodes,     \* the statements created so far
  program,   \* the program was registered
  pragmas,   \* the number of registered pragmas
  failed,    \* getNumErrors() > 0
  crashed    \* an assertion failed, or the process got a signal

lexer   == <<tok, read, depth>>
context == <<lets, loops, locals>>
vars    == <<debug, lexer, pc, frames, context, args, nodes, program, pragmas,
             failed, crashed>>

-----------------------------------------------------------------------------
(* Input.                                                                  *)

Eof  == [k |-> "eof"]
Junk == [k |-> "junk"]  \* tokens that start no construct

\* The braces of a construct: how much deeper the text after it is.
Braces(c) ==
  IF c.k \in {"for", "if", "body", "script"} THEN IF c.brace THEN 1 ELSE 0
  ELSE IF c.k = "close" THEN -1 ELSE 0

\* consumeToken: the construct was used up.
Lex ==
  /\ tok' \in {Eof} \union (IF read < MaxInput THEN Input ELSE {})
  /\ read' = read + 1
  /\ depth' = depth + Braces(tok)

\* The same when the parser stopped inside of the construct (rest).
LexRest(rest) ==
  IF rest THEN tok' = Junk /\ read' = read /\ depth' = depth + Braces(tok)
  ELSE Lex

\* ParserContext::diagnose at the token t.  getLineCol asserts that the position
\* is before the end of the buffer.
Diagnose(t) ==
  IF t = Eof /\ debug THEN crashed' = TRUE /\ failed' = failed
  ELSE failed' = TRUE /\ crashed' = crashed

-----------------------------------------------------------------------------
(* Names.                                                                  *)

\* getByName, getLoopByName: the last entry with the name, or 0.
getByName(stack, name) ==
  LET hits == {j \in DOMAIN stack : stack[j].name = name}
  IN  IF hits = {} THEN 0 ELSE CHOOSE j \in hits : \A m \in hits : m <= j

-----------------------------------------------------------------------------
(* Expressions.  The result of parsing one is what is known of the built   *)
(* tree: its type (kind and width), its value when it is a constant (const *)
(* now, fold when it is simplified), the loops and the variables it reads. *)
(* "rest": the parser stopped in the middle of the text of the expression. *)

Value(ty, const, ls, vs) ==
  [st |-> "ok", rest |-> FALSE, ty |-> ty, const |-> const, fold |-> const,
   loops |-> ls, locals |-> vs]
IndexTy == <<"index", 1>>
NoType  == <<>>

\* A null pointer is returned; the error was diagnosed.
Null(rest) == [Value(IndexTy, {}, {}, {}) EXCEPT !.st = "null", !.rest = rest]
Crash      == [Value(IndexTy, {}, {}, {}) EXCEPT !.st = "crash"]

\* parseExprPrimary for an identifier without a subscript.
parseName(name) ==
  LET L == getByName(loops, name)
      V == getByName(locals, name)
      E == getByName(lets, name)
  IN  IF L # 0 THEN Value(IndexTy, {}, {loops[L].id}, {})
      ELSE IF V # 0 THEN Value(locals[V].ty, {}, {}, {name})
      ELSE IF E # 0 THEN lets[E].exp
      ELSE Null(FALSE)

parseSimple(e) ==
  CASE e.k = "int"  -> Value(IndexTy, {e.val}, {}, {})
    [] e.k = "fp"   -> Value(<<"float", 1>>, {}, {}, {})
    [] e.k = "name" -> parseName(e.name)
    [] OTHER        -> Null(TRUE)

\* parseSubscriptList: the expressions ix between brackets or parentheses.
parseSubscriptList(ix) ==
  LET r == [j \in DOMAIN ix |-> parseSimple(ix[j])]
  IN  IF \E j \in DOMAIN ix : r[j].st # "ok" \/ r[j].rest THEN Null(TRUE)
      ELSE Value(IndexTy, {}, UNION {r[j].loops : j \in DOMAIN ix},
                              UNION {r[j].locals : j \in DOMAIN ix})

\* An access of type ty to the argument a, with the result e of parsing its
\* subscripts: their number is checked, and the constructor of GEPExpr asserts that
\* they are indices.
Accessed(e, a, ix, ty) ==
  IF e.st = "ok" /\ Len(ix) # a.dims THEN Null(FALSE)
  ELSE IF e.st = "ok" /\ debug /\ \E j \in DOMAIN ix : parseSimple(ix[j]).ty[1] # "index"
  THEN Crash
  ELSE [e EXCEPT !.ty = ty]
Access(a, ix, ty) == Accessed(parseSubscriptList(ix), a, ix, ty)

\* parseExprPrimary.  Loops and variables are found before arguments: their
\* subscript is not read.
parseExprPrimary(e) ==
  LET A == getByName(args, e.name)
  IN  IF e.k # "sub" THEN parseSimple(e)
      ELSE IF getByName(loops, e.name) # 0 \/ getByName(locals, e.name) # 0
      THEN [parseName(e.name) EXCEPT !.rest = TRUE]
      ELSE IF A = 0 THEN Null(TRUE)
      ELSE Access(args[A], e.ix, <<args[A].ty[1], e.w>>)

\* tryToAdjustTypes: a scalar operand is broadcast to the width of the other.
AdjustedTypes(lt, rt) ==
  IF lt = rt THEN <<lt, rt>>
  ELSE IF rt[2] = 1 THEN <<lt, <<rt[1], lt[2]>>>>
  ELSE IF lt[2] = 1 THEN <<<<lt[1], rt[2]>>, rt>>
  ELSE <<lt, rt>>

\* parseExpr on two operands and an operator between them.  The left operand is
\* used before anybody looks whether it is null.
Binary(l, op, r) ==
  IF l.rest \/ l.st = "crash" THEN l
  ELSE IF r.st # "ok" THEN r
  ELSE IF op # "+" THEN Null(r.rest)
  ELSE IF l.st = "null" THEN Crash
  ELSE LET t == AdjustedTypes(l.ty, r.ty)
       IN  IF t[1] # t[2] THEN Null(r.rest)
           ELSE [st |-> "ok", rest |-> r.rest, ty |-> t[1], const |-> {},
                 fold |-> {x + y : x \in l.const, y \in r.const},
                 loops |-> l.loops \union r.loops, locals |-> l.locals \union r.locals]

parseExpr(e) ==
  IF e.k = "op" THEN Binary(parseExprPrimary(e.lhs), e.op, parseExprPrimary(e.rhs))
  ELSE parseExprPrimary(e)

\* parseIntegerLiteralOrLetConstant, and parseLiteralOrDimExpr, which also knows
\* the dimensions of arguments: the set of the value, empty after an error.
parseIntegerLiteralOrLetConstant(e) ==
  LET E == IF e.k = "name" THEN getByName(lets, e.name) ELSE 0
  IN  IF e.k = "int" THEN {e.val} ELSE IF E # 0 THEN lets[E].exp.const ELSE {}
parseLiteralOrDimExpr(e) ==
  LET A == IF e.k = "dim" THEN getByName(args, e.name) ELSE 0
  IN  IF e.k = "dim" THEN IF A # 0 THEN {args[A].size} \ {0} ELSE {}
      ELSE parseIntegerLiteralOrLetConstant(e)

-----------------------------------------------------------------------------
(* The program.                                                            *)

Init ==
  /\ debug \in BOOLEAN
  /\ tok \in Input \union {Eof}
  /\ read = 1 /\ depth = 0
  /\ pc = "top"
  /\ frames = <<>> /\ nodes = <<>>
  /\ lets = <<>> /\ loops = <<>> /\ locals = <<>> /\ args = <<>>
  /\ program = FALSE /\ pragmas = 0
  /\ failed = FALSE /\ crashed = FALSE

Abort == crashed' = TRUE /\ UNCHANGED <<debug, lexer, pc, frames, context, args,
                                        nodes, program, pragmas, failed>>

\* A new statement in the innermost scope: the loops and the variables that it
\* reads, and the loops around it.
NewNode(k, e) ==
  LET around == {m \in DOMAIN frames : frames[m].k = "loop"}
  IN  Append(nodes, [k |-> k, reads |-> e.loops, locals |-> e.locals,
                     inside |-> {frames[m].id : m \in around}])

\* parseScope enters the body of the node id: it remembers the level of the lets
\* and expects a brace.  bad: an error was diagnosed before.
EnterScope(k, id, brace, bad) ==
  /\ frames' = Append(frames, [k |-> k, id |-> id, level |-> Len(lets)])
  /\ pc' = "round"
  /\ IF brace THEN failed' = (failed \/ bad) /\ UNCHANGED crashed ELSE Diagnose(tok')

\* parseScope after a null statement or a failed declaration: the rest up to a
\* closing brace, of whatever scope, is skipped.
Fail ==
  /\ pc' = "skip" /\ failed' = TRUE
  /\ Lex
  /\ UNCHANGED <<debug, frames, context, args, nodes, program, pragmas, crashed>>

-----------------------------------------------------------------------------
(* parse and parseFunctionDecl.                                            *)

ParseFunctionDecl ==
  /\ pc = "top" /\ tok.k = "func"
  /\ pc' = "args"
  /\ Lex
  /\ UNCHANGED <<debug, frames, context, args, nodes, program, pragmas, failed, crashed>>

\* parse: "expecting function decleration".
NoFunction ==
  /\ pc = "top" /\ tok.k \notin {"let", "func"}
  /\ pc' = "done"
  /\ Diagnose(tok)
  /\ UNCHANGED <<debug, lexer, frames, context, args, nodes, program, pragmas>>

\* An argument.  The first one has to be there and well-formed; one with a known
\* name is ignored; a malformed one gets the type of the argument before it, and
\* the parser goes on at the next one.
ParseArgument ==
  /\ pc = "args" /\ tok.k = "arg" /\ (args # <<>> \/ tok.good)
  /\ LET known == getByName(args, tok.name) # 0
         type  == IF tok.good THEN tok ELSE args[Len(args)]
     IN  /\ args' = IF known THEN args
                    ELSE Append(args, [name |-> tok.name, ty |-> type.ty,
                                       dims |-> type.dims, size |-> type.size])
         /\ failed' = (failed \/ known \/ ~tok.good)
         /\ pc' = IF tok.good THEN "args" ELSE "find_arg"
  /\ Lex
  /\ UNCHANGED <<debug, frames, context, nodes, program, pragmas, crashed>>

\* The first argument is missing or malformed: the function returns null.
NoArgument ==
  /\ pc = "args" /\ args = <<>> /\ ~(tok.k = "arg" /\ tok.good)
  /\ pc' = "after"
  /\ Diagnose(tok)
  /\ UNCHANGED <<debug, lexer, frames, context, args, nodes, program, pragmas>>

\* skipUntil(comma).  A name that follows a comma elsewhere in the file would
\* become an argument, too, of a program that is rejected: this is left out.
FindArgument ==
  /\ pc = "find_arg"
  /\ IF tok.k = "arg" \/ tok = Eof THEN pc' = "args" /\ UNCHANGED lexer
     ELSE Lex /\ UNCHANGED pc
  /\ UNCHANGED <<debug, frames, context, args, nodes, program, pragmas, failed, crashed>>

\* ") {", and the error when something else comes after the arguments: then the
\* parser looks for a left brace.
ParseBody ==
  /\ pc = "args" /\ args # <<>> /\ tok.k = "body"
  /\ Lex
  /\ EnterScope("program", 0, tok.brace, FALSE)
  /\ UNCHANGED <<debug, context, args, nodes, program, pragmas>>

NoBody ==
  /\ pc = "args" /\ args # <<>> /\ tok.k \notin {"arg", "body"}
  /\ pc' = "find_body"
  /\ Diagnose(tok)
  /\ UNCHANGED <<debug, lexer, frames, context, args, nodes, program, pragmas>>

FindBody ==
  /\ pc = "find_body"
  /\ IF Braces(tok) = 1 THEN Lex /\ EnterScope("program", 0, TRUE, TRUE)
     ELSE IF tok = Eof
     THEN Diagnose(tok) /\ frames' = <<[k |-> "program", id |-> 0, level |-> Len(lets)]>>
          /\ pc' = "round" /\ UNCHANGED lexer
     ELSE Lex /\ UNCHANGED <<pc, frames, failed, crashed>>
  /\ UNCHANGED <<debug, context, args, nodes, program, pragmas>>

-----------------------------------------------------------------------------
(* parseScope: in every round lets, then declarations, then one statement. *)

\* parseLetStmt, before the function and in a scope.
ParseLet ==
  /\ pc \in {"top", "round", "lets"} /\ tok.k = "let"
  /\ \E e \in {parseExpr(tok.exp)} :
         \/ /\ e.st = "ok"
            /\ lets' = Append(lets, [name |-> tok.name,
                                     exp  |-> [e EXCEPT !.const = e.fold, !.rest = FALSE]])
            /\ failed' = (failed \/ tok.name = NoName)
            /\ pc' = IF pc = "top" THEN "top" ELSE "lets"
            /\ LexRest(e.rest)
            /\ UNCHANGED <<debug, frames, loops, locals, args, nodes, program, pragmas,
                           crashed>>
         \/ /\ e.st = "null" /\ pc # "top"
            /\ Fail
         \/ /\ e.st = "null" /\ pc = "top"
            /\ pc' = "done" /\ failed' = TRUE
            /\ UNCHANGED <<debug, lexer, frames, context, args, nodes, program, pragmas,
                           crashed>>
         \/ /\ e.st = "crash"
            /\ Abort

\* Fault: no check for a variable with the same name.
NeverDeclared(name) == FALSE

\* parseVarDecl: "variable with this name already exists", in any scope.
AlreadyDeclared(name) == getByName(locals, name) # 0

\* parseVarDecl.  A null initial value is taken for no initial value.
ParseVar ==
  /\ pc \in {"round", "lets", "vars"} /\ tok.k = "var"
  /\ \E e \in {IF tok.init THEN parseExpr(tok.exp) ELSE Null(FALSE)} :
     LET known == AlreadyDeclared(tok.name)
         stored == tok.init /\ e.st = "ok"
         mismatch == stored /\ e.ty # tok.ty
         bad == known \/ mismatch \/ tok.name = NoName \/ (tok.init /\ ~stored)
     IN  IF tok.ty = NoType THEN Fail
         ELSE IF e.st = "crash" THEN Abort
         ELSE /\ locals' = IF known THEN locals
                           ELSE Append(locals, [name |-> tok.name, ty |-> tok.ty])
              /\ nodes' = IF stored /\ ~known /\ ~mismatch
                          THEN NewNode("storelocal", [e EXCEPT !.locals = @ \union {tok.name}])
                          ELSE nodes
              /\ failed' = (failed \/ bad)
              /\ pc' = IF known \/ mismatch THEN "skip" ELSE "vars"
              /\ LexRest(e.rest)
              /\ UNCHANGED <<debug, frames, lets, loops, args, program, pragmas, crashed>>

\* The current token is where parseScope calls parseOneStmt.  A scope that ends
\* with a let or a declaration, and a let after a declaration, get there.
AtStmt ==
  \/ pc = "round" /\ tok.k \notin {"close", "let", "var"}
  \/ pc = "lets"  /\ tok.k \notin {"let", "var"}
  \/ pc = "vars"  /\ tok.k # "var"

\* A store to a variable, a call and a store to an argument: what parseOneStmt
\* makes of an identifier.  e is the result of the stored expression, g of the access.
AssignResult(s, e) ==
  IF e.st # "ok" THEN e
  ELSE IF e.ty # locals[getByName(locals, s.name)].ty THEN Null(e.rest)
  ELSE [e EXCEPT !.locals = @ \union {s.name}]
StoreResult(g, e) ==
  IF g.st = "null" /\ g.rest THEN g
  ELSE IF e.st # "ok" THEN e
  ELSE IF g.st # "ok" THEN g
  ELSE [e EXCEPT !.loops = @ \union g.loops, !.locals = @ \union g.locals]

StmtResult(s) ==
  LET V == getByName(locals, s.name)
      A == getByName(args, s.name)
  IN  CASE s.k = "assign" /\ V # 0 -> AssignResult(s, parseExpr(s.exp))
        [] s.k = "call" /\ V = 0   -> parseSubscriptList(s.ix)
        [] s.k = "store" /\ V = 0 /\ A # 0 ->
             StoreResult(Access(args[A], s.ix, args[A].ty), parseExpr(s.exp))
        [] OTHER -> Null(TRUE)

ParseSimpleStmt ==
  /\ AtStmt /\ tok.k \in {"assign", "call", "store"}
  /\ \E e \in {StmtResult(tok)} :
         \/ /\ e.st = "ok"
            /\ nodes' = NewNode(tok.k, e)
            /\ pc' = "round"
            /\ LexRest(e.rest)
            /\ UNCHANGED <<debug, frames, context, args, program, pragmas, failed, crashed>>
         \/ e.st = "null" /\ Fail
         \/ e.st = "crash" /\ Abort

\* parseForStmt.  head: "ok"; "range" when the range is malformed, which makes it 0;
\* "early" when something before the range is.  The remainder of the division by
\* a stride of 0 is a signal.
ParseFor ==
  /\ AtStmt /\ tok.k = "for"
  /\ \E end \in {IF tok.head = "ok" THEN parseLiteralOrDimExpr(tok.end) ELSE {}} :
     LET given  == end # {} /\ tok.strided
         step   == IF given THEN parseIntegerLiteralOrLetConstant(tok.stride) ELSE {}
         endRange == IF end = {} THEN 0 ELSE CHOOSE n \in end : TRUE
         stride   == IF step = {} THEN 1 ELSE CHOOSE n \in step : TRUE
         id     == Len(nodes) + 1
     IN  IF tok.head = "early" THEN Fail
         ELSE IF stride = 0 THEN Abort
         ELSE IF endRange % stride # 0 THEN Fail
         ELSE /\ nodes' = NewNode("loop", Null(FALSE))
              /\ loops' = Append(loops, [name |-> tok.name, id |-> id])
              /\ Lex
              /\ EnterScope("loop", id, tok.brace, end = {} \/ (given /\ step = {}))
              /\ UNCHANGED <<debug, lets, locals, args, program, pragmas>>

\* parseIfStmt.  After an error in its head the check is created all the same, with
\* a null index when that was the error.
ParseIf ==
  /\ AtStmt /\ tok.k = "if"
  /\ \E e \in {parseExpr(tok.exp)} :
     LET inRange == e.st = "ok" /\ ~e.rest /\ parseLiteralOrDimExpr(tok.start) # {}
                                           /\ parseLiteralOrDimExpr(tok.end) # {}
     IN  IF e.st = "crash" THEN Abort
         ELSE /\ nodes' = NewNode("if", e)
              /\ Lex
              /\ EnterScope("if", Len(nodes) + 1, tok.brace, ~inRange)
              /\ UNCHANGED <<debug, context, args, program, pragmas>>

\* Fault: the statement is skipped without a diagnosis.
ParseUnknownQuietly ==
  /\ AtStmt /\ tok.k \notin {"assign", "call", "store", "for", "if"}
  /\ pc' = "skip"
  /\ UNCHANGED <<debug, lexer, frames, context, args, nodes, program, pragmas, failed, crashed>>

\* parseOneStmt: "unknown statement in scope body".
ParseUnknown ==
  /\ AtStmt /\ tok.k \notin {"assign", "call", "store", "for", "if"}
  /\ pc' = "skip"
  /\ Diagnose(tok)
  /\ UNCHANGED <<debug, lexer, frames, context, args, nodes, program, pragmas>>

\* Fault: looks for the brace only.
SkipPastEof ==
  /\ pc = "skip" /\ tok.k # "close"
  /\ Lex
  /\ UNCHANGED <<debug, pc, frames, context, args, nodes, program, pragmas, failed, crashed>>

\* skipUntil(r_brace).
SkipConstruct ==
  /\ pc = "skip" /\ tok.k \notin {"close", "eof"}
  /\ Lex
  /\ UNCHANGED <<debug, pc, frames, context, args, nodes, program, pragmas, failed, crashed>>

\* Fault: the lets stay.
KeepLets(level) == lets

\* The end of parseScope: the lets of the scope are forgotten (restoreStack).
RestoreLets(level) == SubSeq(lets, 1, level)

\* Fault: the loop stays on the stack.
KeepLoop(scope) == loops

\* The end of parseForStmt pops its loop.
PopLoop(scope) == IF scope.k = "loop" THEN SubSeq(loops, 1, Len(loops) - 1) ELSE loops

\* end_scope, and the return to the scope around it or to parse.
EndScope ==
  /\ \/ pc = "round" /\ tok.k = "close"
     \/ pc = "skip" /\ tok.k \in {"close", "eof"}
  /\ LET scope == frames[Len(frames)]
     IN  /\ frames' = SubSeq(frames, 1, Len(frames) - 1)
         /\ lets' = RestoreLets(scope.level)
         /\ loops' = PopLoop(scope)
         /\ program' = (program \/ scope.k = "program")
         /\ pc' = IF scope.k = "program" THEN "after" ELSE "round"
  /\ IF tok = Eof THEN Diagnose(tok) /\ UNCHANGED lexer
     ELSE Lex /\ UNCHANGED <<failed, crashed>>
  /\ UNCHANGED <<debug, locals, args, nodes, pragmas>>

-----------------------------------------------------------------------------
(* parse after the function, and parseScriptDecl.                          *)

\* head: "ok", or "early" when the keyword "for" is missing (the file is skipped).
ParseScript ==
  /\ pc = "after" /\ tok.k = "script"
  /\ IF tok.head = "ok"
     THEN /\ pc' = "script"
          /\ Lex
          /\ IF tok.brace THEN UNCHANGED <<failed, crashed>> ELSE Diagnose(tok')
     ELSE /\ pc' = "end"
          /\ failed' = TRUE
          /\ tok' = Eof
          /\ UNCHANGED <<read, depth, crashed>>
  /\ UNCHANGED <<debug, frames, context, args, nodes, program, pragmas>>

ParsePragma ==
  /\ pc = "script" /\ tok.k = "pragma"
  /\ pragmas' = IF tok.good THEN pragmas + 1 ELSE pragmas
  /\ pc' = IF tok.good THEN "script" ELSE "script_skip"
  /\ failed' = (failed \/ ~tok.good)
  /\ Lex
  /\ UNCHANGED <<debug, frames, context, args, nodes, program, crashed>>

\* Fault: goes on with the next command, like the other errors of a script.
UnknownPragmaContinues ==
  /\ pc = "script" /\ tok.k \notin {"pragma", "close"}
  /\ pc' = "script_skip"
  /\ Diagnose(tok)
  /\ UNCHANGED <<debug, lexer, frames, context, args, nodes, program, pragmas>>

\* "unknown command name": the function returns at the next brace, which it leaves
\* to parse.
UnknownPragma ==
  /\ pc = "script" /\ tok.k \notin {"pragma", "close"}
  /\ pc' = "script_return"
  /\ Diagnose(tok)
  /\ UNCHANGED <<debug, lexer, frames, context, args, nodes, program, pragmas>>

SkipPragma ==
  /\ pc \in {"script_skip", "script_return"}
  /\ IF tok.k \in {"close", "eof"}
     THEN /\ pc' = IF pc = "script_skip" THEN "script" ELSE "end"
          /\ UNCHANGED lexer
     ELSE Lex /\ UNCHANGED pc
  /\ UNCHANGED <<debug, frames, context, args, nodes, program, pragmas, failed, crashed>>

EndScript ==
  /\ pc = "script" /\ tok.k = "close"
  /\ pc' = "end"
  /\ Lex
  /\ UNCHANGED <<debug, frames, context, args, nodes, program, pragmas, failed, crashed>>

\* Fault: does not look at what follows.
EndParseAnywhere ==
  /\ pc = "end" \/ (pc = "after" /\ tok.k # "script")
  /\ pc' = "done"
  /\ UNCHANGED <<debug, lexer, frames, context, args, nodes, program, pragmas, failed, crashed>>

\* "expecting eof of file after function".
EndParse ==
  /\ pc = "end" \/ (pc = "after" /\ tok.k # "script")
  /\ pc' = "done"
  /\ IF tok = Eof THEN UNCHANGED <<failed, crashed>> ELSE Diagnose(tok)
  /\ UNCHANGED <<debug, lexer, frames, context, args, nodes, program, pragmas>>

Done ==
  /\ pc = "done" \/ crashed
  /\ UNCHANGED vars

Next ==
  \/ /\ ~crashed
     /\ \/ ParseFunctionDecl \/ NoFunction
        \/ ParseArgument \/ NoArgument \/ FindArgument
        \/ ParseBody \/ NoBody \/ FindBody
        \/ ParseLet \/ ParseVar
        \/ ParseSimpleStmt \/ ParseFor \/ ParseIf \/ ParseUnknown
        \/ SkipConstruct \/ EndScope
        \/ ParseScript \/ ParsePragma \/ UnknownPragma \/ SkipPragma \/ EndScript
        \/ EndParse
  \/ Done

\* The parser runs on its own thread of control: it goes on while it can.
Spec == Init /\ [][Next]_vars /\ WF_vars(Next)

-----------------------------------------------------------------------------
(* Properties.                                                             *)

Returned == pc = "done" /\ ~crashed

\* The parser never reads on at the end of the file (consumeToken, "Lexing past
\* eof!"), and the scopes belong to nodes that were created.
TypeOK ==
  /\ debug \in BOOLEAN /\ program \in BOOLEAN /\ failed \in BOOLEAN /\ crashed \in BOOLEAN
  /\ tok \in Input \union {Eof, Junk} /\ read \in 1..MaxInput + 1 /\ depth \in Int
  /\ pc \in {"top", "args", "find_arg", "find_body", "round", "lets", "vars", "skip",
             "after", "script", "script_skip", "script_return", "end", "done"}
  /\ pragmas \in 0..MaxInput
  /\ \A j \in DOMAIN frames : frames[j].id \in 0..Len(nodes) /\ frames[j].level \in Nat

\* The assertions of parseForStmt ("Popped an unexpected loop") and restoreStack
\* ("Invalid state"), in every nesting and after every recovery from an error: the
\* loop stack holds the loops of the open scopes, both with the innermost (the one
\* that was created last) on top, and no scope was entered with more lets than a
\* scope inside of it.
ScopesNest ==
  /\ {loops[j].id : j \in DOMAIN loops} =
       {frames[j].id : j \in {m \in DOMAIN frames : frames[m].k = "loop"}}
  /\ \A j, m \in DOMAIN loops : j < m => loops[j].id < loops[m].id
  /\ \A j, m \in DOMAIN frames :
       j < m => frames[j].id < frames[m].id /\ frames[j].level <= frames[m].level
  /\ \A j \in DOMAIN frames : frames[j].level <= Len(lets)

\* A let is forgotten before a loop that it reads is left: parseExprPrimary copies
\* the expression of a let wherever its name is used.
LetsReadOpenLoops ==
  \A j \in DOMAIN lets :
    lets[j].exp.loops \subseteq
      {frames[m].id : m \in {m \in DOMAIN frames : frames[m].k = "loop" /\ frames[m].level < j}}

\* IndexExpr::verify for everything the parser builds, also when it recovers from an
\* error at the brace of another scope: an index is read inside of its loop.
IndicesInsideLoops ==
  \A n \in DOMAIN nodes : nodes[n].reads \subseteq nodes[n].inside

\* NamedValueMap ("Argument already registered"), and getVarIndex in the users of
\* the program: variables have different names, and a statement uses variables
\* of the program.
LocalsDeclaredOnce ==
  /\ \A j, m \in DOMAIN locals : locals[j].name = locals[m].name => j = m
  /\ \A n \in DOMAIN nodes : nodes[n].locals \subseteq {locals[j].name : j \in DOMAIN locals}

\* As long as no error was diagnosed the scopes of the program are the braces of
\* the text: nothing is skipped and no brace is taken for another one silently.
NestingIsText ==
  ~failed /\ ~crashed /\ pc \in {"round", "lets", "vars", "after"} => Len(frames) = depth

\* parseAndOptimize uses the program when there were no errors: the parser then has
\* registered one, and read the whole file.
AcceptedIsWhole ==
  Returned /\ ~failed => program /\ tok = Eof /\ depth = 0 /\ frames = <<>>

\* The parser returns from every file: every loop of it makes progress, also at the
\* end of the file.
Terminates == <>(pc = "done" \/ crashed)

\* How many steps the parser may take from here without reading on, at most, and
\* without the ones that an open scope or a token that turns out to be junk costs.
StepsFrom ==
  [find_arg |-> 7, args |-> 6, top |-> 6, find_body |-> 5, script_skip |-> 4,
   script |-> 3, after |-> 2, script_return |-> 2, end |-> 1, round |-> 1, lets |-> 1,
   vars |-> 1, skip |-> 0, done |-> 0]

\* A bound for the steps that are left: four for each construct that was not read yet,
\* three for each scope that is open.
StepsLeft ==
  4 * (MaxInput + 1 - read) + 3 * Len(frames) + StepsFrom[pc]
    + (IF tok = Junk THEN 0 ELSE 1) + (IF crashed THEN 0 ELSE 1)

\* No loop of the parser and no recovery from an error stays where it is, also at the
\* end of the file, where consumeToken would assert ("Lexing past eof!"): every step
\* uses up text, closes a scope or moves on.  A file of n constructs takes at most
\* 4 * n + 8 steps.
StepsRunOut == [][0 <= StepsLeft' /\ StepsLeft' < StepsLeft]_vars
=============================================================================
