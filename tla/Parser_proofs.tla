---------------------------- MODULE Parser_proofs ----------------------------
(***************************************************************************)
(* Proofs about Parser, for files of any length made of any constructs:    *)
(* the scopes, the names and the errors of the parser in every nesting and *)
(* after every recovery from an error.                                     *)
(***************************************************************************)
EXTENDS Parser, SequenceTheorems, FiniteSetTheorems, TLAPS

\* s is a sequence, of whatever it contains.
IsSeq(s) == s \in Seq({s[j] : j \in DOMAIN s})

LoopIds  == {loops[j].id : j \in DOMAIN loops}
VarNames == {locals[j].name : j \in DOMAIN locals}

\* The loops that are open at level j of the lets.
OpenAt(j) ==
  {frames[m].id : m \in {m \in DOMAIN frames : frames[m].k = "loop" /\ frames[m].level < j}}

\* e is what parsing an expression returns; it reads the loops L and the variables V.
Sound(e, L, V) ==
  /\ e \in [st : {e.st}, rest : {e.rest}, ty : {e.ty}, const : {e.const},
            fold : {e.fold}, loops : {e.loops}, locals : {e.locals}]
  /\ e.loops \subseteq L /\ e.locals \subseteq V

-----------------------------------------------------------------------------
(* The inductive invariant.                                                *)

Stacks ==
  /\ IsSeq(frames) /\ IsSeq(lets) /\ IsSeq(loops) /\ IsSeq(locals) /\ IsSeq(nodes)

\* What reading on needs: there is more to read, and the commands of a script are
\* constructs of the file.
Reading == (tok # Eof => read <= MaxInput) /\ pragmas < read

\* The scopes are open while pc is inside of the function, the outermost of
\* them is the program.
InScope == pc \in {"round", "lets", "vars", "skip"}
Scopes ==
  /\ InScope <=> frames # <<>>
  /\ \A j \in DOMAIN frames :
       frames[j].k \in {"program", "loop", "if"} /\ (frames[j].k = "program" <=> j = 1)

\* The expressions of lets read variables of the program.
LetsAreResults == \A j \in DOMAIN lets : Sound(lets[j].exp, LoopIds, VarNames)

\* As long as there is no error the braces of the text are the scopes, and the
\* brace of a script.
Clean == ~failed /\ ~crashed
Text ==
  /\ pc \in {"find_arg", "find_body", "skip", "script_skip", "script_return"} => ~Clean
  /\ Clean => depth = Len(frames) + (IF pc = "script" THEN 1 ELSE 0)
  /\ Clean /\ pc \in {"after", "script", "end", "done"} => program
  /\ Clean /\ pc = "done" => tok = Eof

ParserInv ==
  /\ Stacks /\ TypeOK /\ Reading /\ Scopes
  /\ ScopesNest
  /\ LetsReadOpenLoops /\ LetsAreResults /\ IndicesInsideLoops /\ LocalsDeclaredOnce
  /\ Text

-----------------------------------------------------------------------------
(* Sequences.                                                              *)

\* The length and the domain of a sequence of whatever elements.
LEMMA IsSeqLen ==
  ASSUME NEW s, IsSeq(s)
  PROVE  /\ Len(s) \in Nat /\ DOMAIN s = 1..Len(s)
         /\ s = <<>> <=> Len(s) = 0
  <1> DEFINE S == {s[j] : j \in DOMAIN s}
  <1>1. s \in Seq(S)
    BY DEF IsSeq
  <1> HIDE DEF S
  <1> QED
    BY <1>1, LenProperties, EmptySeq

\* The empty sequence.
LEMMA EmptyIsSeq == IsSeq(<<>>) /\ Len(<<>>) = 0
  BY EmptySeq DEF IsSeq

\* Sequences over a set are sequences.
LEMMA SeqIsSeq ==
  ASSUME NEW S, NEW s \in Seq(S)
  PROVE  IsSeq(s)
<1>1. Len(s) \in Nat /\ DOMAIN s = 1..Len(s) /\ s \in [1..Len(s) -> S]
  BY LenProperties
<1> DEFINE T == {s[j] : j \in DOMAIN s}
<1>2. s \in [1..Len(s) -> T]
  BY <1>1
<1> HIDE DEF T
<1>3. s \in Seq(T)
  BY <1>1, <1>2, SeqDef
<1> QED
  BY <1>3 DEF IsSeq, T

\* push_back.
LEMMA AppendIsSeq ==
  ASSUME NEW s, IsSeq(s), NEW e
  PROVE  /\ IsSeq(Append(s, e))
         /\ Len(Append(s, e)) = Len(s) + 1
         /\ DOMAIN Append(s, e) = DOMAIN s \union {Len(s) + 1}
         /\ \A j \in DOMAIN s : Append(s, e)[j] = s[j]
         /\ Append(s, e)[Len(s) + 1] = e
<1> DEFINE T == {s[j] : j \in DOMAIN s} \union {e}
<1>0. Len(s) \in Nat /\ DOMAIN s = 1..Len(s)
  BY IsSeqLen
<1>1. s \in Seq(T) /\ e \in T
  BY SeqMonotonic DEF IsSeq
<1> HIDE DEF T
<1>2. /\ Append(s, e) \in Seq(T)
      /\ Len(Append(s, e)) = Len(s) + 1
      /\ \A j \in 1..Len(s) : Append(s, e)[j] = s[j]
      /\ Append(s, e)[Len(s) + 1] = e
  BY <1>1, AppendProperties
<1>3. DOMAIN Append(s, e) = 1..Len(s) + 1
  BY <1>2, LenProperties
<1>4. IsSeq(Append(s, e))
  BY <1>2, SeqIsSeq
<1>5. DOMAIN Append(s, e) = DOMAIN s \union {Len(s) + 1}
  BY <1>0, <1>3
<1> QED
  BY <1>0, <1>2, <1>4, <1>5

\* What is left when the end of a vector is dropped.
LEMMA PrefixIsSeq ==
  ASSUME NEW s, IsSeq(s), NEW n \in 0..Len(s)
  PROVE  /\ IsSeq(SubSeq(s, 1, n))
         /\ Len(SubSeq(s, 1, n)) = n
         /\ DOMAIN SubSeq(s, 1, n) = 1..n
         /\ \A j \in 1..n : SubSeq(s, 1, n)[j] = s[j]
<1> DEFINE S == {s[j] : j \in DOMAIN s}
<1>0. Len(s) \in Nat /\ DOMAIN s = 1..Len(s)
  BY IsSeqLen
<1>1. \A j \in 1..n : s[j] \in S
  BY <1>0
<1> HIDE DEF S
<1>2. /\ SubSeq(s, 1, n) \in Seq(S)
      /\ Len(SubSeq(s, 1, n)) = n
      /\ \A j \in 1..n : SubSeq(s, 1, n)[j] = s[j]
  BY <1>0, <1>1, SubSeqProperties
<1> QED
  BY <1>2, SeqIsSeq, LenProperties

\* A set of the first numbers has a greatest one, when it is not empty.
LEMMA Greatest ==
  ASSUME NEW n \in Nat, NEW S \in SUBSET (1..n), S # {}
  PROVE  \E j \in S : \A m \in S : m <= j
<1> DEFINE I == 1..n
           above(b) == {x \in S : b < x}
           T == {above(j) : j \in S}
<1>1. IsFiniteSet(I)
  BY FS_Interval
<1>2. IsWellFoundedOn(StrictSubsetOrdering(I), SUBSET I)
  BY <1>1, FS_FiniteSubsetsOfFinite, FS_StrictSubsetOrderingWellFounded
<1>3. T \subseteq SUBSET I /\ T # {}
  OBVIOUS
<1>4. PICK A \in T : \A B \in T : <<B, A>> \notin StrictSubsetOrdering(I)
  <2> HIDE DEF T, I
  <2> QED
    BY <1>2, <1>3, WFMin
<1>5. PICK j \in S : A = above(j)
  BY <1>4
<1>6. ASSUME NEW m \in S, j < m PROVE FALSE
  <2>0. \A x \in S : x \in Nat
    OBVIOUS
  <2>1. above(m) \in T /\ above(m) \subseteq A /\ m \in A /\ m \notin above(m)
    <3>1. above(m) \in T
      OBVIOUS
    <3>2. m \in A /\ A \subseteq S
      BY <1>5, <1>6
    <3>3. ASSUME NEW x \in above(m) PROVE x \in A
      BY <1>5, <1>6, <2>0, <3>3
    <3>4. m \notin above(m)
      BY <2>0
    <3> QED
      BY <3>1, <3>2, <3>3, <3>4
  <2> HIDE DEF above
  <2>2. <<above(m), A>> \in StrictSubsetOrdering(I)
    BY <1>3, <1>4, <2>1 DEF StrictSubsetOrdering
  <2> QED
    BY <1>4, <2>1, <2>2
<1> QED
  BY <1>6

\* getByName finds an entry with the name whenever there is one.
LEMMA getByNameFinds ==
  ASSUME NEW s, IsSeq(s), NEW name
  PROVE  /\ getByName(s, name) # 0 =>
              getByName(s, name) \in DOMAIN s /\ s[getByName(s, name)].name = name
         /\ getByName(s, name) = 0 => \A j \in DOMAIN s : s[j].name # name
<1> DEFINE hits == {j \in DOMAIN s : s[j].name = name}
<1>0. Len(s) \in Nat /\ DOMAIN s = 1..Len(s)
  BY IsSeqLen
<1>1. CASE hits = {}
  BY <1>1 DEF getByName
<1>2. CASE hits # {}
  <2>1. \E j \in hits : \A m \in hits : m <= j
    BY <1>0, <1>2, Greatest
  <2>2. getByName(s, name) = CHOOSE j \in hits : \A m \in hits : m <= j
    BY <1>2 DEF getByName
  <2>3. getByName(s, name) \in hits
    BY <2>1, <2>2
  <2> QED
    BY <1>0, <2>3
<1> QED
  BY <1>1, <1>2

-----------------------------------------------------------------------------
(* Expressions: whatever the text is, what is built of it reads open loops *)
(* and variables of the program.                                           *)

\* A result stays sound when more loops are open and more variables are declared.
LEMMA SoundGrows ==
  ASSUME NEW L, NEW V, NEW LL, NEW VV, L \subseteq LL, V \subseteq VV,
         NEW e, Sound(e, L, V)
  PROVE  Sound(e, LL, VV)
  BY DEF Sound

\* The changes that the parser makes to a result.
LEMMA ChangedIsSound ==
  ASSUME NEW L, NEW V, NEW e, Sound(e, L, V)
  PROVE  /\ \A x : Sound([e EXCEPT !.ty = x], L, V)
         /\ \A x : Sound([e EXCEPT !.rest = x], L, V)
         /\ \A x : Sound([e EXCEPT !.st = x], L, V)
         /\ \A x : Sound([e EXCEPT !.st = "null", !.rest = x], L, V)
         /\ Sound([e EXCEPT !.const = e.fold, !.rest = FALSE], L, V)
         /\ \A vs \in SUBSET V : Sound([e EXCEPT !.locals = @ \union vs], L, V)
         /\ \A ls \in SUBSET L, vs \in SUBSET V :
              Sound([e EXCEPT !.loops = @ \union ls, !.locals = @ \union vs], L, V)
<1>1. ASSUME NEW x PROVE Sound([e EXCEPT !.ty = x], L, V)
  BY DEF Sound
<1>2. ASSUME NEW x PROVE Sound([e EXCEPT !.rest = x], L, V)
  BY DEF Sound
<1>3. ASSUME NEW x PROVE Sound([e EXCEPT !.st = x], L, V)
  BY DEF Sound
<1>4. ASSUME NEW x PROVE Sound([e EXCEPT !.st = "null", !.rest = x], L, V)
  BY DEF Sound
<1>5. Sound([e EXCEPT !.const = e.fold, !.rest = FALSE], L, V)
  BY DEF Sound
<1>6. ASSUME NEW vs \in SUBSET V PROVE Sound([e EXCEPT !.locals = @ \union vs], L, V)
  BY DEF Sound
<1>7. ASSUME NEW ls \in SUBSET L, NEW vs \in SUBSET V
      PROVE  Sound([e EXCEPT !.loops = @ \union ls, !.locals = @ \union vs], L, V)
  BY DEF Sound
<1> QED
  BY <1>1, <1>2, <1>3, <1>4, <1>5, <1>6, <1>7

\* The results that the parser starts with.
LEMMA ValueIsSound ==
  ASSUME NEW L, NEW V
  PROVE  /\ \A ty, const : \A ls \in SUBSET L, vs \in SUBSET V :
              Sound(Value(ty, const, ls, vs), L, V)
         /\ \A rest : Sound(Null(rest), L, V)
         /\ Sound(Crash, L, V)
<1>1. ASSUME NEW ty, NEW const, NEW ls \in SUBSET L, NEW vs \in SUBSET V
      PROVE  Sound(Value(ty, const, ls, vs), L, V)
  BY DEF Sound, Value
<1>2. Sound(Value(IndexTy, {}, {}, {}), L, V)
  BY <1>1
<1>3. \A rest : Sound(Null(rest), L, V)
  BY <1>2, ChangedIsSound DEF Null
<1>4. Sound(Crash, L, V)
  BY <1>2, ChangedIsSound DEF Crash
<1> QED
  BY <1>1, <1>3, <1>4

\* A number, a name of a loop, a let or a variable: what a let stands for is what it read.
LEMMA parseSimpleSound ==
  ASSUME Stacks, LetsAreResults, NEW e
  PROVE  Sound(parseSimple(e), LoopIds, VarNames)
<1> DEFINE Ok(r) == Sound(r, LoopIds, VarNames)
<1>1. /\ \A ty, const : \A ls \in SUBSET LoopIds, vs \in SUBSET VarNames :
           Ok(Value(ty, const, ls, vs))
      /\ \A rest : Ok(Null(rest))
  BY ValueIsSound
<1>2. ASSUME NEW name PROVE Ok(parseName(name))
  <2> DEFINE L == getByName(loops, name)
             V == getByName(locals, name)
             E == getByName(lets, name)
  <2>1. CASE L # 0
    <3>1. {loops[L].id} \subseteq LoopIds
      BY <2>1, getByNameFinds DEF Stacks, LoopIds
    <3> QED
      BY <1>1, <2>1, <3>1 DEF parseName
  <2>2. CASE L = 0 /\ V # 0
    <3>1. {name} \subseteq VarNames
      BY <2>2, getByNameFinds DEF Stacks, VarNames
    <3> QED
      BY <1>1, <2>2, <3>1 DEF parseName
  <2>3. CASE L = 0 /\ V = 0 /\ E # 0
    <3>1. E \in DOMAIN lets
      BY <2>3, getByNameFinds DEF Stacks
    <3> QED
      BY <2>3, <3>1 DEF parseName, LetsAreResults
  <2>4. CASE L = 0 /\ V = 0 /\ E = 0
    BY <1>1, <2>4 DEF parseName
  <2> QED
    BY <2>1, <2>2, <2>3, <2>4
<1> QED
  BY <1>1, <1>2 DEF parseSimple

\* The subscripts of a load or a store, each of which may be a let.
LEMMA AccessSound ==
  ASSUME Stacks, LetsAreResults, NEW ix
  PROVE  /\ Sound(parseSubscriptList(ix), LoopIds, VarNames)
         /\ \A a, ty : Sound(Access(a, ix, ty), LoopIds, VarNames)
<1> DEFINE Ok(r) == Sound(r, LoopIds, VarNames)
           r == [j \in DOMAIN ix |-> parseSimple(ix[j])]
           ls == UNION {r[j].loops : j \in DOMAIN ix}
           vs == UNION {r[j].locals : j \in DOMAIN ix}
<1>1. \A j \in DOMAIN ix : r[j].loops \subseteq LoopIds /\ r[j].locals \subseteq VarNames
  BY parseSimpleSound DEF Sound
<1>2. ls \subseteq LoopIds /\ vs \subseteq VarNames
  <2> HIDE DEF r
  <2> QED
    BY <1>1
<1>3. Ok(Value(IndexTy, {}, ls, vs)) /\ (\A rest : Ok(Null(rest))) /\ Ok(Crash)
  <2> HIDE DEF ls, vs
  <2> QED
    BY <1>2, ValueIsSound
<1>4. Ok(parseSubscriptList(ix))
  BY <1>3 DEF parseSubscriptList
<1>5. ASSUME NEW a, NEW ty PROVE Ok(Access(a, ix, ty))
  <2>1. Ok([parseSubscriptList(ix) EXCEPT !.ty = ty])
    BY <1>4, ChangedIsSound
  <2> QED
    BY <1>3, <2>1 DEF Access, Accessed
<1> QED
  BY <1>4, <1>5

\* The operands of an expression.
LEMMA parseExprPrimarySound ==
  ASSUME Stacks, LetsAreResults, NEW e
  PROVE  Sound(parseExprPrimary(e), LoopIds, VarNames)
<1> DEFINE Ok(r) == Sound(r, LoopIds, VarNames)
<1>1. Ok(parseSimple(e)) /\ \A a, ty : Ok(Access(a, e.ix, ty))
  BY parseSimpleSound, AccessSound
<1>2. \A rest : Ok(Null(rest))
  BY ValueIsSound
<1>3. Ok([parseName(e.name) EXCEPT !.rest = TRUE])
  <2>1. parseName(e.name) = parseSimple([k |-> "name", name |-> e.name])
    BY DEF parseSimple
  <2>2. Ok(parseName(e.name))
    BY <2>1, parseSimpleSound
  <2> QED
    BY <2>2, ChangedIsSound
<1> QED
  BY <1>1, <1>2, <1>3 DEF parseExprPrimary

\* Any expression that parseExpr returns.
LEMMA parseExprSound ==
  ASSUME Stacks, LetsAreResults, NEW e
  PROVE  Sound(parseExpr(e), LoopIds, VarNames)
<1> DEFINE Ok(r) == Sound(r, LoopIds, VarNames)
<1>1. ASSUME NEW l, NEW r, NEW op, Ok(l), Ok(r) PROVE Ok(Binary(l, op, r))
  <2>1. (\A rest : Ok(Null(rest))) /\ Ok(Crash)
    BY ValueIsSound
  <2>2. \A ty, fold :
          Ok([st |-> "ok", rest |-> r.rest, ty |-> ty, const |-> {}, fold |-> fold,
              loops |-> l.loops \union r.loops, locals |-> l.locals \union r.locals])
    BY <1>1 DEF Sound
  <2> QED
    BY <1>1, <2>1, <2>2 DEF Binary
<1>2. \A x : Ok(parseExprPrimary(x))
  BY parseExprPrimarySound
<1> QED
  BY <1>1, <1>2 DEF parseExpr

\* What a statement reads: its expression, its subscripts and its variable.
LEMMA StmtResultSound ==
  ASSUME Stacks, LetsAreResults, NEW s
  PROVE  Sound(StmtResult(s), LoopIds, VarNames)
<1> DEFINE Ok(r) == Sound(r, LoopIds, VarNames)
           V == getByName(locals, s.name)
<1>1. \A e : Ok(parseExpr(e))
  BY parseExprSound
<1>2. /\ Ok(parseSubscriptList(s.ix))
      /\ \A a, ty : Ok(Access(a, s.ix, ty))
  BY AccessSound
<1>3. \A rest : Ok(Null(rest))
  BY ValueIsSound
<1>4. ASSUME V # 0, NEW e, Ok(e) PROVE Ok(AssignResult(s, e))
  <2>1. {s.name} \in SUBSET VarNames
    BY <1>4, getByNameFinds DEF Stacks, VarNames
  <2>2. Ok([e EXCEPT !.locals = @ \union {s.name}])
    BY <1>4, <2>1, ChangedIsSound
  <2> QED
    BY <1>3, <1>4, <2>2 DEF AssignResult
<1>5. ASSUME NEW g, Ok(g), NEW e, Ok(e) PROVE Ok(StoreResult(g, e))
  <2>1. g.loops \in SUBSET LoopIds /\ g.locals \in SUBSET VarNames
    BY <1>5 DEF Sound
  <2>2. Ok([e EXCEPT !.loops = @ \union g.loops, !.locals = @ \union g.locals])
    BY <1>5, <2>1, ChangedIsSound
  <2> QED
    BY <1>5, <2>2 DEF StoreResult
<1> QED
  BY <1>1, <1>2, <1>3, <1>4, <1>5 DEF StmtResult

-----------------------------------------------------------------------------
(* What a step does to the scopes, the names and the statements.           *)

Quiet ==
  /\ UNCHANGED <<frames, lets, loops, locals, nodes>>
  /\ InScope' <=> InScope

\* parseLetStmt.
AddLet ==
  /\ \E name, x : lets' = Append(lets, [name |-> name,
                       exp |-> [parseExpr(x) EXCEPT !.const = parseExpr(x).fold, !.rest = FALSE]])
  /\ UNCHANGED <<frames, loops, locals, nodes>>
  /\ InScope' <=> InScope

\* parseVarDecl, and the store of the initial value, if there is one.
AddVar ==
  /\ \E name, ty :
       /\ getByName(locals, name) = 0
       /\ locals' = Append(locals, [name |-> name, ty |-> ty])
       /\ \/ nodes' = nodes
          \/ \E x : nodes' = NewNode("storelocal",
                                     [parseExpr(x) EXCEPT !.locals = @ \union {name}])
  /\ UNCHANGED <<frames, lets, loops>>
  /\ InScope' <=> InScope

AddStmt ==
  /\ \E k, s : nodes' = NewNode(k, StmtResult(s))
  /\ UNCHANGED <<frames, lets, loops, locals>>
  /\ InScope' <=> InScope

OpenLoop ==
  /\ nodes' = NewNode("loop", Null(FALSE))
  /\ \E name : loops' = Append(loops, [name |-> name, id |-> Len(nodes) + 1])
  /\ frames' = Append(frames, [k |-> "loop", id |-> Len(nodes) + 1, level |-> Len(lets)])
  /\ UNCHANGED <<lets, locals>>
  /\ InScope /\ InScope'

OpenIf ==
  /\ \E x : nodes' = NewNode("if", parseExpr(x))
  /\ frames' = Append(frames, [k |-> "if", id |-> Len(nodes) + 1, level |-> Len(lets)])
  /\ UNCHANGED <<lets, loops, locals>>
  /\ InScope /\ InScope'

OpenProgram ==
  /\ frames' = Append(frames, [k |-> "program", id |-> 0, level |-> Len(lets)])
  /\ UNCHANGED <<lets, loops, locals, nodes>>
  /\ ~InScope /\ InScope'

CloseScope ==
  /\ frames' = SubSeq(frames, 1, Len(frames) - 1)
  /\ lets' = SubSeq(lets, 1, frames[Len(frames)].level)
  /\ loops' = IF frames[Len(frames)].k = "loop" THEN SubSeq(loops, 1, Len(loops) - 1)
              ELSE loops
  /\ UNCHANGED <<locals, nodes>>
  /\ InScope /\ (InScope' <=> frames[Len(frames)].k # "program")

StepKind ==
  \/ Quiet \/ AddLet \/ AddVar \/ AddStmt
  \/ OpenLoop \/ OpenIf \/ OpenProgram \/ CloseScope

\* As far as the stacks are concerned every step of the parser is of one of eight kinds.
LEMMA NextIsStepKind ==
  ASSUME Scopes, [Next]_vars
  PROVE  StepKind
<1> USE DEF StepKind, InScope, vars, lexer, context
<1>1. CASE ParseFunctionDecl \/ NoFunction \/ ParseArgument \/ NoArgument \/ FindArgument
  BY <1>1 DEF ParseFunctionDecl, NoFunction, ParseArgument, NoArgument, FindArgument, Quiet
<1>2. CASE ParseBody
  BY <1>2 DEF ParseBody, EnterScope, OpenProgram
<1>3. CASE NoBody
  BY <1>3 DEF NoBody, Quiet
<1>4. CASE FindBody
  <2>1. CASE Braces(tok) = 1
    BY <1>4, <2>1 DEF FindBody, EnterScope, OpenProgram
  <2>2. CASE Braces(tok) # 1 /\ tok = Eof
    <3>1. frames = <<>>
      BY <1>4 DEF FindBody, Scopes
    <3>2. frames' = Append(frames, [k |-> "program", id |-> 0, level |-> Len(lets)])
      BY <1>4, <2>2, <3>1 DEF FindBody
    <3> QED
      BY <1>4, <2>2, <3>2 DEF FindBody, OpenProgram
  <2>3. CASE Braces(tok) # 1 /\ tok # Eof
    BY <1>4, <2>3 DEF FindBody, Quiet
  <2> QED
    BY <2>1, <2>2, <2>3
<1>5. CASE ParseLet
  <2> DEFINE e == parseExpr(tok.exp)
  <2>1. CASE /\ lets' = Append(lets, [name |-> tok.name,
                              exp |-> [e EXCEPT !.const = e.fold, !.rest = FALSE]])
             /\ pc' = IF pc = "top" THEN "top" ELSE "lets"
             /\ UNCHANGED <<frames, loops, locals, nodes>>
    BY <1>5, <2>1 DEF ParseLet, AddLet
  <2>2. CASE pc # "top" /\ Fail
    BY <1>5, <2>2 DEF ParseLet, Fail, Quiet
  <2>3. CASE pc = "top" /\ pc' = "done" /\ UNCHANGED <<frames, context, nodes>>
    BY <2>3 DEF Quiet
  <2>4. CASE Abort
    BY <2>4 DEF Abort, Quiet
  <2> QED
    BY <1>5, <2>1, <2>2, <2>3, <2>4 DEF ParseLet
<1>6. CASE ParseVar
  <2>1. PICK e : /\ e = IF tok.init THEN parseExpr(tok.exp) ELSE Null(FALSE)
                 /\ LET known == AlreadyDeclared(tok.name)
                        stored == tok.init /\ e.st = "ok"
                        mismatch == stored /\ e.ty # tok.ty
                    IN  \/ Fail
                        \/ Abort
                        \/ /\ locals' = IF known THEN locals
                                        ELSE Append(locals, [name |-> tok.name, ty |-> tok.ty])
                           /\ nodes' = IF stored /\ ~known /\ ~mismatch
                                       THEN NewNode("storelocal",
                                                    [e EXCEPT !.locals = @ \union {tok.name}])
                                       ELSE nodes
                           /\ pc' = IF known \/ mismatch THEN "skip" ELSE "vars"
                           /\ UNCHANGED <<frames, lets, loops>>
    BY <1>6 DEF ParseVar
  <2>2. InScope
    BY <1>6 DEF ParseVar
  <2>3. CASE Fail
    BY <2>2, <2>3 DEF Fail, Quiet
  <2>4. CASE Abort
    BY <2>4 DEF Abort, Quiet
  <2>5. CASE ~Fail /\ ~Abort /\ AlreadyDeclared(tok.name)
    BY <2>1, <2>2, <2>5 DEF Quiet
  <2>6. CASE ~Fail /\ ~Abort /\ ~AlreadyDeclared(tok.name)
    BY <2>1, <2>2, <2>6 DEF AddVar, AlreadyDeclared
  <2> QED
    BY <2>3, <2>4, <2>5, <2>6
<1>7. CASE ParseSimpleStmt
  <2>1. InScope
    BY <1>7 DEF ParseSimpleStmt, AtStmt
  <2>2. CASE nodes' = NewNode(tok.k, StmtResult(tok)) /\ pc' = "round"
             /\ UNCHANGED <<frames, context>>
    BY <2>1, <2>2 DEF AddStmt
  <2>3. CASE Fail
    BY <2>1, <2>3 DEF Fail, Quiet
  <2>4. CASE Abort
    BY <2>4 DEF Abort, Quiet
  <2> QED
    BY <1>7, <2>2, <2>3, <2>4 DEF ParseSimpleStmt
<1>8. CASE ParseFor
  <2>1. InScope
    BY <1>8 DEF ParseFor, AtStmt
  <2>2. CASE Fail
    BY <2>1, <2>2 DEF Fail, Quiet
  <2>3. CASE Abort
    BY <2>3 DEF Abort, Quiet
  <2>4. CASE ~Fail /\ ~Abort
    <3>1. \E bad :
            /\ nodes' = NewNode("loop", Null(FALSE))
            /\ loops' = Append(loops, [name |-> tok.name, id |-> Len(nodes) + 1])
            /\ EnterScope("loop", Len(nodes) + 1, tok.brace, bad)
            /\ UNCHANGED <<lets, locals>>
      BY <1>8, <2>4 DEF ParseFor
    <3> QED
      BY <2>1, <3>1 DEF EnterScope, OpenLoop
  <2> QED
    BY <2>2, <2>3, <2>4
<1>9. CASE ParseIf
  <2>1. InScope
    BY <1>9 DEF ParseIf, AtStmt
  <2>2. CASE Abort
    BY <2>2 DEF Abort, Quiet
  <2>3. CASE ~Abort
    <3>1. \E bad :
            /\ nodes' = NewNode("if", parseExpr(tok.exp))
            /\ EnterScope("if", Len(nodes) + 1, tok.brace, bad)
            /\ UNCHANGED context
      BY <1>9, <2>3 DEF ParseIf
    <3> QED
      BY <2>1, <3>1 DEF EnterScope, OpenIf
  <2> QED
    BY <2>2, <2>3
<1>10. CASE ParseUnknown \/ SkipConstruct
  BY <1>10 DEF ParseUnknown, AtStmt, SkipConstruct, Quiet
<1>11. CASE EndScope
  BY <1>11 DEF EndScope, RestoreLets, PopLoop, CloseScope
<1>12. CASE ParseScript \/ ParsePragma \/ UnknownPragma \/ SkipPragma \/ EndScript \/ EndParse
  BY <1>12 DEF ParseScript, ParsePragma, UnknownPragma, SkipPragma, EndScript, EndParse, Quiet
<1>13. CASE Done \/ UNCHANGED vars
  BY <1>13 DEF Done, Quiet
<1> QED
  BY <1>1, <1>2, <1>3, <1>4, <1>5, <1>6, <1>7, <1>8, <1>9, <1>10, <1>11, <1>12, <1>13
     DEF Next

-----------------------------------------------------------------------------
(* The scopes nest.                                                        *)

Ids(s)        == {s[j].id : j \in DOMAIN s}
LoopScopes(s) == {s[j].id : j \in {m \in DOMAIN s : s[m].k = "loop"}}
Increasing(s) == \A j, m \in DOMAIN s : j < m => s[j].id < s[m].id

\* The scopes belong to nodes that were created.
FramesTyped ==
  \A j \in DOMAIN frames : frames[j].id \in 0..Len(nodes) /\ frames[j].level \in Nat

\* An entry with a greater id comes on top, ...
LEMMA PushedIds ==
  ASSUME NEW s, IsSeq(s), Increasing(s), NEW e, e.id \in Nat,
         \A j \in DOMAIN s : s[j].id \in Nat /\ s[j].id < e.id
  PROVE  /\ Increasing(Append(s, e))
         /\ Ids(Append(s, e)) = Ids(s) \union {e.id}
         /\ LoopScopes(Append(s, e)) =
              LoopScopes(s) \union (IF e.k = "loop" THEN {e.id} ELSE {})
<1> DEFINE t == Append(s, e)
<1>1. /\ DOMAIN t = DOMAIN s \union {Len(s) + 1}
      /\ \A j \in DOMAIN s : t[j] = s[j]
      /\ t[Len(s) + 1] = e
      /\ DOMAIN s = 1..Len(s) /\ Len(s) \in Nat
  BY AppendIsSeq, IsSeqLen
<1> HIDE DEF t
<1>2. Increasing(t)
  BY <1>1 DEF Increasing
<1>3. Ids(t) = Ids(s) \union {e.id}
  BY <1>1 DEF Ids
<1>4. LoopScopes(t) = LoopScopes(s) \union (IF e.k = "loop" THEN {e.id} ELSE {})
  BY <1>1 DEF LoopScopes
<1> QED
  BY <1>2, <1>3, <1>4 DEF t

\* ... and the greatest one is removed.
LEMMA PoppedIds ==
  ASSUME NEW s, IsSeq(s), s # <<>>, Increasing(s), \A j \in DOMAIN s : s[j].id \in Nat
  PROVE  LET t == SubSeq(s, 1, Len(s) - 1)
             e == s[Len(s)]
         IN  /\ IsSeq(t)
             /\ DOMAIN t = 1..Len(s) - 1
             /\ \A j \in DOMAIN t : j \in DOMAIN s /\ t[j] = s[j]
             /\ Increasing(t)
             /\ Ids(t) = Ids(s) \ {e.id}
             /\ LoopScopes(t) = LoopScopes(s) \ (IF e.k = "loop" THEN {e.id} ELSE {})
             /\ e.id \in Ids(s) /\ \A id \in Ids(s) : id <= e.id
<1> DEFINE t == SubSeq(s, 1, Len(s) - 1)
           e == s[Len(s)]
<1>0. Len(s) \in Nat \ {0} /\ DOMAIN s = 1..Len(s)
  BY IsSeqLen
<1>1. /\ IsSeq(t)
      /\ DOMAIN t = 1..Len(s) - 1
      /\ \A j \in DOMAIN t : j \in DOMAIN s /\ j # Len(s) /\ t[j] = s[j]
      /\ \A j \in DOMAIN s : j # Len(s) => j \in DOMAIN t
  BY <1>0, PrefixIsSeq
<1> HIDE DEF t
<1>2. \A j \in DOMAIN s : j # Len(s) => s[j].id < e.id /\ s[j].id # e.id
  BY <1>0 DEF Increasing
<1>3. Len(s) \in DOMAIN s
  BY <1>0
<1>4. Increasing(t)
  BY <1>1 DEF Increasing
<1>5. Ids(t) = Ids(s) \ {e.id}
  BY <1>1, <1>2, <1>3 DEF Ids
<1>6. LoopScopes(t) = LoopScopes(s) \ (IF e.k = "loop" THEN {e.id} ELSE {})
  <2>1. \A j \in DOMAIN t : t[j].id # e.id
    BY <1>1, <1>2
  <2>2. CASE e.k = "loop"
    BY <1>1, <1>2, <1>3, <2>2 DEF LoopScopes
  <2>3. CASE e.k # "loop"
    BY <1>1, <1>2, <1>3, <2>3 DEF LoopScopes
  <2> QED
    BY <2>2, <2>3
<1>7. e.id \in Ids(s) /\ \A id \in Ids(s) : id <= e.id
  BY <1>2, <1>3 DEF Ids
<1> QED
  BY <1>1, <1>4, <1>5, <1>6, <1>7 DEF t

Levels ==
  /\ \A j, m \in DOMAIN frames : j < m => frames[j].level <= frames[m].level
  /\ \A j \in DOMAIN frames : frames[j].level <= Len(lets)

\* ScopesNest, part by part.
LEMMA ScopesNestParts ==
  ScopesNest <=> /\ Ids(loops) = LoopScopes(frames)
                 /\ Increasing(loops) /\ Increasing(frames)
                 /\ Levels
  BY DEF ScopesNest, Ids, LoopScopes, Increasing, Levels

Nest == Stacks /\ FramesTyped /\ Scopes /\ ScopesNest

\* The loops are nodes, like their scopes.
LEMMA LoopIdsTyped ==
  ASSUME Nest
  PROVE  \A j \in DOMAIN loops : loops[j].id \in 0..Len(nodes)
<1>1. \A id \in LoopScopes(frames) : id \in 0..Len(nodes)
  BY DEF Nest, FramesTyped, LoopScopes
<1>2. \A j \in DOMAIN loops : loops[j].id \in Ids(loops)
  BY DEF Ids
<1> QED
  BY <1>1, <1>2, ScopesNestParts DEF Nest

\* addStmt makes the list of statements one longer.
LEMMA NewNodeIsSeq ==
  ASSUME Stacks, NEW k, NEW e
  PROVE  IsSeq(NewNode(k, e)) /\ Len(NewNode(k, e)) = Len(nodes) + 1
  BY AppendIsSeq DEF Stacks, NewNode

\* A scope is entered for a node that is created with it.
LEMMA OpenNests ==
  ASSUME Nest, NEW f, f.level = Len(lets), f.id \in 0..Len(nodes'),
         frames' = Append(frames, f), lets' = lets,
         Len(nodes') \in Nat, Len(nodes) <= Len(nodes'),
         \A j \in DOMAIN frames : frames[j].id < f.id,
         f.k \in {"program", "loop", "if"}, f.k = "program" <=> frames = <<>>
  PROVE  /\ IsSeq(frames') /\ FramesTyped' /\ Levels' /\ Increasing(frames')
         /\ frames' # <<>>
         /\ LoopScopes(frames') =
              LoopScopes(frames) \union (IF f.k = "loop" THEN {f.id} ELSE {})
         /\ \A j \in DOMAIN frames' :
              frames'[j].k \in {"program", "loop", "if"} /\ (frames'[j].k = "program" <=> j = 1)
<1>0. /\ IsSeq(frames) /\ IsSeq(lets) /\ Len(lets) \in Nat /\ Len(nodes) \in Nat
      /\ Len(frames) \in Nat /\ DOMAIN frames = 1..Len(frames)
      /\ frames = <<>> <=> Len(frames) = 0
  BY IsSeqLen DEF Nest, Stacks
<1>1. /\ IsSeq(frames')
      /\ DOMAIN frames' = DOMAIN frames \union {Len(frames) + 1}
      /\ \A j \in DOMAIN frames : frames'[j] = frames[j]
      /\ frames'[Len(frames) + 1] = f
      /\ frames' # <<>>
  <2>1. Len(frames') = Len(frames) + 1 /\ IsSeq(frames')
    BY <1>0, AppendIsSeq
  <2> QED
    BY <1>0, <2>1, AppendIsSeq, IsSeqLen
<1>2. FramesTyped'
  BY <1>0, <1>1 DEF Nest, FramesTyped
<1>3. Levels'
  BY <1>0, <1>1, ScopesNestParts DEF Nest, FramesTyped, Levels
<1>4. /\ Increasing(frames')
      /\ LoopScopes(frames') =
           LoopScopes(frames) \union (IF f.k = "loop" THEN {f.id} ELSE {})
  <2>1. f.id \in Nat /\ \A j \in DOMAIN frames : frames[j].id \in Nat
    BY <1>0 DEF Nest, FramesTyped
  <2>2. Increasing(frames)
    BY ScopesNestParts DEF Nest
  <2> QED
    BY <1>0, <2>1, <2>2, PushedIds
<1>5. \A j \in DOMAIN frames' :
        frames'[j].k \in {"program", "loop", "if"} /\ (frames'[j].k = "program" <=> j = 1)
  BY <1>0, <1>1 DEF Nest, Scopes
<1> QED
  BY <1>1, <1>2, <1>3, <1>4, <1>5

\* Every kind of step keeps the stacks of loops and lets in step with the scopes.
LEMMA NestPreserved ==
  ASSUME Nest, StepKind
  PROVE  Nest'
<1>0. /\ IsSeq(frames) /\ IsSeq(lets) /\ IsSeq(loops) /\ IsSeq(locals) /\ IsSeq(nodes)
      /\ Len(lets) \in Nat /\ Len(nodes) \in Nat
      /\ Len(frames) \in Nat /\ DOMAIN frames = 1..Len(frames)
      /\ frames = <<>> <=> Len(frames) = 0
  BY IsSeqLen DEF Nest, Stacks
<1>1. /\ Ids(loops) = LoopScopes(frames) /\ Increasing(loops) /\ Increasing(frames)
      /\ Levels /\ FramesTyped
      /\ \A j \in DOMAIN loops : loops[j].id \in 0..Len(nodes)
  BY ScopesNestParts, LoopIdsTyped DEF Nest
<1>2. (Ids(loops') = LoopScopes(frames') /\ Increasing(loops') /\ Increasing(frames')
       /\ Levels') => ScopesNest'
  BY DEF ScopesNest, Ids, LoopScopes, Increasing, Levels
\* The steps that leave the scopes alone.
<1>3. ASSUME UNCHANGED <<frames, loops>>, InScope' <=> InScope,
             IsSeq(lets'), Len(lets') \in Nat, Len(lets) <= Len(lets'),
             IsSeq(nodes'), Len(nodes') \in Nat, Len(nodes) <= Len(nodes'), IsSeq(locals')
      PROVE  Nest'
  <2>1. Stacks' /\ Scopes'
    BY <1>0, <1>3 DEF Nest, Stacks, Scopes
  <2>2. FramesTyped'
    BY <1>0, <1>1, <1>3 DEF FramesTyped
  <2>3. Levels'
    BY <1>0, <1>1, <1>3 DEF Levels, FramesTyped
  <2> QED
    BY <1>1, <1>2, <1>3, <2>1, <2>2, <2>3 DEF Nest
<1>4. CASE Quiet
  BY <1>0, <1>3, <1>4 DEF Quiet
<1>5. CASE AddLet
  <2>1. IsSeq(lets') /\ Len(lets') = Len(lets) + 1
    BY <1>0, <1>5, AppendIsSeq DEF AddLet
  <2> QED
    BY <1>0, <1>3, <1>5, <2>1 DEF AddLet
<1>6. CASE AddVar
  <2>1. IsSeq(locals')
    BY <1>0, <1>6, AppendIsSeq DEF AddVar
  <2>2. nodes' = nodes \/ (IsSeq(nodes') /\ Len(nodes') = Len(nodes) + 1)
    BY <1>6, NewNodeIsSeq DEF AddVar, Nest
  <2> QED
    BY <1>0, <1>3, <1>6, <2>1, <2>2 DEF AddVar
<1>7. CASE AddStmt
  <2>1. IsSeq(nodes') /\ Len(nodes') = Len(nodes) + 1
    BY <1>7, NewNodeIsSeq DEF AddStmt, Nest
  <2> QED
    BY <1>0, <1>3, <1>7, <2>1 DEF AddStmt
<1>8. CASE OpenLoop
  <2> DEFINE f == [k |-> "loop", id |-> Len(nodes) + 1, level |-> Len(lets)]
  <2>1. IsSeq(nodes') /\ Len(nodes') = Len(nodes) + 1
    BY <1>8, NewNodeIsSeq DEF OpenLoop, Nest
  <2>2. /\ frames' = Append(frames, f) /\ lets' = lets /\ frames # <<>>
        /\ f.k = "loop" /\ f.id = Len(nodes) + 1 /\ f.level = Len(lets)
    BY <1>8 DEF OpenLoop, Nest, Scopes
  <2>3. \A j \in DOMAIN frames : frames[j].id < f.id
    BY <1>0, <1>1, <2>2 DEF FramesTyped
  <2> HIDE DEF f
  <2>4. /\ IsSeq(frames') /\ FramesTyped' /\ Levels' /\ Increasing(frames')
        /\ frames' # <<>>
        /\ LoopScopes(frames') = LoopScopes(frames) \union {f.id}
        /\ \A j \in DOMAIN frames' :
             frames'[j].k \in {"program", "loop", "if"} /\ (frames'[j].k = "program" <=> j = 1)
    BY <1>0, <2>1, <2>2, <2>3, OpenNests
  <2>5. /\ IsSeq(loops') /\ Increasing(loops')
        /\ Ids(loops') = Ids(loops) \union {f.id}
    <3>1. PICK l : loops' = Append(loops, l) /\ l.id = Len(nodes) + 1
      BY <1>8 DEF OpenLoop
    <3>2. \A j \in DOMAIN loops : loops[j].id \in Nat /\ loops[j].id < l.id
      BY <1>0, <1>1, <3>1
    <3> QED
      BY <1>0, <1>1, <2>2, <3>1, <3>2, PushedIds, AppendIsSeq
  <2>6. Stacks' /\ Scopes'
    BY <1>0, <1>8, <2>1, <2>4, <2>5 DEF OpenLoop, Stacks, Scopes
  <2> QED
    BY <1>1, <1>2, <2>4, <2>5, <2>6 DEF Nest
<1>9. CASE OpenIf
  <2> DEFINE f == [k |-> "if", id |-> Len(nodes) + 1, level |-> Len(lets)]
  <2>1. IsSeq(nodes') /\ Len(nodes') = Len(nodes) + 1
    BY <1>9, NewNodeIsSeq DEF OpenIf, Nest
  <2>2. /\ frames' = Append(frames, f) /\ lets' = lets /\ frames # <<>>
        /\ f.k = "if" /\ f.id = Len(nodes) + 1 /\ f.level = Len(lets)
    BY <1>9 DEF OpenIf, Nest, Scopes
  <2>3. /\ \A j \in DOMAIN frames : frames[j].id < f.id
        /\ f.id \in 0..Len(nodes') /\ Len(nodes') \in Nat /\ Len(nodes) <= Len(nodes')
        /\ f.k \in {"program", "loop", "if"} /\ (f.k = "program" <=> frames = <<>>)
    BY <1>0, <1>1, <2>1, <2>2 DEF FramesTyped
  <2> HIDE DEF f
  <2>4. /\ IsSeq(frames') /\ FramesTyped' /\ Levels' /\ Increasing(frames')
        /\ frames' # <<>>
        /\ LoopScopes(frames') =
             LoopScopes(frames) \union (IF f.k = "loop" THEN {f.id} ELSE {})
        /\ \A j \in DOMAIN frames' :
             frames'[j].k \in {"program", "loop", "if"} /\ (frames'[j].k = "program" <=> j = 1)
    BY <2>2, <2>3, OpenNests
  <2>5. Stacks' /\ Scopes'
    BY <1>0, <1>9, <2>1, <2>4 DEF OpenIf, Stacks, Scopes
  <2>6. LoopScopes(frames') = LoopScopes(frames)
    BY <2>2, <2>4
  <2> QED
    BY <1>1, <1>2, <1>9, <2>4, <2>5, <2>6 DEF Nest, OpenIf
<1>10. CASE OpenProgram
  <2> DEFINE f == [k |-> "program", id |-> 0, level |-> Len(lets)]
  <2>1. /\ frames' = Append(frames, f) /\ lets' = lets /\ nodes' = nodes /\ frames = <<>>
        /\ f.k = "program" /\ f.id = 0 /\ f.level = Len(lets)
    BY <1>10 DEF OpenProgram, Nest, Scopes
  <2>2. /\ \A j \in DOMAIN frames : frames[j].id < f.id
        /\ f.id \in 0..Len(nodes') /\ Len(nodes') \in Nat /\ Len(nodes) <= Len(nodes')
        /\ f.k \in {"program", "loop", "if"} /\ (f.k = "program" <=> frames = <<>>)
    BY <1>0, <2>1
  <2> HIDE DEF f
  <2>3. /\ IsSeq(frames') /\ FramesTyped' /\ Levels' /\ Increasing(frames')
        /\ frames' # <<>>
        /\ LoopScopes(frames') =
             LoopScopes(frames) \union (IF f.k = "loop" THEN {f.id} ELSE {})
        /\ \A j \in DOMAIN frames' :
             frames'[j].k \in {"program", "loop", "if"} /\ (frames'[j].k = "program" <=> j = 1)
    BY <2>1, <2>2, OpenNests
  <2>4. Stacks' /\ Scopes'
    BY <1>0, <1>10, <2>3 DEF OpenProgram, Stacks, Scopes
  <2>5. LoopScopes(frames') = LoopScopes(frames)
    BY <2>1, <2>3
  <2> QED
    BY <1>1, <1>2, <1>10, <2>3, <2>4, <2>5 DEF Nest, OpenProgram
<1>11. CASE CloseScope
  <2> DEFINE n == Len(frames)
             f == frames[n]
  <2>1. frames # <<>> /\ n \in DOMAIN frames
    BY <1>0, <1>11 DEF CloseScope, Nest, Scopes
  <2>2. /\ frames' = SubSeq(frames, 1, n - 1)
        /\ lets' = SubSeq(lets, 1, f.level)
        /\ loops' = IF f.k = "loop" THEN SubSeq(loops, 1, Len(loops) - 1) ELSE loops
        /\ locals' = locals /\ nodes' = nodes
        /\ InScope' <=> f.k # "program"
    BY <1>11 DEF CloseScope
  <2>3. /\ IsSeq(frames')
        /\ DOMAIN frames' = 1..n - 1
        /\ \A j \in DOMAIN frames' : j \in DOMAIN frames /\ frames'[j] = frames[j]
        /\ Increasing(frames')
        /\ LoopScopes(frames') = LoopScopes(frames) \ (IF f.k = "loop" THEN {f.id} ELSE {})
        /\ \A id \in Ids(frames) : id <= f.id
    <3>1. \A j \in DOMAIN frames : frames[j].id \in Nat
      BY <1>0, <1>1 DEF FramesTyped
    <3> QED
      BY <1>0, <1>1, <2>1, <2>2, <3>1, PoppedIds
  <2>4. f.level \in 0..Len(lets)
    BY <1>0, <1>1, <2>1 DEF Levels, FramesTyped
  <2> HIDE DEF f, n
  <2>5. IsSeq(lets') /\ Len(lets') = f.level
    BY <1>0, <2>2, <2>4, PrefixIsSeq
  <2>6. FramesTyped'
    BY <1>1, <2>2, <2>3 DEF FramesTyped
  <2>7. Levels'
    <3>1. \A j \in DOMAIN frames' : frames[j].level <= f.level
      BY <1>0, <1>1, <2>1, <2>3 DEF Levels, f, n
    <3> QED
      BY <1>1, <2>3, <2>5, <3>1 DEF Levels
  <2>8. IsSeq(loops') /\ Increasing(loops') /\ Ids(loops') = LoopScopes(frames')
    <3>1. CASE f.k # "loop"
      BY <1>0, <1>1, <2>2, <2>3, <3>1
    <3>2. CASE f.k = "loop"
      <4> DEFINE l == loops[Len(loops)]
      <4>1. f.id \in Ids(loops)
        BY <1>1, <2>1, <3>2 DEF LoopScopes, f
      <4>2. loops # <<>>
        BY <1>0, <4>1, IsSeqLen DEF Ids
      <4>3. /\ IsSeq(loops') /\ Increasing(loops')
            /\ Ids(loops') = Ids(loops) \ {l.id}
            /\ l.id \in Ids(loops) /\ \A id \in Ids(loops) : id <= l.id
        <5>1. \A j \in DOMAIN loops : loops[j].id \in Nat
          BY <1>0, <1>1
        <5> QED
          BY <1>0, <1>1, <2>2, <3>2, <4>2, <5>1, PoppedIds
      <4>4. l.id \in Nat /\ f.id \in Nat
        BY <1>0, <1>1, <2>1, <4>2, IsSeqLen DEF FramesTyped, f
      <4> HIDE DEF l
      <4>5. l.id \in Ids(frames)
        BY <1>1, <4>3 DEF LoopScopes, Ids
      <4>6. l.id = f.id
        BY <2>3, <4>1, <4>3, <4>4, <4>5
      <4> QED
        BY <1>1, <2>3, <3>2, <4>3, <4>6
    <3> QED
      BY <3>1, <3>2
  <2>9. Stacks' /\ Scopes'
    <3>1. frames' = <<>> <=> n = 1
      BY <1>0, <2>1, <2>3, IsSeqLen DEF n
    <3>2. f.k = "program" <=> n = 1
      BY <2>1 DEF Nest, Scopes, f
    <3>3. Scopes'
      BY <2>2, <2>3, <3>1, <3>2 DEF Nest, Scopes
    <3> QED
      BY <1>0, <2>2, <2>3, <2>5, <2>8, <3>3 DEF Stacks
  <2> QED
    BY <1>2, <2>3, <2>6, <2>7, <2>8, <2>9 DEF Nest
<1> QED
  BY <1>4, <1>5, <1>6, <1>7, <1>8, <1>9, <1>10, <1>11 DEF StepKind

-----------------------------------------------------------------------------
(* What is read is there.                                                  *)

Reads == LetsReadOpenLoops /\ LetsAreResults /\ IndicesInsideLoops /\ LocalsDeclaredOnce

\* The property in terms of the loops that were open at a let.
LEMMA LetsReadOpenLoopsIs ==
  LetsReadOpenLoops <=> \A j \in DOMAIN lets : lets[j].exp.loops \subseteq OpenAt(j)
  BY DEF LetsReadOpenLoops, OpenAt

\* All of the open loops may be read.
LEMMA LoopIdsAreOpen ==
  ASSUME Nest
  PROVE  LoopIds = LoopScopes(frames) /\ LoopIds = OpenAt(Len(lets) + 1)
<1>1. LoopIds = LoopScopes(frames)
  BY ScopesNestParts DEF Nest, LoopIds, Ids
<1>2. \A j \in DOMAIN frames : frames[j].level < Len(lets) + 1
  BY IsSeqLen DEF Nest, Stacks, FramesTyped, ScopesNest
<1>3. LoopScopes(frames) = OpenAt(Len(lets) + 1)
  BY <1>2 DEF LoopScopes, OpenAt
<1> QED
  BY <1>1, <1>3

\* A statement that was built of a result is inside of the loops that it reads.
LEMMA NewNodeReads ==
  ASSUME Nest, IndicesInsideLoops, NEW k, NEW V, NEW e, Sound(e, LoopIds, V),
         nodes' = NewNode(k, e)
  PROVE  /\ IndicesInsideLoops'
         /\ \A n \in DOMAIN nodes' :
              (n \in DOMAIN nodes /\ nodes'[n] = nodes[n]) \/ nodes'[n].locals \subseteq V
<1> DEFINE around == {m \in DOMAIN frames : frames[m].k = "loop"}
           node == [k |-> k, reads |-> e.loops, locals |-> e.locals,
                    inside |-> {frames[m].id : m \in around}]
<1>1. nodes' = Append(nodes, node)
  BY DEF NewNode
<1>2. node.reads \subseteq node.inside /\ node.locals \subseteq V
  BY LoopIdsAreOpen DEF Sound, LoopScopes
<1> HIDE DEF node
<1>3. /\ DOMAIN nodes' = DOMAIN nodes \union {Len(nodes) + 1}
      /\ \A n \in DOMAIN nodes : nodes'[n] = nodes[n]
      /\ nodes'[Len(nodes) + 1] = node
  BY <1>1, AppendIsSeq DEF Nest, Stacks
<1> QED
  BY <1>2, <1>3 DEF IndicesInsideLoops

\* The lets stay, and so do the loops and the variables that they read.
LEMMA LetsKept ==
  ASSUME Reads, lets' = lets, LoopIds \subseteq LoopIds', VarNames \subseteq VarNames',
         \A j \in DOMAIN frames : j \in DOMAIN frames' /\ frames'[j] = frames[j]
  PROVE  LetsReadOpenLoops' /\ LetsAreResults'
<1>1. ASSUME NEW j \in DOMAIN lets PROVE Sound(lets[j].exp, LoopIds', VarNames')
  <2>1. Sound(lets[j].exp, LoopIds, VarNames)
    BY DEF Reads, LetsAreResults
  <2> QED
    BY <2>1, SoundGrows
<1>2. \A j : OpenAt(j) \subseteq OpenAt(j)'
  BY DEF OpenAt
<1>3. \A j \in DOMAIN lets : lets[j].exp.loops \subseteq OpenAt(j)'
  BY <1>2, LetsReadOpenLoopsIs DEF Reads
<1>4. LetsReadOpenLoops'
  BY <1>3 DEF LetsReadOpenLoops, OpenAt
<1> QED
  BY <1>1, <1>4 DEF LetsAreResults

\* Every kind of step keeps what lets and statements read in scope.
LEMMA ReadsPreserved ==
  ASSUME Nest, Reads, StepKind, Nest'
  PROVE  Reads'
<1>0. /\ IsSeq(frames) /\ IsSeq(lets) /\ IsSeq(loops) /\ IsSeq(locals) /\ IsSeq(nodes)
      /\ Len(lets) \in Nat /\ DOMAIN lets = 1..Len(lets)
      /\ Len(frames) \in Nat /\ DOMAIN frames = 1..Len(frames)
      /\ Len(locals) \in Nat /\ DOMAIN locals = 1..Len(locals)
  BY IsSeqLen DEF Nest, Stacks
<1>1. /\ \A x : Sound(parseExpr(x), LoopIds, VarNames)
      /\ \A x : Sound(StmtResult(x), LoopIds, VarNames)
      /\ Sound(Null(FALSE), LoopIds, VarNames)
  BY parseExprSound, StmtResultSound, ValueIsSound DEF Nest, Reads
<1>2. LetsReadOpenLoops /\ LetsAreResults /\ IndicesInsideLoops /\ LocalsDeclaredOnce
  BY DEF Reads
\* A statement is added, if any, and the variables stay.
<1>3. ASSUME locals' = locals,
             nodes' = nodes \/ \E k, e : Sound(e, LoopIds, VarNames) /\ nodes' = NewNode(k, e)
      PROVE  IndicesInsideLoops' /\ LocalsDeclaredOnce'
  <2>1. CASE nodes' = nodes
    BY <1>2, <1>3, <2>1 DEF IndicesInsideLoops, LocalsDeclaredOnce
  <2>2. CASE nodes' # nodes
    <3>1. /\ IndicesInsideLoops'
          /\ \A n \in DOMAIN nodes' :
               (n \in DOMAIN nodes /\ nodes'[n] = nodes[n]) \/ nodes'[n].locals \subseteq VarNames
      BY <1>2, <1>3, <2>2, NewNodeReads
    <3> QED
      BY <1>2, <1>3, <3>1 DEF LocalsDeclaredOnce, VarNames
  <2> QED
    BY <2>1, <2>2
<1>4. CASE Quiet
  <2>1. UNCHANGED <<LoopIds, VarNames>>
    BY <1>4 DEF Quiet, LoopIds, VarNames
  <2>2. LetsReadOpenLoops' /\ LetsAreResults'
    BY <1>4, <2>1, LetsKept DEF Quiet
  <2> QED
    BY <1>3, <1>4, <2>2 DEF Quiet, Reads
<1>5. CASE AddLet
  <2>1. UNCHANGED <<LoopIds, VarNames>> /\ \A j : OpenAt(j)' = OpenAt(j)
    BY <1>5 DEF AddLet, LoopIds, VarNames, OpenAt
  <2>2. PICK l : lets' = Append(lets, l) /\ Sound(l.exp, LoopIds, VarNames)
    <3>1. PICK name, x :
            lets' = Append(lets, [name |-> name,
                      exp |-> [parseExpr(x) EXCEPT !.const = parseExpr(x).fold, !.rest = FALSE]])
      BY <1>5 DEF AddLet
    <3> DEFINE e == [parseExpr(x) EXCEPT !.const = parseExpr(x).fold, !.rest = FALSE]
    <3>2. Sound(e, LoopIds, VarNames)
      <4>1. Sound(parseExpr(x), LoopIds, VarNames)
        BY <1>1
      <4> QED
        BY <4>1, ChangedIsSound
    <3>3. lets' = Append(lets, [name |-> name, exp |-> e])
      BY <3>1
    <3> HIDE DEF e
    <3>4. [name |-> name, exp |-> e].exp = e
      OBVIOUS
    <3> QED
      BY <3>2, <3>3, <3>4
  <2>3. Sound(l.exp, LoopIds, VarNames)
    BY <2>2
  <2>4. /\ DOMAIN lets' = DOMAIN lets \union {Len(lets) + 1}
        /\ \A j \in DOMAIN lets : lets'[j] = lets[j]
        /\ lets'[Len(lets) + 1] = l
    BY <1>0, <2>2, AppendIsSeq
  <2>5. l.exp.loops \subseteq OpenAt(Len(lets) + 1)
    BY <2>3, LoopIdsAreOpen DEF Sound
  <2>6. \A j \in DOMAIN lets' : lets'[j].exp.loops \subseteq OpenAt(j)'
    BY <1>2, <2>1, <2>4, <2>5, LetsReadOpenLoopsIs
  <2>7. LetsReadOpenLoops'
    BY <2>6 DEF LetsReadOpenLoops, OpenAt
  <2>8. LetsAreResults'
    BY <1>2, <2>1, <2>3, <2>4 DEF LetsAreResults
  <2> QED
    BY <1>3, <1>5, <2>7, <2>8 DEF AddLet, Reads
<1>6. CASE AddVar
  <2>1. PICK v : /\ getByName(locals, v.name) = 0
                 /\ locals' = Append(locals, v)
                 /\ \/ nodes' = nodes
                    \/ \E x : nodes' = NewNode("storelocal",
                                         [parseExpr(x) EXCEPT !.locals = @ \union {v.name}])
    BY <1>6 DEF AddVar
  <2>2. /\ DOMAIN locals' = DOMAIN locals \union {Len(locals) + 1}
        /\ \A j \in DOMAIN locals : locals'[j] = locals[j]
        /\ locals'[Len(locals) + 1] = v
        /\ \A j \in DOMAIN locals : locals[j].name # v.name
    BY <1>0, <2>1, AppendIsSeq, getByNameFinds
  <2>3. VarNames' = VarNames \union {v.name}
    BY <2>2 DEF VarNames
  <2>4. LetsReadOpenLoops' /\ LetsAreResults'
    <3>1. LoopIds' = LoopIds
      BY <1>6 DEF AddVar, LoopIds
    <3> QED
      BY <1>6, <2>3, <3>1, LetsKept DEF AddVar
  <2>5. \A j, m \in DOMAIN locals' : locals'[j].name = locals'[m].name => j = m
    BY <1>2, <2>2 DEF LocalsDeclaredOnce
  <2>6. IndicesInsideLoops' /\ \A n \in DOMAIN nodes' : nodes'[n].locals \subseteq VarNames'
    <3>1. \A n \in DOMAIN nodes : nodes[n].locals \subseteq VarNames'
      BY <1>2, <2>3 DEF LocalsDeclaredOnce, VarNames
    <3>2. CASE nodes' = nodes
      <4>1. IndicesInsideLoops'
        BY <1>2, <3>2 DEF IndicesInsideLoops
      <4> QED
        BY <3>1, <3>2, <4>1
    <3>3. CASE nodes' # nodes
      <4>1. PICK x : nodes' = NewNode("storelocal",
                                      [parseExpr(x) EXCEPT !.locals = @ \union {v.name}])
        BY <2>1, <3>3
      <4>2. Sound(parseExpr(x), LoopIds, VarNames')
        BY <1>1, <2>3, SoundGrows
      <4>3. {v.name} \in SUBSET VarNames'
        BY <2>3
      <4>4. Sound([parseExpr(x) EXCEPT !.locals = @ \union {v.name}], LoopIds, VarNames')
        BY <4>2, <4>3, ChangedIsSound
      <4>5. /\ IndicesInsideLoops'
            /\ \A n \in DOMAIN nodes' :
                 \/ n \in DOMAIN nodes /\ nodes'[n] = nodes[n]
                 \/ nodes'[n].locals \subseteq VarNames'
        <5> DEFINE e == [parseExpr(x) EXCEPT !.locals = @ \union {v.name}]
                   V == VarNames'
        <5>1. nodes' = NewNode("storelocal", e) /\ Sound(e, LoopIds, V)
          BY <4>1, <4>4
        <5> HIDE DEF e, V
        <5>2. /\ IndicesInsideLoops'
              /\ \A n \in DOMAIN nodes' :
                   (n \in DOMAIN nodes /\ nodes'[n] = nodes[n]) \/ nodes'[n].locals \subseteq V
          BY <1>2, <5>1, NewNodeReads
        <5> QED
          BY <5>2 DEF V
      <4> QED
        BY <3>1, <4>5
    <3> QED
      BY <3>2, <3>3
  <2>7. LocalsDeclaredOnce'
    BY <2>5, <2>6 DEF LocalsDeclaredOnce, VarNames
  <2> QED
    BY <2>4, <2>6, <2>7 DEF Reads
<1>7. CASE AddStmt
  <2>1. UNCHANGED <<LoopIds, VarNames>>
    BY <1>7 DEF AddStmt, LoopIds, VarNames
  <2>2. LetsReadOpenLoops' /\ LetsAreResults'
    BY <1>7, <2>1, LetsKept DEF AddStmt
  <2> QED
    BY <1>1, <1>3, <1>7, <2>2 DEF AddStmt, Reads
\* A scope is entered.
<1>8. ASSUME lets' = lets, locals' = locals, NEW f, frames' = Append(frames, f),
             LoopIds \subseteq LoopIds'
      PROVE  LetsReadOpenLoops' /\ LetsAreResults'
  <2>1. \A j \in DOMAIN frames : j \in DOMAIN frames' /\ frames'[j] = frames[j]
    BY <1>0, <1>8, AppendIsSeq
  <2>2. VarNames' = VarNames
    BY <1>8 DEF VarNames
  <2> QED
    BY <1>8, <2>1, <2>2, LetsKept
<1>9. CASE OpenLoop
  <2>1. LoopIds \subseteq LoopIds'
    <3>1. PICK l : loops' = Append(loops, l)
      BY <1>9 DEF OpenLoop
    <3>2. \A j \in DOMAIN loops : j \in DOMAIN loops' /\ loops'[j] = loops[j]
      BY <1>0, <3>1, AppendIsSeq
    <3> QED
      BY <3>2 DEF LoopIds
  <2>2. LetsReadOpenLoops' /\ LetsAreResults'
    BY <1>8, <1>9, <2>1 DEF OpenLoop
  <2> QED
    BY <1>1, <1>3, <1>9, <2>2 DEF OpenLoop, Reads
<1>10. CASE OpenIf
  <2>1. LoopIds' = LoopIds
    BY <1>10 DEF OpenIf, LoopIds
  <2>2. LetsReadOpenLoops' /\ LetsAreResults'
    BY <1>8, <1>10, <2>1 DEF OpenIf
  <2> QED
    BY <1>1, <1>3, <1>10, <2>2 DEF OpenIf, Reads
<1>11. CASE OpenProgram
  <2>1. LoopIds' = LoopIds
    BY <1>11 DEF OpenProgram, LoopIds
  <2>2. LetsReadOpenLoops' /\ LetsAreResults'
    BY <1>8, <1>11, <2>1 DEF OpenProgram
  <2> QED
    BY <1>3, <1>11, <2>2 DEF OpenProgram, Reads
<1>12. CASE CloseScope
  <2> DEFINE n == Len(frames)
             f == frames[n]
  <2>1. n \in DOMAIN frames
    BY <1>0, <1>12, IsSeqLen DEF CloseScope, Nest, Scopes
  <2>2. f.level \in 0..Len(lets)
    BY <1>0, <2>1, ScopesNestParts DEF Nest, FramesTyped, Levels
  <2>3. /\ DOMAIN lets' = 1..f.level
        /\ \A j \in DOMAIN lets' : j \in DOMAIN lets /\ lets'[j] = lets[j]
    BY <1>0, <1>12, <2>2, PrefixIsSeq DEF CloseScope
  <2>4. \A m \in DOMAIN frames : m # n => m \in DOMAIN frames' /\ frames'[m] = frames[m]
    BY <1>0, <1>12, <2>1, PrefixIsSeq DEF CloseScope
  <2> HIDE DEF f
  <2>5. \A j \in DOMAIN lets' : OpenAt(j) \subseteq OpenAt(j)'
    <3> SUFFICES ASSUME NEW j \in DOMAIN lets', NEW m \in DOMAIN frames,
                        frames[m].k = "loop", frames[m].level < j
                 PROVE  frames[m].id \in OpenAt(j)'
      BY DEF OpenAt
    <3>1. m # n
      BY <2>2, <2>3 DEF f
    <3> QED
      BY <2>4, <3>1 DEF OpenAt
  <2>6. \A j : OpenAt(j)' \subseteq LoopIds'
    <3>1. LoopIds' = LoopScopes(frames')
      BY DEF Nest, ScopesNest, LoopIds, LoopScopes
    <3> QED
      BY <3>1 DEF OpenAt, LoopScopes
  <2>7. \A j \in DOMAIN lets' : lets'[j].exp.loops \subseteq OpenAt(j)'
    BY <1>2, <2>3, <2>5, LetsReadOpenLoopsIs
  <2>8. LetsReadOpenLoops'
    BY <2>7 DEF LetsReadOpenLoops, OpenAt
  <2>9. ASSUME NEW j \in DOMAIN lets' PROVE Sound(lets'[j].exp, LoopIds', VarNames')
    <3>1. Sound(lets'[j].exp, LoopIds, VarNames)
      BY <1>2, <2>3 DEF LetsAreResults
    <3>2. lets'[j].exp.loops \subseteq LoopIds'
      BY <2>6, <2>7
    <3>3. VarNames' = VarNames
      BY <1>12 DEF CloseScope, VarNames
    <3> QED
      BY <3>1, <3>2, <3>3 DEF Sound
  <2>10. LetsAreResults'
    BY <2>9 DEF LetsAreResults
  <2> QED
    BY <1>3, <1>12, <2>8, <2>10 DEF CloseScope, Reads
<1> QED
  BY <1>4, <1>5, <1>6, <1>7, <1>9, <1>10, <1>11, <1>12 DEF StepKind

-----------------------------------------------------------------------------
(* The tokens, the counters and the errors.                                *)

\* The current token is one of the file; unless it is the end there is more to read.
AtToken ==
  /\ tok \in Input \union {Eof, Junk} /\ read \in 1..MaxInput + 1 /\ depth \in Int
  /\ tok # Eof => read <= MaxInput

\* The end of the file is not a brace.
LEMMA BracesTyped == \A c : Braces(c) \in Int /\ (c = Eof => Braces(c) = 0)
  BY DEF Braces, Eof

\* consumeToken is called before the end only.
LEMMA LexKeepsToken ==
  ASSUME AtToken, tok # Eof, Lex \/ \E rest : LexRest(rest)
  PROVE  AtToken' /\ read' \in Nat /\ read <= read' /\ depth' = depth + Braces(tok)
<1>0. Braces(tok) \in Int
  BY BracesTyped
<1>1. CASE Lex
  BY <1>0, <1>1, BoundAssumption DEF Lex, AtToken
<1>2. CASE tok' = Junk /\ read' = read /\ depth' = depth + Braces(tok)
  BY <1>0, <1>2, BoundAssumption DEF AtToken
<1> QED
  BY <1>1, <1>2 DEF LexRest

\* What is typed apart from the scopes.
Control ==
  /\ debug \in BOOLEAN /\ program \in BOOLEAN /\ failed \in BOOLEAN /\ crashed \in BOOLEAN
  /\ AtToken
  /\ pc \in {"top", "args", "find_arg", "find_body", "round", "lets", "vars", "skip",
             "after", "script", "script_skip", "script_return", "end", "done"}
  /\ pragmas \in Nat /\ pragmas < read

\* The types are those of the control and of the scopes.
LEMMA TypeOKIs == TypeOK /\ Reading <=> Control /\ FramesTyped
<1>1. ASSUME TypeOK, Reading PROVE Control /\ FramesTyped
  BY <1>1 DEF TypeOK, Reading, Control, AtToken, FramesTyped
<1>2. ASSUME Control, FramesTyped PROVE TypeOK /\ Reading
  BY <1>2, BoundAssumption DEF TypeOK, Reading, Control, AtToken, FramesTyped
<1> QED
  BY <1>1, <1>2

\* An error is recorded, or the process ends.
LEMMA DiagnoseIsError ==
  ASSUME failed \in BOOLEAN, crashed \in BOOLEAN, NEW t, Diagnose(t)
  PROVE  failed' \in BOOLEAN /\ crashed' \in BOOLEAN /\ ~Clean'
  BY DEF Diagnose, Clean

\* Every step keeps the parser before the end of the file, and errors stay.
LEMMA ControlPreserved ==
  ASSUME Control, [Next]_vars
  PROVE  Control' /\ (Clean' => Clean)
<1> DEFINE Typed(p) == p \in {"top", "args", "find_arg", "find_body", "round", "lets", "vars",
                              "skip", "after", "script", "script_skip", "script_return",
                              "end", "done"}
           Errors == failed' \in BOOLEAN /\ crashed' \in BOOLEAN /\ (Clean' => Clean)
\* It is enough to look at the token, at pc and at the errors.
<1>1. ASSUME debug' = debug, program' \in BOOLEAN, Errors, AtToken', Typed(pc'),
             read <= read', pragmas' = pragmas
      PROVE  Control' /\ (Clean' => Clean)
  BY <1>1 DEF Control, AtToken
<1>2. ASSUME UNCHANGED <<tok, read, depth>> PROVE AtToken' /\ read <= read'
  BY <1>2 DEF Control, AtToken
<1>3. ASSUME tok # Eof, Lex PROVE AtToken' /\ read <= read' /\ read' = read + 1
  BY <1>3, LexKeepsToken DEF Control, Lex
<1>4. ASSUME tok # Eof, NEW rest, LexRest(rest) PROVE AtToken' /\ read <= read'
  BY <1>4, LexKeepsToken DEF Control
<1>5. ASSUME NEW t, Diagnose(t) PROVE Errors
  BY <1>5, DiagnoseIsError DEF Control
<1>6. ASSUME UNCHANGED <<failed, crashed>> PROVE Errors
  BY <1>6 DEF Control, Clean
<1>7. ASSUME NEW bad, failed' = (failed \/ bad), UNCHANGED crashed PROVE Errors
  BY <1>7 DEF Control, Clean
<1>8. tok.k # "eof" => tok # Eof
  BY DEF Eof
<1>9. /\ Typed(pc) /\ program \in BOOLEAN
  BY DEF Control
<1> HIDE DEF Errors
<1>10. ASSUME tok # Eof, Fail PROVE Control' /\ (Clean' => Clean)
  <2>1. Errors
    BY <1>7, <1>10 DEF Fail
  <2> QED
    BY <1>1, <1>3, <1>9, <1>10, <2>1 DEF Fail
<1>11. ASSUME Abort PROVE Control' /\ (Clean' => Clean)
  <2>1. Errors
    BY <1>11 DEF Abort, Control, Errors, Clean
  <2> QED
    BY <1>1, <1>2, <1>9, <1>11, <2>1 DEF Abort, lexer
\* parseScope is entered after the construct was read.
<1>12. ASSUME tok # Eof, Lex, NEW k, NEW id, NEW brace, NEW bad, EnterScope(k, id, brace, bad),
              UNCHANGED <<debug, program, pragmas>>
       PROVE  Control' /\ (Clean' => Clean)
  <2>1. Errors
    BY <1>5, <1>7, <1>12 DEF EnterScope
  <2> QED
    BY <1>1, <1>3, <1>9, <1>12, <2>1 DEF EnterScope
<1>13. CASE ParseFunctionDecl \/ SkipConstruct \/ EndScript
  BY <1>1, <1>3, <1>6, <1>8, <1>9, <1>13 DEF ParseFunctionDecl, SkipConstruct, EndScript
<1>14. CASE NoFunction \/ NoArgument \/ NoBody \/ ParseUnknown \/ UnknownPragma
  BY <1>1, <1>2, <1>5, <1>9, <1>14
     DEF NoFunction, NoArgument, NoBody, ParseUnknown, UnknownPragma, lexer
<1>15. CASE ParseArgument
  <2>1. Errors
    <3>1. \E bad : failed' = (failed \/ bad) /\ UNCHANGED crashed
      BY <1>15 DEF ParseArgument, Control
    <3> QED
      BY <1>7, <3>1
  <2> QED
    BY <1>1, <1>3, <1>8, <1>9, <1>15, <2>1 DEF ParseArgument
<1>16. CASE FindArgument \/ SkipPragma
  BY <1>1, <1>2, <1>3, <1>6, <1>8, <1>9, <1>16 DEF FindArgument, SkipPragma, lexer
<1>17. CASE ParseBody
  BY <1>8, <1>12, <1>17 DEF ParseBody
<1>18. CASE FindBody
  <2>1. CASE Braces(tok) = 1
    <3>1. tok # Eof
      BY <2>1, BracesTyped
    <3>2. Lex /\ EnterScope("program", 0, TRUE, TRUE) /\ UNCHANGED <<debug, program, pragmas>>
      BY <1>18, <2>1 DEF FindBody
    <3> QED
      BY <1>12, <3>1, <3>2
  <2>2. CASE Braces(tok) # 1
    BY <1>1, <1>2, <1>3, <1>5, <1>6, <1>9, <1>18, <2>2 DEF FindBody, lexer
  <2> QED
    BY <2>1, <2>2
<1>19. CASE ParseLet
  <2>0. tok # Eof
    BY <1>8, <1>19 DEF ParseLet
  <2>1. CASE \E rest : /\ failed' = (failed \/ tok.name = NoName) /\ UNCHANGED crashed
                       /\ pc' = IF pc = "top" THEN "top" ELSE "lets"
                       /\ LexRest(rest)
                       /\ UNCHANGED <<debug, program, pragmas>>
    <3>1. Errors
      BY <1>7, <2>1
    <3> QED
      BY <1>1, <1>4, <1>9, <2>0, <2>1, <3>1
  <2>2. CASE Fail
    BY <1>10, <2>0, <2>2
  <2>3. CASE /\ pc' = "done" /\ failed' = TRUE
             /\ UNCHANGED <<debug, lexer, program, pragmas, crashed>>
    <3>1. Errors
      BY <1>7, <2>3
    <3> QED
      BY <1>1, <1>2, <1>9, <2>3, <3>1 DEF lexer
  <2>4. CASE Abort
    BY <1>11, <2>4
  <2> QED
    BY <1>19, <2>1, <2>2, <2>3, <2>4 DEF ParseLet
<1>20. CASE ParseVar
  <2>0. tok # Eof
    BY <1>8, <1>20 DEF ParseVar
  <2>1. \/ Fail
        \/ Abort
        \/ \E bad, rest : /\ failed' = (failed \/ bad) /\ UNCHANGED crashed
                          /\ pc' \in {"skip", "vars"}
                          /\ LexRest(rest)
                          /\ UNCHANGED <<debug, program, pragmas>>
    BY <1>20 DEF ParseVar
  <2>2. CASE \E bad, rest : /\ failed' = (failed \/ bad) /\ UNCHANGED crashed
                            /\ pc' \in {"skip", "vars"}
                            /\ LexRest(rest)
                            /\ UNCHANGED <<debug, program, pragmas>>
    <3>1. Errors
      BY <1>7, <2>2
    <3> QED
      BY <1>1, <1>4, <1>9, <2>0, <2>2, <3>1
  <2> QED
    BY <1>10, <1>11, <2>0, <2>1, <2>2
<1>21. CASE ParseSimpleStmt
  <2>0. tok # Eof
    BY <1>8, <1>21 DEF ParseSimpleStmt
  <2>1. CASE \E rest : /\ pc' = "round" /\ LexRest(rest)
                       /\ UNCHANGED <<debug, program, pragmas, failed, crashed>>
    BY <1>1, <1>4, <1>6, <1>9, <2>0, <2>1
  <2> QED
    BY <1>10, <1>11, <1>21, <2>0, <2>1 DEF ParseSimpleStmt
<1>22. CASE ParseFor
  <2>0. tok # Eof
    BY <1>8, <1>22 DEF ParseFor
  <2>1. \/ Fail \/ Abort
        \/ \E bad : /\ Lex /\ EnterScope("loop", Len(nodes) + 1, tok.brace, bad)
                    /\ UNCHANGED <<debug, program, pragmas>>
    BY <1>22 DEF ParseFor
  <2> QED
    BY <1>10, <1>11, <1>12, <2>0, <2>1
<1>23. CASE ParseIf
  <2>0. tok # Eof
    BY <1>8, <1>23 DEF ParseIf
  <2>1. \/ Abort
        \/ \E bad : /\ Lex /\ EnterScope("if", Len(nodes) + 1, tok.brace, bad)
                    /\ UNCHANGED <<debug, program, pragmas>>
    BY <1>23 DEF ParseIf
  <2> QED
    BY <1>11, <1>12, <2>0, <2>1
<1>24. CASE EndScope
  <2>1. program' \in BOOLEAN /\ Typed(pc') /\ UNCHANGED <<debug, pragmas>>
    BY <1>9, <1>24 DEF EndScope
  <2> QED
    BY <1>1, <1>2, <1>3, <1>5, <1>6, <1>24, <2>1 DEF EndScope, lexer
<1>25. CASE ParseScript
  <2>0. tok # Eof
    BY <1>8, <1>25 DEF ParseScript
  <2>1. CASE tok.head = "ok"
    BY <1>1, <1>3, <1>5, <1>6, <1>9, <1>25, <2>0, <2>1 DEF ParseScript
  <2>2. CASE tok.head # "ok"
    <3>1. Errors
      BY <1>7, <1>25, <2>2 DEF ParseScript
    <3>2. AtToken' /\ read <= read'
      BY <1>25, <2>2 DEF ParseScript, Control, AtToken
    <3> QED
      BY <1>1, <1>9, <1>25, <2>2, <3>1, <3>2 DEF ParseScript
  <2> QED
    BY <2>1, <2>2
<1>26. CASE ParsePragma
  <2>0. tok # Eof
    BY <1>8, <1>26 DEF ParsePragma
  <2>1. Errors
    BY <1>7, <1>26 DEF ParsePragma
  <2>2. AtToken' /\ read' = read + 1
    BY <1>3, <1>26, <2>0 DEF ParsePragma
  <2>3. pragmas' \in Nat /\ pragmas' < read'
    BY <1>26, <2>2 DEF ParsePragma, Control, AtToken
  <2> QED
    BY <1>26, <2>1, <2>2, <2>3 DEF ParsePragma, Control, Errors
<1>27. CASE EndParse
  BY <1>1, <1>2, <1>5, <1>6, <1>9, <1>27 DEF EndParse, lexer
<1>28. CASE Done \/ UNCHANGED vars
  BY <1>1, <1>2, <1>6, <1>9, <1>28 DEF Done, vars, lexer
<1> QED
  BY <1>13, <1>14, <1>15, <1>16, <1>17, <1>18, <1>19, <1>20, <1>21, <1>22, <1>23, <1>24,
     <1>25, <1>26, <1>27, <1>28 DEF Next

-----------------------------------------------------------------------------
(* The braces of the text.                                                 *)

\* Without an error a step moves as many scopes as it reads braces.
LEMMA TextPreserved ==
  ASSUME Control, Nest, Text, [Next]_vars, Nest', Clean' => Clean
  PROVE  Text'
<1> SUFFICES ASSUME Clean', Clean
             PROVE  /\ pc' \notin {"find_arg", "find_body", "skip", "script_skip", "script_return"}
                    /\ depth' = Len(frames') + (IF pc' = "script" THEN 1 ELSE 0)
                    /\ pc' \in {"after", "script", "end", "done"} => program'
                    /\ pc' = "done" => tok' = Eof
  BY DEF Text
<1>0. /\ Len(frames) \in Nat /\ IsSeq(frames)
      /\ failed \in BOOLEAN /\ crashed \in BOOLEAN /\ ~failed /\ ~crashed
  BY IsSeqLen DEF Nest, Stacks, Control, Clean
<1>1. /\ pc \notin {"find_arg", "find_body", "skip", "script_skip", "script_return"}
      /\ depth = Len(frames) + (IF pc = "script" THEN 1 ELSE 0)
      /\ pc \in {"after", "script", "end", "done"} => program
      /\ pc = "done" => tok = Eof
  BY DEF Text
<1>2. ~failed' /\ ~crashed' /\ \A t : ~Diagnose(t)
  BY <1>0, DiagnoseIsError DEF Clean
<1>3. ~Fail /\ ~Abort
  BY <1>2 DEF Fail, Abort
\* A construct without braces.
<1>4. ASSUME Lex \/ \E rest : LexRest(rest), Braces(tok) = 0, frames' = frames,
             pc \in {"top", "args", "round", "lets", "vars"},
             pc' \in {"top", "args", "round", "lets", "vars"}
      PROVE  depth' = Len(frames') + (IF pc' = "script" THEN 1 ELSE 0)
  BY <1>0, <1>1, <1>4 DEF Lex, LexRest
\* A scope with its brace.
<1>5. ASSUME Lex, tok.k \in {"for", "if", "body"}, pc # "script",
             NEW k, NEW id, NEW bad, EnterScope(k, id, tok.brace, bad)
      PROVE  pc' = "round" /\ depth' = Len(frames') + 0
  <2>1. tok.brace /\ pc' = "round"
    BY <1>2, <1>5 DEF EnterScope
  <2>2. Len(frames') = Len(frames) + 1
    BY <1>0, <1>5, AppendIsSeq DEF EnterScope
  <2>3. depth' = depth + 1
    BY <1>5, <2>1 DEF Lex, Braces
  <2> QED
    BY <1>0, <1>1, <1>5, <2>1, <2>2, <2>3
<1>6. CASE ParseFunctionDecl \/ (ParseArgument /\ tok.good)
  <2>1. /\ Lex /\ Braces(tok) = 0 /\ frames' = frames
        /\ pc \in {"top", "args"} /\ pc' = "args"
    BY <1>6 DEF ParseFunctionDecl, ParseArgument, Braces
  <2> QED
    BY <1>4, <2>1
<1>7. CASE ParseArgument /\ ~tok.good
  BY <1>2, <1>7 DEF ParseArgument
<1>8. CASE NoFunction \/ NoArgument \/ NoBody \/ ParseUnknown \/ UnknownPragma
  BY <1>2, <1>8 DEF NoFunction, NoArgument, NoBody, ParseUnknown, UnknownPragma
<1>9. CASE FindArgument \/ FindBody \/ SkipConstruct \/ SkipPragma
  BY <1>1, <1>9 DEF FindArgument, FindBody, SkipConstruct, SkipPragma
<1>10. CASE ParseBody
  BY <1>5, <1>10 DEF ParseBody
<1>11. CASE ParseLet
  <2>1. /\ \E rest : LexRest(rest)
        /\ Braces(tok) = 0 /\ frames' = frames
        /\ pc \in {"top", "round", "lets"}
        /\ pc' = IF pc = "top" THEN "top" ELSE "lets"
    BY <1>2, <1>3, <1>11 DEF ParseLet, Braces
  <2> QED
    BY <1>4, <2>1
<1>12. CASE ParseVar
  <2>1. /\ \E rest : LexRest(rest)
        /\ Braces(tok) = 0 /\ frames' = frames
        /\ pc \in {"round", "lets", "vars"} /\ pc' = "vars"
    BY <1>2, <1>3, <1>12 DEF ParseVar, Braces
  <2> QED
    BY <1>4, <2>1
<1>13. CASE ParseSimpleStmt
  <2>1. /\ \E rest : LexRest(rest)
        /\ Braces(tok) = 0 /\ frames' = frames
        /\ pc \in {"round", "lets", "vars"} /\ pc' = "round"
    BY <1>3, <1>13 DEF ParseSimpleStmt, AtStmt, Braces
  <2> QED
    BY <1>4, <2>1
<1>14. CASE ParseFor
  <2>1. /\ Lex /\ \E bad : EnterScope("loop", Len(nodes) + 1, tok.brace, bad)
        /\ tok.k = "for" /\ pc # "script"
    BY <1>3, <1>14 DEF ParseFor, AtStmt
  <2> QED
    BY <1>5, <2>1
<1>15. CASE ParseIf
  <2>1. /\ Lex /\ \E bad : EnterScope("if", Len(nodes) + 1, tok.brace, bad)
        /\ tok.k = "if" /\ pc # "script"
    BY <1>3, <1>15 DEF ParseIf, AtStmt
  <2> QED
    BY <1>5, <2>1
<1>16. CASE EndScope
  <2>1. pc = "round" /\ tok.k = "close" /\ Lex
    BY <1>1, <1>2, <1>16 DEF EndScope
  <2>2. depth' = depth - 1
    BY <1>0, <1>1, <2>1 DEF Lex, Braces
  <2>3. Len(frames) # 0
    BY <1>0, <2>1, IsSeqLen DEF Nest, Scopes, InScope
  <2>4. Len(frames') = Len(frames) - 1
    <3>1. frames' = SubSeq(frames, 1, Len(frames) - 1) /\ Len(frames) - 1 \in 0..Len(frames)
      BY <1>0, <1>16, <2>3 DEF EndScope
    <3> QED
      BY <1>0, <3>1, PrefixIsSeq
  <2>5. /\ pc' = "after" \/ pc' = "round"
        /\ pc' = "after" => program' = TRUE
    BY <1>16 DEF EndScope
  <2>6. depth' = Len(frames')
    BY <1>0, <1>1, <2>1, <2>2, <2>4
  <2> HIDE DEF Clean
  <2> QED
    BY <2>4, <2>5, <2>6, <1>0
<1>17. CASE ParseScript
  <2>1. /\ tok.brace /\ tok.k = "script" /\ Lex /\ pc = "after" /\ pc' = "script"
        /\ UNCHANGED <<frames, program>>
    BY <1>2, <1>17 DEF ParseScript
  <2>2. depth' = depth + 1
    BY <2>1 DEF Lex, Braces
  <2> QED
    BY <1>0, <1>1, <2>1, <2>2
<1>18. CASE ParsePragma
  <2>1. /\ tok.k = "pragma" /\ Lex /\ pc = "script" /\ pc' = "script"
        /\ UNCHANGED <<frames, program>>
    BY <1>2, <1>18 DEF ParsePragma
  <2>2. depth' = depth + 0
    BY <2>1 DEF Lex, Braces
  <2> QED
    BY <1>0, <1>1, <2>1, <2>2
<1>19. CASE EndScript
  <2>1. /\ tok.k = "close" /\ Lex /\ pc = "script" /\ pc' = "end"
        /\ UNCHANGED <<frames, program>>
    BY <1>19 DEF EndScript
  <2>2. depth' = depth - 1
    BY <1>0, <1>1, <2>1 DEF Lex, Braces
  <2> QED
    BY <1>0, <1>1, <2>1, <2>2
<1>20. CASE EndParse
  BY <1>0, <1>1, <1>2, <1>20 DEF EndParse, lexer
<1>21. CASE Done \/ UNCHANGED vars
  BY <1>1, <1>21 DEF Done, vars, lexer
<1> QED
  BY <1>6, <1>7, <1>8, <1>9, <1>10, <1>11, <1>12, <1>13, <1>14, <1>15, <1>16, <1>17, <1>18,
     <1>19, <1>20, <1>21 DEF Next

-----------------------------------------------------------------------------
(* The theorems.                                                           *)

\* The invariant has four parts that the steps are examined for in turn.
LEMMA ParserInvParts ==
  ParserInv <=> Nest /\ Reads /\ Control /\ Text
<1>1. TypeOK => FramesTyped
  BY DEF TypeOK, FramesTyped
<1> QED
  BY <1>1, TypeOKIs DEF ParserInv, Nest, Reads

\* Before the first token nothing is open.
LEMMA InitParserInv == Init => ParserInv
<1> SUFFICES ASSUME Init PROVE Nest /\ Reads /\ Control /\ Text
  BY ParserInvParts
<1>1. /\ DOMAIN frames = {} /\ DOMAIN lets = {} /\ DOMAIN loops = {}
      /\ DOMAIN locals = {} /\ DOMAIN nodes = {}
      /\ Len(frames) = 0 /\ Len(nodes) = 0
  BY DEF Init
<1>2. Stacks
  BY EmptyIsSeq DEF Init, Stacks
<1>3. FramesTyped /\ ScopesNest
  BY <1>1 DEF FramesTyped, ScopesNest
<1>4. Scopes
  BY <1>1 DEF Scopes, InScope, Init
<1>5. Reads
  BY <1>1 DEF Reads, LetsReadOpenLoops, LetsAreResults, IndicesInsideLoops, LocalsDeclaredOnce
<1>6. Control
  <2>1. AtToken
    <3>1. tok \in Input \union {Eof} /\ read = 1 /\ depth = 0
      BY DEF Init
    <3> QED
      BY <3>1, BoundAssumption DEF AtToken
  <2>2. debug \in BOOLEAN /\ program \in BOOLEAN /\ failed \in BOOLEAN /\ crashed \in BOOLEAN
    BY Zenon DEF Init
  <2>3. pc = "top" /\ pragmas = 0 /\ read = 1
    BY DEF Init
  <2>4. pragmas \in Nat /\ pragmas < read
    BY <2>3
  <2> QED
    BY <2>1, <2>2, <2>3, <2>4 DEF Control
<1>7. Text
  BY <1>1 DEF Init, Text, Clean
<1> QED
  BY <1>2, <1>3, <1>4, <1>5, <1>6, <1>7 DEF Nest

\* Every step keeps the invariant.
LEMMA ParserInvPreserved == ParserInv /\ [Next]_vars => ParserInv'
<1> SUFFICES ASSUME Nest, Reads, Control, Text, [Next]_vars
             PROVE  ParserInv'
  BY ParserInvParts
<1>1. StepKind
  BY NextIsStepKind DEF Nest
<1>2. Nest'
  BY <1>1, NestPreserved
<1>3. Reads'
  BY <1>1, <1>2, ReadsPreserved
<1>4. Control' /\ (Clean' => Clean)
  BY ControlPreserved
<1>5. Text'
  BY <1>2, <1>4, TextPreserved
<1> QED
  BY <1>2, <1>3, <1>4, <1>5, ParserInvParts, PTL

\* Between any two constructs of any file the stacks of loops and lets are those of the
\* scopes, what was parsed reads only what was in scope, the token is that of the text, and
\* the scopes are its braces until an error was diagnosed.
THEOREM ParserInvHolds == Spec => []ParserInv
  BY InitParserInv, ParserInvPreserved, PTL DEF Spec

\* The parser never reads past the end of the file, however long it is and wherever
\* parseScope, skipUntil and parseScriptDecl recover from errors, and a scope is
\* always one of a statement that was created.
THEOREM NeverReadsPastEnd == Spec => []TypeOK
<1>1. ParserInv => TypeOK
  BY DEF ParserInv
<1> QED
  BY <1>1, ParserInvHolds, PTL

\* The assertions of parseForStmt ("Popped an unexpected loop") and restoreStack
\* ("Invalid state") hold in every nesting of scopes, also after an error when a
\* closing brace of another scope ends a scope.
THEOREM StacksMatchScopes == Spec => []ScopesNest
<1>1. ParserInv => ScopesNest
  BY DEF ParserInv
<1> QED
  BY <1>1, ParserInvHolds, PTL

\* A let never outlives a loop that it reads: restoreStack at the end of parseScope
\* comes before parseForStmt pops the loop.
THEOREM LetsAreInScope == Spec => []LetsReadOpenLoops
<1>1. ParserInv => LetsReadOpenLoops
  BY DEF ParserInv
<1> QED
  BY <1>1, ParserInvHolds, PTL

\* What parseExpr builds for any expression, also through lets of lets, is verified by
\* IndexExpr::verify: the loops that it reads are around the statement.
THEOREM IndicesAreInScope == Spec => []IndicesInsideLoops
<1>1. ParserInv => IndicesInsideLoops
  BY DEF ParserInv
<1> QED
  BY <1>1, ParserInvHolds, PTL

\* parseVarDecl never adds a second variable with the same name to the program, and
\* every statement uses variables that were added (NamedValueMap, getVarIndex).
THEOREM LocalsAreUnique == Spec => []LocalsDeclaredOnce
<1>1. ParserInv => LocalsDeclaredOnce
  BY DEF ParserInv
<1> QED
  BY <1>1, ParserInvHolds, PTL

\* Unless parseScope diagnosed an error the scopes are the braces of the text.
THEOREM ScopesAreBraces == Spec => []NestingIsText
<1>1. ParserInv => NestingIsText
  <2>1. ASSUME ParserInv PROVE Len(frames) + 0 = Len(frames)
    BY <2>1, IsSeqLen DEF ParserInv, Stacks
  <2> QED
    BY <2>1 DEF ParserInv, Text, Clean, NestingIsText
<1> QED
  BY <1>1, ParserInvHolds, PTL

\* A file that parse() accepts was read to its end, its braces match, and it has a
\* program: parseAndOptimize and the drivers use getProgram() then.
THEOREM AcceptedFilesAreWhole == Spec => []AcceptedIsWhole
<1>1. ParserInv => AcceptedIsWhole
  <2> SUFFICES ASSUME ParserInv, pc = "done", ~crashed, ~failed
               PROVE  program /\ tok = Eof /\ depth = 0 /\ frames = <<>>
    BY DEF AcceptedIsWhole, Returned
  <2>1. frames = <<>> /\ Len(frames) = 0
    BY IsSeqLen DEF ParserInv, Scopes, InScope, Stacks
  <2> QED
    BY <2>1 DEF ParserInv, Text, Clean
<1> QED
  BY <1>1, ParserInvHolds, PTL

-----------------------------------------------------------------------------
(* Every file is parsed in finitely many steps.                            *)

\* What a step may cost: the open scopes, and where the parser is.
Costs == 3 * Len(frames) + StepsFrom[pc]

\* A token that is known to be junk is only skipped.
Fresh == IF tok = Junk THEN 0 ELSE 1

\* The text was used: the next construct pays for what was begun.
UsesText ==
  read <= MaxInput /\ read' = read + 1 /\ Costs' + Fresh' <= Costs + Fresh + 3

\* The parser moved on without reading.
MovesOn == read' = read /\ Costs' + Fresh' < Costs + Fresh

\* The bound of each place, one by one.
LEMMA StepsFromIs ==
  /\ StepsFrom["find_arg"] = 7 /\ StepsFrom["args"] = 6 /\ StepsFrom["top"] = 6
  /\ StepsFrom["find_body"] = 5 /\ StepsFrom["script_skip"] = 4 /\ StepsFrom["script"] = 3
  /\ StepsFrom["after"] = 2 /\ StepsFrom["script_return"] = 2 /\ StepsFrom["end"] = 1
  /\ StepsFrom["round"] = 1 /\ StepsFrom["lets"] = 1 /\ StepsFrom["vars"] = 1
  /\ StepsFrom["skip"] = 0 /\ StepsFrom["done"] = 0
  BY DEF StepsFrom

\* The costs are natural numbers wherever the parser is.
CostsOK ==
  /\ Len(frames) \in Nat /\ StepsFrom[pc] \in Nat
  /\ Costs = 3 * Len(frames) + StepsFrom[pc] /\ Costs \in Nat /\ Fresh \in {0, 1}
  /\ read \in 1..MaxInput + 1 /\ (tok # Eof => read <= MaxInput)
  /\ StepsLeft = 4 * (MaxInput + 1 - read) + Costs + Fresh + (IF crashed THEN 0 ELSE 1)

\* The bound is made of them.
LEMMA CostsTyped == ParserInv => CostsOK
<1> SUFFICES ASSUME ParserInv PROVE CostsOK
  OBVIOUS
<1>1. Len(frames) \in Nat
  BY IsSeqLen DEF ParserInv, Stacks
<1>2. pc \in {"top", "args", "find_arg", "find_body", "round", "lets", "vars", "skip",
              "after", "script", "script_skip", "script_return", "end", "done"}
  BY DEF ParserInv, TypeOK
<1>3. StepsFrom[pc] \in Nat
  BY <1>2, StepsFromIs
<1>4. read \in 1..MaxInput + 1 /\ (tok # Eof => read <= MaxInput)
  BY DEF ParserInv, TypeOK, Reading
<1> DEFINE K == IF crashed THEN 0 ELSE 1
<1>5. K \in Nat /\ Fresh \in {0, 1}
  BY DEF Fresh
<1>6. Costs = 3 * Len(frames) + StepsFrom[pc] /\ Costs \in Nat
  BY <1>1, <1>3 DEF Costs
<1> HIDE DEF K
<1>7. StepsLeft = 4 * (MaxInput + 1 - read) + 3 * Len(frames) + StepsFrom[pc] + Fresh + K
  BY DEF StepsLeft, Fresh, K
<1>8. StepsLeft = 4 * (MaxInput + 1 - read) + Costs + Fresh + K
  BY <1>1, <1>3, <1>4, <1>5, <1>6, <1>7, BoundAssumption
<1> QED
  BY <1>1, <1>3, <1>4, <1>5, <1>6, <1>8 DEF CostsOK, K

\* The arithmetic of the bound: r constructs are read, c and f are the costs, k is 1
\* unless the process ended.
LEMMA BoundDecreases ==
  ASSUME NEW N \in Nat, NEW r \in 1..N + 1, NEW c \in Nat, NEW f \in 0..1, NEW k \in 0..1,
         NEW rr \in 1..N + 1, NEW cc \in Nat, NEW ff \in 0..1, NEW kk \in 0..1,
         \/ rr = r + 1 /\ cc + ff <= c + f + 3 /\ kk <= k
         \/ rr = r /\ cc + ff < c + f /\ kk <= k
         \/ rr = r /\ cc = c /\ ff = f /\ kk < k
  PROVE  /\ 0 <= 4 * (N + 1 - rr) + cc + ff + kk
         /\ 4 * (N + 1 - rr) + cc + ff + kk < 4 * (N + 1 - r) + c + f + k
  OBVIOUS

\* Either of the two brings the parser nearer to the end.
LEMMA NearerToTheEnd ==
  ASSUME ParserInv, ParserInv', ~crashed,
         UsesText \/ MovesOn \/ (crashed' /\ UNCHANGED <<tok, read, frames, pc>>)
  PROVE  0 <= StepsLeft' /\ StepsLeft' < StepsLeft
<1> DEFINE K == IF crashed THEN 0 ELSE 1
<1>1. CostsOK /\ CostsOK'
  BY CostsTyped, PTL
<1>2. K = 1 /\ K' \in 0..1 /\ K' <= K
  OBVIOUS
<1>3. /\ Costs \in Nat /\ Fresh \in 0..1 /\ read \in 1..MaxInput + 1
      /\ StepsLeft = 4 * (MaxInput + 1 - read) + Costs + Fresh + K
  BY <1>1 DEF CostsOK
<1>4. /\ Costs' \in Nat /\ Fresh' \in 0..1 /\ read' \in 1..MaxInput + 1
      /\ StepsLeft' = 4 * (MaxInput + 1 - read') + Costs' + Fresh' + K'
  BY <1>1 DEF CostsOK
<1>5. \/ read' = read + 1 /\ Costs' + Fresh' <= Costs + Fresh + 3 /\ K' <= K
      \/ read' = read /\ Costs' + Fresh' < Costs + Fresh /\ K' <= K
      \/ read' = read /\ Costs' = Costs /\ Fresh' = Fresh /\ K' < K
  <2>1. CASE crashed' /\ UNCHANGED <<tok, read, frames, pc>>
    <3>1. Costs' = Costs /\ Fresh' = Fresh /\ read' = read /\ K' = 0
      BY <2>1 DEF Costs, Fresh
    <3> QED
      BY <1>2, <3>1
  <2> HIDE DEF K
  <2>2. CASE UsesText
    BY <1>2, <2>2 DEF UsesText
  <2>3. CASE MovesOn
    BY <1>2, <2>3 DEF MovesOn
  <2> QED
    BY <2>1, <2>2, <2>3
<1>6. MaxInput \in Nat
  BY BoundAssumption
<1> HIDE DEF K
<1>7. K \in 0..1
  BY <1>2
<1>8. PICK rr, cc, ff, kk : rr = read' /\ cc = Costs' /\ ff = Fresh' /\ kk = K'
  OBVIOUS
<1>9. /\ rr \in 1..MaxInput + 1 /\ cc \in Nat /\ ff \in 0..1 /\ kk \in 0..1
      /\ \/ rr = read + 1 /\ cc + ff <= Costs + Fresh + 3 /\ kk <= K
         \/ rr = read /\ cc + ff < Costs + Fresh /\ kk <= K
         \/ rr = read /\ cc = Costs /\ ff = Fresh /\ kk < K
      /\ StepsLeft' = 4 * (MaxInput + 1 - rr) + cc + ff + kk
  BY <1>2, <1>4, <1>5, <1>8
<1>10. /\ 0 <= 4 * (MaxInput + 1 - rr) + cc + ff + kk
       /\ 4 * (MaxInput + 1 - rr) + cc + ff + kk
            < 4 * (MaxInput + 1 - read) + Costs + Fresh + K
  BY <1>3, <1>6, <1>7, <1>9, BoundDecreases
<1> QED
  BY <1>3, <1>9, <1>10

\* How the parser reads on: the scopes stay, or one is opened or closed.
LEMMA ReadingOn ==
  ASSUME ParserInv, tok # Eof
  PROVE  /\ \A n \in 0..2 :
              Lex /\ frames' = frames /\ StepsFrom[pc'] \in Nat /\ StepsFrom[pc'] <= StepsFrom[pc] + n
                => UsesText
         /\ \A rest :
              LexRest(rest) /\ frames' = frames /\ tok # Junk /\ StepsFrom[pc'] \in Nat
                            /\ StepsFrom[pc'] <= StepsFrom[pc]
                => UsesText \/ MovesOn
<1> DEFINE F == StepsFrom[pc]
           G == StepsFrom[pc']
<1>1. /\ Len(frames) \in Nat /\ F \in Nat /\ read \in 1..MaxInput + 1 /\ read <= MaxInput
      /\ Costs = 3 * Len(frames) + F
  BY CostsTyped DEF CostsOK
<1>2. frames' = frames => Costs' = 3 * Len(frames) + G
  BY DEF Costs
<1> HIDE DEF F, G
<1>3. Fresh \in {0, 1} /\ Fresh' \in {0, 1} /\ (tok # Junk => Fresh = 1) /\ (tok' = Junk => Fresh' = 0)
  BY DEF Fresh
<1>4. ASSUME NEW n \in 0..2, Lex, frames' = frames, G \in Nat, G <= F + n PROVE UsesText
  <2>1. read' = read + 1
    BY <1>4 DEF Lex
  <2> QED
    BY <1>1, <1>2, <1>3, <1>4, <2>1 DEF UsesText
<1>5. ASSUME NEW rest, LexRest(rest), frames' = frames, tok # Junk, G \in Nat, G <= F
      PROVE  UsesText \/ MovesOn
  <2>1. CASE tok' = Junk /\ read' = read
    BY <1>1, <1>2, <1>3, <1>5, <2>1 DEF MovesOn
  <2>2. CASE Lex
    <3>1. F <= F + 0 /\ 0 \in 0..2
      BY <1>1
    <3> QED
      BY <1>4, <1>5, <2>2, <3>1, <1>1
  <2> QED
    BY <1>5, <2>1, <2>2 DEF LexRest
<1> QED
  BY <1>4, <1>5 DEF F, G

\* parseScope is entered after the construct was read; a scope costs what reading on
\* leaves for it.
LEMMA EntersScope ==
  ASSUME ParserInv, tok # Eof, tok # Junk, Lex, StepsFrom[pc] >= 1,
         NEW k, NEW id, NEW brace, NEW bad, EnterScope(k, id, brace, bad)
  PROVE  UsesText
<1>1. frames' = Append(frames, [k |-> k, id |-> id, level |-> Len(lets)]) /\ pc' = "round"
  BY DEF EnterScope
<1>2. Len(frames') = Len(frames) + 1
  BY <1>1, AppendIsSeq DEF ParserInv, Stacks
<1>3. /\ Len(frames) \in Nat /\ StepsFrom[pc] \in Nat /\ read <= MaxInput
      /\ Costs = 3 * Len(frames) + StepsFrom[pc]
  BY CostsTyped DEF CostsOK
<1>4. Costs' = 3 * Len(frames') + 1
  BY <1>1, StepsFromIs DEF Costs
<1>5. Fresh = 1 /\ Fresh' \in 0..1 /\ read' = read + 1
  BY DEF Fresh, Lex
<1> QED
  BY <1>2, <1>3, <1>4, <1>5 DEF UsesText

\* Without reading the parser only goes to a place that has fewer steps to take, or it
\* closes a scope.
LEMMA MovingOn ==
  ASSUME ParserInv, UNCHANGED <<tok, read>>, StepsFrom[pc'] \in Nat,
         \/ frames' = frames /\ StepsFrom[pc'] < StepsFrom[pc]
         \/ Len(frames') = Len(frames) - 1 /\ StepsFrom[pc'] < StepsFrom[pc] + 3
         \/ Len(frames') = Len(frames) + 1 /\ StepsFrom[pc'] + 3 < StepsFrom[pc]
  PROVE  MovesOn
<1> DEFINE F == StepsFrom[pc]
           G == StepsFrom[pc']
<1>1. /\ Len(frames) \in Nat /\ F \in Nat /\ Costs = 3 * Len(frames) + F
  BY CostsTyped DEF CostsOK
<1>2. Costs' = 3 * Len(frames') + G
  BY DEF Costs
<1>3. Fresh \in 0..1 /\ Fresh' = Fresh
  BY DEF Fresh
<1>4. PICK cc, ff, l : cc = Costs' /\ ff = Fresh' /\ l = Len(frames')
  OBVIOUS
<1> HIDE DEF F, G
<1>5. \/ l = Len(frames) /\ G < F
      \/ l = Len(frames) - 1 /\ G < F + 3
      \/ l = Len(frames) + 1 /\ G + 3 < F
  BY <1>4 DEF F, G
<1>6. G \in Nat /\ cc = 3 * l + G /\ ff \in 0..1 /\ ff = Fresh
  BY <1>2, <1>3, <1>4 DEF G
<1>7. cc + ff < Costs + Fresh
  BY <1>1, <1>5, <1>6
<1> QED
  BY <1>4, <1>7 DEF MovesOn

\* Every step of every handler is of one of these kinds.
LEMMA EveryStepCounts ==
  ASSUME ParserInv, ~crashed, Next, ~UNCHANGED vars
  PROVE  UsesText \/ MovesOn \/ (crashed' /\ UNCHANGED <<tok, read, frames, pc>>)
<1>1. tok.k # "eof" => tok # Eof
  BY DEF Eof
<1>2. tok.k # "junk" => tok # Junk
  BY DEF Junk
<1>3. ASSUME tok # Eof, Lex, frames' = frames, StepsFrom[pc'] \in Nat,
             StepsFrom[pc'] <= StepsFrom[pc] + 2
      PROVE  UsesText
  BY <1>3, ReadingOn
<1>4. ASSUME tok # Eof, tok # Junk, NEW rest, LexRest(rest), frames' = frames,
             StepsFrom[pc'] \in Nat, StepsFrom[pc'] <= StepsFrom[pc]
      PROVE  UsesText \/ MovesOn
  BY <1>4, ReadingOn
<1>5. StepsFrom[pc] \in Nat
  BY CostsTyped DEF CostsOK
<1>6. ASSUME tok # Eof, Fail PROVE UsesText
  <2>1. StepsFrom[pc'] = 0
    BY <1>6, StepsFromIs DEF Fail
  <2> QED
    BY <1>3, <1>5, <1>6, <2>1 DEF Fail
<1>7. ASSUME Abort PROVE crashed' /\ UNCHANGED <<tok, read, frames, pc>>
  BY <1>7 DEF Abort, lexer
<1>8. AtStmt => StepsFrom[pc] = 1
  BY StepsFromIs DEF AtStmt
<1>9. CASE ParseFunctionDecl \/ EndScript
  BY <1>1, <1>3, <1>5, <1>9, StepsFromIs DEF ParseFunctionDecl, EndScript
<1>10. CASE SkipConstruct
  <2>1. StepsFrom[pc'] = 0
    BY <1>10, StepsFromIs DEF SkipConstruct
  <2> QED
    BY <1>1, <1>3, <1>5, <1>10, <2>1 DEF SkipConstruct
<1>11. CASE NoFunction
  BY <1>11, StepsFromIs, MovingOn DEF NoFunction, lexer
<1>12. CASE NoArgument \/ NoBody
  BY <1>12, StepsFromIs, MovingOn DEF NoArgument, NoBody, lexer
<1>13. CASE ParseUnknown
  <2>1. StepsFrom[pc'] = 0 /\ StepsFrom[pc] = 1
    BY <1>8, <1>13, StepsFromIs DEF ParseUnknown
  <2> QED
    BY <1>13, <2>1, MovingOn DEF ParseUnknown, lexer
<1>14. CASE UnknownPragma \/ EndParse
  BY <1>14, StepsFromIs, MovingOn DEF UnknownPragma, EndParse, lexer
<1>15. CASE ParseArgument
  <2>1. StepsFrom[pc] = 6 /\ StepsFrom[pc'] \in {6, 7}
    BY <1>15, StepsFromIs DEF ParseArgument
  <2> QED
    BY <1>1, <1>3, <1>15, <2>1 DEF ParseArgument
<1>16. CASE FindArgument
  <2>1. StepsFrom[pc] = 7
    BY <1>16, StepsFromIs DEF FindArgument
  <2>2. CASE pc' = "args" /\ UNCHANGED lexer
    BY <1>16, <2>1, <2>2, StepsFromIs, MovingOn DEF FindArgument, lexer
  <2>3. CASE tok # Eof /\ Lex /\ UNCHANGED pc
    BY <1>3, <1>16, <2>1, <2>3 DEF FindArgument
  <2> QED
    BY <1>16, <2>2, <2>3 DEF FindArgument
<1>17. CASE ParseBody
  <2>1. StepsFrom[pc] >= 1
    BY <1>17, StepsFromIs DEF ParseBody
  <2> QED
    BY <1>1, <1>2, <1>17, <2>1, EntersScope DEF ParseBody
<1>18. CASE FindBody
  <2>1. StepsFrom[pc] = 5
    BY <1>18, StepsFromIs DEF FindBody
  <2>2. CASE Braces(tok) = 1
    <3>1. tok # Eof /\ tok # Junk
      BY <2>2 DEF Braces, Eof, Junk
    <3>2. Lex /\ EnterScope("program", 0, TRUE, TRUE)
      BY <1>18, <2>2 DEF FindBody
    <3>3. StepsFrom[pc] >= 1
      BY <2>1
    <3> QED
      BY <3>1, <3>2, <3>3, EntersScope
  <2>3. CASE Braces(tok) # 1 /\ tok = Eof
    <3>1. Len(frames) = 0 /\ frames = <<>>
      BY <1>18, IsSeqLen DEF FindBody, ParserInv, Scopes, Stacks, InScope
    <3>2. frames' = <<[k |-> "program", id |-> 0, level |-> Len(lets)]>> /\ pc' = "round"
          /\ UNCHANGED lexer
      BY <1>18, <2>3 DEF FindBody
    <3>3. Len(frames') = Len(frames) + 1
      BY <3>1, <3>2
    <3> QED
      BY <2>1, <3>2, <3>3, StepsFromIs, MovingOn DEF lexer
  <2>4. CASE Braces(tok) # 1 /\ tok # Eof
    BY <1>3, <1>18, <2>1, <2>4 DEF FindBody
  <2> QED
    BY <2>2, <2>3, <2>4
<1>19. CASE ParseLet
  <2> DEFINE e == parseExpr(tok.exp)
  <2>1. tok # Eof /\ tok # Junk /\ pc \in {"top", "round", "lets"}
    BY <1>1, <1>2, <1>19 DEF ParseLet
  <2>2. CASE /\ LexRest(e.rest) /\ pc' = IF pc = "top" THEN "top" ELSE "lets"
             /\ UNCHANGED frames
    <3>1. StepsFrom[pc'] = StepsFrom[pc]
      BY <2>1, <2>2, StepsFromIs
    <3> QED
      BY <1>4, <1>5, <2>1, <2>2, <3>1
  <2>3. CASE Fail
    BY <1>6, <2>1, <2>3
  <2>4. CASE pc = "top" /\ pc' = "done" /\ UNCHANGED <<lexer, frames>>
    BY <2>4, StepsFromIs, MovingOn DEF lexer
  <2>5. CASE Abort
    BY <1>7, <2>5
  <2> QED
    BY <1>19, <2>2, <2>3, <2>4, <2>5 DEF ParseLet
<1>20. CASE ParseVar
  <2>1. tok # Eof /\ tok # Junk /\ pc \in {"round", "lets", "vars"}
    BY <1>1, <1>2, <1>20 DEF ParseVar
  <2>2. \/ Fail \/ Abort
        \/ \E rest : LexRest(rest) /\ pc' \in {"skip", "vars"} /\ UNCHANGED frames
    BY <1>20 DEF ParseVar
  <2>3. CASE \E rest : LexRest(rest) /\ pc' \in {"skip", "vars"} /\ UNCHANGED frames
    <3>1. StepsFrom[pc'] \in Nat /\ StepsFrom[pc'] <= StepsFrom[pc]
      BY <2>1, <2>3, StepsFromIs
    <3> QED
      BY <1>4, <2>1, <2>3, <3>1
  <2> QED
    BY <1>6, <1>7, <2>1, <2>2, <2>3
<1>21. CASE ParseSimpleStmt
  <2>1. tok # Eof /\ tok # Junk /\ StepsFrom[pc] = 1
    BY <1>1, <1>2, <1>8, <1>21 DEF ParseSimpleStmt
  <2>2. \/ Fail \/ Abort
        \/ \E rest : LexRest(rest) /\ pc' = "round" /\ UNCHANGED frames
    BY <1>21 DEF ParseSimpleStmt
  <2>3. CASE \E rest : LexRest(rest) /\ pc' = "round" /\ UNCHANGED frames
    <3>1. StepsFrom[pc'] = 1
      BY <2>3, StepsFromIs
    <3> QED
      BY <1>4, <2>1, <2>3, <3>1
  <2> QED
    BY <1>6, <1>7, <2>1, <2>2, <2>3
<1>22. CASE ParseFor \/ ParseIf
  <2>1. tok # Eof /\ tok # Junk /\ StepsFrom[pc] = 1
    BY <1>1, <1>2, <1>8, <1>22 DEF ParseFor, ParseIf
  <2>2. \/ Fail \/ Abort
        \/ \E k, bad : Lex /\ EnterScope(k, Len(nodes) + 1, tok.brace, bad)
    <3>1. CASE ParseFor
      BY <3>1 DEF ParseFor
    <3>2. CASE ParseIf
      BY <3>2 DEF ParseIf
    <3> QED
      BY <1>22, <3>1, <3>2
  <2>3. CASE \E k, bad : Lex /\ EnterScope(k, Len(nodes) + 1, tok.brace, bad)
    BY <2>1, <2>3, EntersScope
  <2> QED
    BY <1>6, <1>7, <2>1, <2>2, <2>3
<1>23. CASE EndScope
  <2>1. pc \in {"round", "skip"} /\ pc' \in {"after", "round"}
    BY <1>23 DEF EndScope
  <2>2. StepsFrom[pc'] \in {1, 2} /\ StepsFrom[pc] \in {0, 1}
    BY <2>1, StepsFromIs
  <2>3. Len(frames) \in Nat /\ frames # <<>>
    BY <2>1, CostsTyped DEF CostsOK, ParserInv, Scopes, InScope
  <2>4. Len(frames) > 0 /\ Len(frames) - 1 \in 0..Len(frames)
    BY <2>3, IsSeqLen DEF ParserInv, Stacks
  <2>5. Len(frames') = Len(frames) - 1
    BY <1>23, <2>4, PrefixIsSeq DEF EndScope, ParserInv, Stacks
  <2>6. CASE UNCHANGED lexer
    BY <2>2, <2>5, <2>6, MovingOn DEF lexer
  <2>7. CASE tok # Eof /\ Lex
    <3>1. /\ read <= MaxInput /\ read' = read + 1 /\ StepsFrom[pc] \in Nat
          /\ Costs = 3 * Len(frames) + StepsFrom[pc]
      BY <2>7, CostsTyped DEF CostsOK, Lex
    <3>2. Costs' = 3 * Len(frames') + StepsFrom[pc']
      BY DEF Costs
    <3>3. Fresh \in 0..1 /\ Fresh' \in 0..1
      BY DEF Fresh
    <3>4. PICK cc, ff, l, g : cc = Costs' /\ ff = Fresh' /\ l = Len(frames') /\ g = StepsFrom[pc']
      OBVIOUS
    <3>5. cc = 3 * l + g /\ ff \in 0..1 /\ g \in {1, 2} /\ l = Len(frames) - 1
      BY <2>2, <2>5, <3>2, <3>3, <3>4
    <3>6. PICK c, f, n : c = Costs /\ f = Fresh /\ n = Len(frames)
      OBVIOUS
    <3>7. n \in Nat /\ c >= 3 * n /\ c \in Nat /\ f \in 0..1
      BY <2>3, <3>1, <3>3, <3>6
    <3>8. cc + ff <= c + f + 3
      BY <3>5, <3>6, <3>7
    <3> QED
      BY <3>1, <3>4, <3>6, <3>8 DEF UsesText
  <2> QED
    BY <1>23, <2>6, <2>7 DEF EndScope
<1>24. CASE ParseScript
  <2>1. StepsFrom[pc] = 2 /\ tok # Eof /\ tok # Junk
    BY <1>1, <1>2, <1>24, StepsFromIs DEF ParseScript
  <2>2. CASE pc' = "script" /\ Lex
    <3>1. StepsFrom[pc'] = 3
      BY <2>2, StepsFromIs
    <3> QED
      BY <1>3, <1>24, <2>1, <2>2, <3>1 DEF ParseScript
  <2>3. CASE pc' = "end" /\ UNCHANGED read
    <3>1. StepsFrom[pc'] = 1 /\ UNCHANGED frames
      BY <1>24, <2>3, StepsFromIs DEF ParseScript
    <3>2. Costs = 3 * Len(frames) + 2 /\ Costs' = 3 * Len(frames) + 1 /\ Len(frames) \in Nat
      BY <2>1, <3>1, CostsTyped DEF CostsOK, Costs
    <3>3. Fresh = 1 /\ Fresh' \in 0..1
      BY <2>1 DEF Fresh
    <3> QED
      BY <2>3, <3>2, <3>3 DEF MovesOn
  <2> QED
    BY <1>24, <2>2, <2>3 DEF ParseScript
<1>25. CASE ParsePragma
  <2>1. StepsFrom[pc] = 3 /\ StepsFrom[pc'] \in {3, 4}
    BY <1>25, StepsFromIs DEF ParsePragma
  <2> QED
    BY <1>1, <1>3, <1>25, <2>1 DEF ParsePragma
<1>26. CASE SkipPragma
  <2>1. CASE tok.k \in {"close", "eof"}
    BY <1>26, <2>1, StepsFromIs, MovingOn DEF SkipPragma, lexer
  <2>2. CASE tok.k \notin {"close", "eof"}
    BY <1>1, <1>3, <1>5, <1>26, <2>2 DEF SkipPragma
  <2> QED
    BY <2>1, <2>2
<1> QED
  BY <1>9, <1>10, <1>11, <1>12, <1>13, <1>14, <1>15, <1>16, <1>17, <1>18, <1>19, <1>20,
     <1>21, <1>22, <1>23, <1>24, <1>25, <1>26 DEF Next, Done

\* parse, parseScope, skipUntil and parseScriptDecl come to an end on every file and
\* after every error in it: no step is taken more often than the text, the open scopes
\* and the places of the parser allow.
THEOREM StepsAreBounded == Spec => StepsRunOut
<1> DEFINE Nearer == 0 <= StepsLeft' /\ StepsLeft' < StepsLeft
<1>1. ASSUME ParserInv, ParserInv', [Next]_vars PROVE [Nearer]_vars
  <2> SUFFICES ASSUME Next, ~UNCHANGED vars PROVE Nearer
    BY <1>1
  <2>1. ~crashed
    BY DEF Next, Done
  <2> QED
    BY <1>1, <2>1, EveryStepCounts, NearerToTheEnd
<1> QED
  BY <1>1, ParserInvHolds, PTL DEF Spec, StepsRunOut

=============================================================================
