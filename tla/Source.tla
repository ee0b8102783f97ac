-------------------------------- MODULE Source --------------------------------
(***************************************************************************)
(* cbom_compass/scanners/source.py over a tree of files, one after another.*)
(*                                                                         *)
(* A Python file is a sequence of nodes, one to a line, each at module     *)
(* scope or inside a function (`deep'): an import [name, origin], an       *)
(* assignment [name, value] or a call [fn, args, size], where `size' is    *)
(* the keyword argument of that name.  A dotted name is a sequence.  An    *)
(* expression is a literal, a name, a mode, the default of an environment  *)
(* variable, or something else.                                            *)
(*                                                                         *)
(* A file of another language is a sequence of characters.  A member of    *)
(* Matches stands for a character at which a rule of the language matches, *)
(* and says which character that is.  Of an asset's attributes the size    *)
(* and the mode are told apart.                                            *)
(***************************************************************************)
EXTENDS Integers, FileWalk

CONSTANTS
  CallRules,      \* PY_CALL_RULES: [dotted name -> algorithm]
  SizeArg,        \* KEY_SIZE_ARG_INDEX, from one
  ModeRules,      \* PY_MODE_RULES: [dotted name -> mode]
  Endings,        \* <<segment, its end>>, for names without a dot between
  Families,       \* PQC_CLASS, PQC_FAMILY: [name -> post-quantum algorithm]
  Matches,        \* PATTERN_RULES: [match -> its first character, its rule,
                  \* and the algorithm, size, mode and provider it gives]
  Rules,          \* and how many rules there are
  NotAModule,
  Unnamed         \* the algorithm of a rule that reads it from the arguments

Quotes == {"'", "\""}

(* A match is one of a rule.  It may begin with a quote or a backslash (as *)
(* two rules for Java do), but with nothing that opens or closes a comment.*)
ASSUME SourceAssumption ==
  /\ Rules \in Nat
  /\ \A m \in DOMAIN Matches :
       Matches[m].rule \in 1..Rules /\ Matches[m].begins \notin {"#", "/", "*", "\n"}
  /\ \A k \in DOMAIN SizeArg : SizeArg[k] \in Nat \ {0}

(* What a Python file holds; each expression is one.                       *)
IsProgram(nodes) ==
  /\ nodes \in Seq(Range(nodes))
  /\ \A n \in Range(nodes) :
       /\ n.is = "import" => n.origin \in Seq(Range(n.origin))
       /\ n.is = "call" => n.args \in Seq(Range(n.args))
       /\ n.is = "assign" => n.value # None /\ (n.value.is = "env" => n.value.default # None)

LastOf(S) == CHOOSE i \in S : \A j \in S : j <= i
FirstOf(S) == CHOOSE i \in S : \A j \in S : i <= j

-----------------------------------------------------------------------------
(* ast.walk(): the nodes of the module, then those inside its functions.   *)
Walked(nodes) ==
  Chosen(nodes, {i \in DOMAIN nodes : ~nodes[i].deep}) \o Chosen(nodes, {i \in DOMAIN nodes : nodes[i].deep})

Literal(e) == e.is \in {"str", "int"}

(* _const_value(): a literal, or the default of an environment variable.   *)
ConstValue(e) ==
  CASE Literal(e) -> e
    [] e.is = "env" /\ Literal(e.default) -> e.default
    [] OTHER -> None

(* _import_aliases(): of all imports of a name the last one walked.        *)
Aliases(nodes) ==
  LET walk == Walked(nodes)
      Binding(x) == {i \in DOMAIN walk : walk[i].is = "import" /\ walk[i].name = x}
  IN [x \in {walk[i].name : i \in {j \in DOMAIN walk : walk[j].is = "import"}} |->
        walk[LastOf(Binding(x))].origin]

(* module_constants(): of all foldable assignments to it the last; one     *)
(* that does not fold leaves the constant of an earlier one standing.      *)
Constants(nodes) ==
  LET folds == {i \in DOMAIN nodes : /\ nodes[i].is = "assign" /\ ~nodes[i].deep
                                     /\ ConstValue(nodes[i].value) # None}
  IN [x \in {nodes[i].name : i \in folds} |->
        ConstValue(nodes[LastOf({i \in folds : nodes[i].name = x})].value)]

(* _expand(): the first segment of a name, by the imports.                 *)
Expand(name, aliases) ==
  IF name # <<>> /\ name[1] \in DOMAIN aliases THEN aliases[name[1]] \o Tail(name) ELSE name

(* The name that is called; getattr(module, "name") is module.name.        *)
Callee(n, aliases) ==
  LET name == Expand(n.fn, aliases) IN
  IF /\ name # <<>> /\ Last(name) = "getattr"
     /\ Len(n.args) = 2 /\ n.args[1].is = "name" /\ n.args[2].is = "str"
  THEN Append(Expand(<<n.args[1].v>>, aliases), n.args[2].v)
  ELSE name

(* The rules whose key the name is, or ends with after a dot; no two.      *)
Rule(name, rules) == {k \in DOMAIN rules : IsSuffix(k, name)}

(* resolve_name(): a literal, or a name that is a module constant.         *)
Resolved(e, constants) ==
  CASE Literal(e) -> e
    [] e.is = "name" /\ e.v \in DOMAIN constants -> constants[e.v]
    [] OTHER -> None

IntOf(e, constants) ==
  LET r == Resolved(e, constants) IN IF r # None /\ r.is = "int" THEN r.v ELSE None

(* Any literal of at least 56, the smallest key there is.                  *)
PlausibleSizes(n) == {i \in DOMAIN n.args : n.args[i].is = "int" /\ n.args[i].v >= 56}

(* _python_key_size(): the keyword, the position of this callee, or any.   *)
KeySize(n, rule, constants) ==
  CASE n.size # None -> IntOf(n.size, constants)
    [] n.size = None /\ rule \in DOMAIN SizeArg ->
         IF Len(n.args) >= SizeArg[rule] THEN IntOf(n.args[SizeArg[rule]], constants) ELSE None
    [] OTHER ->
         IF PlausibleSizes(n) # {} THEN n.args[FirstOf(PlausibleSizes(n))].v ELSE None

(* The first literal string; or else the first argument that is a module   *)
(* constant, and only if that is a string.                                 *)
NamedAlgorithm(n, constants) ==
  LET strings == {i \in DOMAIN n.args : n.args[i].is = "str"}
      names == {i \in DOMAIN n.args : n.args[i].is = "name" /\ Resolved(n.args[i], constants) # None}
      folded == Resolved(n.args[FirstOf(names)], constants)
  IN CASE strings # {} -> n.args[FirstOf(strings)].v
       [] strings = {} /\ names # {} -> IF folded.is = "str" THEN folded.v ELSE None
       [] OTHER -> None

ModeArgument(n) ==
  LET modes == {i \in DOMAIN n.args : n.args[i].is = "mode"} IN
  IF modes = {} THEN None ELSE n.args[FirstOf(modes)].v

(* provider_for(): the module, if the call is qualified by one.            *)
ProviderOf(name) == IF Len(name) < 2 \/ name[1] \in NotAModule THEN None ELSE name[1]

(* The first literal string among the arguments, if it is a family.        *)
FamilyArgument(args) ==
  {i \in DOMAIN args : /\ args[i].is = "str" /\ args[i].v \in DOMAIN Families
                       /\ \A j \in 1..(i - 1) : args[j].is # "str"}

(* Not the code: the first literal string that is a family.                *)
AnyFamilyArgument(args) ==
  LET strings == {i \in DOMAIN args : args[i].is = "str" /\ args[i].v \in DOMAIN Families}
  IN IF strings = {} THEN {} ELSE {FirstOf(strings)}

(* What a call is pending as: no algorithm for a call of something else.   *)
Pending(n, aliases, constants) ==
  LET name == Callee(n, aliases)
      rules == Rule(name, CallRules)
      rule == CHOOSE k \in rules : TRUE
      families == {i \in DOMAIN name : name[i] \in DOMAIN Families}
      said == FamilyArgument(n.args)
      Found(algorithm, size, mode) ==
        [name |-> algorithm, size |-> size, mode |-> mode, provider |-> ProviderOf(name)]
  IN CASE rules # {} ->
            Found(IF CallRules[rule] = Unnamed THEN NamedAlgorithm(n, constants) ELSE CallRules[rule],
                  KeySize(n, rule, constants), ModeArgument(n))
       [] rules = {} /\ families # {} ->
            Found(Families[IF said # {} THEN n.args[FirstOf(said)].v
                           ELSE name[FirstOf(families)]], None, None)
       [] OTHER -> Found(None, None, None)

(* The mode of a call, unless a mode is called on its own line or, in this *)
(* order, one before, one after, two before or two after it.               *)
ModeNear(line, modes, mode) ==
  LET at(i) == <<line, line - 1, line + 1, line - 2, line + 2>>[i]
      near == {i \in 1..5 : at(i) \in DOMAIN modes}
  IN IF near = {} THEN mode ELSE modes[at(FirstOf(near))]

Observed(file, line, name, size, mode, provider, method) ==
  LET place == <<"file", file, line>> IN
  [name |-> name, kind |-> "algorithm", size |-> size, params |-> mode, lib |-> None,
   place |-> place, cert |-> None, provider |-> provider, ev |-> {<<place, method>>}]

(* str.endswith(): the name ends with the key, but not always at a dot.    *)
EndsWith(name, key) ==
  LET at == Len(name) - Len(key) + 1 IN
  /\ at >= 1
  /\ name[at] = key[1] \/ <<name[at], key[1]>> \in Endings
  /\ \A i \in 2..Len(key) : name[at + i - 1] = key[i]

(* The mode that is called on a line, the last one walked.                 *)
Modes(calls, aliases) ==
  LET mode(i) == {k \in DOMAIN ModeRules : EndsWith(Callee(calls[i], aliases), k)}
      on(l) == {i \in DOMAIN calls : calls[i].line = l /\ mode(i) # {}}
  IN [l \in {calls[i].line : i \in {j \in DOMAIN calls : mode(j) # {}}} |->
        ModeRules[CHOOSE k \in mode(LastOf(on(l))) : TRUE]]

(* _scan_python()                                                          *)
PythonFindings(file, nodes) ==
  LET aliases == Aliases(nodes)
      constants == Constants(nodes)
      walk == Walked(nodes)
      calls == Chosen(walk, {i \in DOMAIN walk : walk[i].is = "call"})
      modes == Modes(calls, aliases)
      pending == Chosen(calls, {i \in DOMAIN calls : Pending(calls[i], aliases, constants).name # None})
  IN [i \in DOMAIN pending |->
        LET line == pending[i].line
            p == Pending(pending[i], aliases, constants)
        IN Observed(file, line, p.name, p.size, ModeNear(line, modes, p.mode), p.provider, "python-ast")]

-----------------------------------------------------------------------------
(* text.find(): the first of some positions, or the end of the text.       *)
FirstOr(S, end) == IF S = {} THEN end ELSE FirstOf(S)

(* Not the code: the star that opens a comment may close it.               *)
BlockEndShort(text, i) ==
  FirstOr({j \in (i + 3)..(Len(text) + 1) : text[j - 2] = "*" /\ text[j - 1] = "/"}, Len(text) + 1)

BlockEnd(text, i) ==
  FirstOr({j \in (i + 4)..(Len(text) + 1) : text[j - 2] = "*" /\ text[j - 1] = "/"}, Len(text) + 1)

LineEnd(text, i) == FirstOr({j \in i..Len(text) : text[j] = "\n"}, Len(text) + 1)

(* Behind a string that opens at i: it ends at its quote or with the line, *)
(* and a backslash takes what follows it along.                            *)
StringEnd(text, i) ==
  LET behind[j \in (i + 1)..(Len(text) + 2)] ==
        IF j > Len(text) THEN j
        ELSE IF text[j] = "\\" THEN behind[j + 2]
        ELSE IF text[j] \in {text[i], "\n"} THEN j + 1
        ELSE behind[j + 1]
  IN behind[i + 1]

(* comment_spans(): the positions inside comments.                         *)
Commented(text) ==
  LET n == Len(text)
      pair(i) == <<text[i], IF i < n THEN text[i + 1] ELSE "">>
      from[i \in 1..(n + 2)] ==
        IF i > n THEN {}
        ELSE IF text[i] \in Quotes THEN from[StringEnd(text, i)]
        ELSE IF text[i] = "#" \/ pair(i) = <<"/", "/">>
        THEN (i..(LineEnd(text, i) - 1)) \cup from[LineEnd(text, i)]
        ELSE IF pair(i) = <<"/", "*">>
        THEN (i..(BlockEnd(text, i) - 1)) \cup from[BlockEnd(text, i)]
        ELSE from[i + 1]
  IN from[1]

(* The characters of a text, those at which a rule matches as well.        *)
Written(text) ==
  [i \in DOMAIN text |-> IF text[i] \in DOMAIN Matches THEN Matches[text[i]].begins ELSE text[i]]

LineAt(text, i) == 1 + Cardinality({j \in 1..(i - 1) : Written(text)[j] = "\n"})

(* The matches of the language's rules, rule by rule.                      *)
Matched(text) ==
  LET at == [i \in DOMAIN text |-> i]
      live == {i \in DOMAIN text : text[i] \in DOMAIN Matches /\ i \notin Commented(Written(text))}
  IN FlattenSeq([r \in 1..Rules |-> Chosen(at, {i \in live : Matches[text[i]].rule = r})])

AttributeFree(m) == m.size = None /\ m.mode = None

(* subsume_bare(): without attributes, and within a line of a match of the *)
(* same algorithm that has some.                                           *)
Subsumed(text, i, matched) ==
  /\ AttributeFree(Matches[text[i]])
  /\ \E j \in Range(matched) :
       /\ Matches[text[j]].name = Matches[text[i]].name /\ ~AttributeFree(Matches[text[j]])
       /\ LineAt(text, j) - LineAt(text, i) \in -1..1

(* _scan_patterns()                                                        *)
PatternFindings(file, text) ==
  LET matched == Matched(text)
      rest == Chosen(matched, {k \in DOMAIN matched : ~Subsumed(text, matched[k], matched)})
      match(k) == Matches[text[rest[k]]]
  IN [k \in DOMAIN rest |->
        Observed(file, LineAt(text, rest[k]), match(k).name, match(k).size, match(k).mode,
                 match(k).provider, "pattern")]

-----------------------------------------------------------------------------
ScanPython ==
  /\ NextFile /\ ThisFile.lang = "python" /\ ThisFile.parses
  /\ TakeFile(Piece(PythonFindings(ThisFile.id, ThisFile.nodes), {}))

BadSyntax ==
  /\ NextFile /\ ThisFile.lang = "python" /\ ~ThisFile.parses
  /\ NameFile /\ UNCHANGED <<sstep, files, sourced, related>>

ScanPatterns ==
  /\ NextFile /\ ThisFile.lang = "pattern"
  /\ TakeFile(Piece(PatternFindings(ThisFile.id, ThisFile.text), {}))

SourceStep == ScanPython \/ BadSyntax \/ ScanPatterns

-----------------------------------------------------------------------------
(* A Python file with every name written out: what an import, a constant   *)
(* of the module or a getattr() stands for, put where it is used.          *)
BoundOnce(nodes) ==
  \A i, j \in DOMAIN nodes :
    i # j /\ nodes[i].is # "call" /\ nodes[j].is # "call" => nodes[i].name # nodes[j].name

FullName(fn, nodes) ==
  LET origins == {b.origin : b \in {x \in Range(nodes) : x.is = "import" /\ fn # <<>> /\ x.name = fn[1]}} IN
  IF origins = {} THEN fn ELSE (CHOOSE o \in origins : TRUE) \o Tail(fn)

Substituted(e, nodes) ==
  LET values == {b.value : b \in {x \in Range(nodes) : x.is = "assign" /\ ~x.deep /\ x.name = e.v}}
      value == CHOOSE v \in values : TRUE
  IN IF e.is # "name" \/ values = {} THEN e
     ELSE IF value.is = "env" THEN value.default ELSE value

IsGetattr(name) == name # <<>> /\ Last(name) = "getattr"
Indirect(n, nodes) ==
  /\ IsGetattr(FullName(n.fn, nodes))
  /\ Len(n.args) = 2 /\ n.args[1].is = "name" /\ n.args[2].is = "str"

WrittenOut(n, nodes) ==
  [fn |-> IF Indirect(n, nodes) THEN Append(FullName(<<n.args[1].v>>, nodes), n.args[2].v)
          ELSE FullName(n.fn, nodes),
   args |-> IF Indirect(n, nodes) THEN <<>>
            ELSE [i \in DOMAIN n.args |-> Substituted(n.args[i], nodes)],
   size |-> IF n.size = None THEN None ELSE Substituted(n.size, nodes)]

(* Where the scanner reads a call as it is written out.  It does not when  *)
(* a constant stands where only literals are looked at (the name of an     *)
(* attribute, a size at no known position, the first string where one of   *)
(* the strings is a family), or vies with another argument for the name of *)
(* the algorithm; and of a getattr() it takes the arguments for those of   *)
(* the function.                                                           *)
ReadAsWritten(n, nodes) ==
  LET w == WrittenOut(n, nodes)
      rules == Rule(w.fn, CallRules)
      rule == CHOOSE k \in rules : TRUE
      folded == {i \in DOMAIN w.args : n.args[i].is = "name" /\ Literal(w.args[i])}
  IN IF Indirect(n, nodes)
     THEN IF rules = {} THEN \A i \in 1..(Len(w.fn) - 1) : w.fn[i] \notin DOMAIN Families
          ELSE CallRules[rule] # Unnamed /\ rule \notin DOMAIN SizeArg
     ELSE \A i \in folded :
            /\ ~IsGetattr(w.fn)
            /\ IF rules = {}
               THEN \/ w.args[i].is # "str"
                    \/ \E j \in 1..(i - 1) : n.args[j].is = "str"
                    \/ \A j \in DOMAIN w.args : w.args[j].is = "str" => w.args[j].v \notin DOMAIN Families
               ELSE /\ CallRules[rule] = Unnamed => \A j \in DOMAIN w.args : Literal(w.args[j]) => j = i
                    /\ n.size = None /\ rule \notin DOMAIN SizeArg => i \notin PlausibleSizes(w)

FoundIn(f) == {a \in Range(sourced) : a.place[2] = f.id}

PythonShown(f) ==
  LET calls == {n \in Range(f.nodes) : n.is = "call"}
      alike == {n \in calls : ReadAsWritten(n, f.nodes)}
      plain(n) == Pending(WrittenOut(n, f.nodes), <<>>, <<>>)
  IN /\ \A n \in alike : plain(n).name # None =>
          \E a \in FoundIn(f) : a.place[3] = n.line /\ a.name = plain(n).name /\ a.size = plain(n).size
     /\ \A a \in FoundIn(f) : \E n \in calls :
          a.place[3] = n.line /\ (n \in alike => a.name = plain(n).name /\ a.size = plain(n).size)

(* Where a reader of one character at a time is, and at which quote the    *)
(* string it is in ends.                                                   *)
Lexed(s, c) ==
  CASE s[1] \in {"code", "slash"} ->
         IF <<s[1], c>> = <<"slash", "*">> THEN <<"block", "">>
         ELSE IF c = "#" \/ <<s[1], c>> = <<"slash", "/">> THEN <<"line", "">>
         ELSE IF c \in Quotes THEN <<"string", c>>
         ELSE <<IF c = "/" THEN "slash" ELSE "code", "">>
    [] s[1] = "string" ->
         IF c = "\\" THEN <<"escape", s[2]>>
         ELSE IF c \in {s[2], "\n"} THEN <<"code", "">> ELSE s
    [] s[1] = "escape" -> <<"string", s[2]>>
    [] s[1] = "line" -> IF c = "\n" THEN <<"code", "">> ELSE s
    [] s[1] \in {"block", "star"} ->
         IF c = "*" THEN <<"star", "">>
         ELSE IF s[1] = "star" /\ c = "/" THEN <<"code", "">> ELSE <<"block", "">>

LexerState(text) ==
  LET state[i \in 0..Len(text)] == IF i = 0 THEN <<"code", "">> ELSE Lexed(state[i - 1], text[i])
  IN state

InComment(s) == s[1] \in {"line", "block", "star"}

PatternsShown(f) ==
  LET state == LexerState(Written(f.text))
      live == {i \in DOMAIN f.text : f.text[i] \in DOMAIN Matches /\ ~InComment(state[i - 1])}
      m(i) == Matches[f.text[i]]
      Shows(a, i) == /\ a.place[3] = LineAt(f.text, i) /\ a.name = m(i).name
                     /\ a.size = m(i).size /\ a.params = m(i).mode
  IN /\ \A i \in live :
          \/ \E a \in FoundIn(f) : Shows(a, i)
          \/ /\ AttributeFree(m(i))
             /\ \E a \in FoundIn(f) : /\ a.name = m(i).name /\ (a.size # None \/ a.params # None)
                                      /\ a.place[3] - LineAt(f.text, i) \in -1..1
     /\ \A a \in FoundIn(f) : \E i \in live : Shows(a, i)

(* source.py:762-1022: of every file that is not skipped, either an error   *)
(* names it or its findings are there: for Python what the file would show *)
(* with every name written out, as long as none is bound twice; for the    *)
(* other languages every match outside comments (:467-482, "Dead code is   *)
(* not cryptography in use"), unless it says nothing that a match beside   *)
(* it does not say.                                                        *)
SourceAccounted ==
  sstep = "done" /\ files.exists =>
    \A f \in Range(files.all) :
      /\ f.lang \in {"python", "pattern"} /\ ~Followed(f) => FoundIn(f) = {}
      /\ f.lang = "python" /\ Followed(f) /\ BoundOnce(f.nodes) => PythonShown(f)
      /\ f.lang = "pattern" /\ Followed(f) => PatternsShown(f)
=============================================================================
