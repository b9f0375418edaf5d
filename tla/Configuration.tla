---------------------------- MODULE Configuration ----------------------------
(***************************************************************************)
(* Loading the agent's configuration (internal/config): the line-by-line   *)
(* reader of the YAML subset (vipercompat), the layers it is merged with   *)
(* (built-in defaults, process environment, .env file, alias names) and    *)
(* the conversion of the resulting value to the field's Go type.           *)
(*                                                                         *)
(* One section "s" with one field "k" stands for the 138 fields: every     *)
(* field is read by the same code, and fields do not interact.  A text is  *)
(* one of a few tokens that the conversions tell apart.                    *)
(***************************************************************************)
EXTENDS Integers, Sequences, Functions, SequencesExt, TLC

CONSTANTS
  MaxLines    \* bound: lines of a configuration file

ASSUME ConfigurationAssumption == MaxLines \in Nat \ {0, 1}

(***************************************************************************)
(* Texts.  Plain reads as neither number nor boolean; Seven is "007",      *)
(* which Atoi accepts; Escaped holds a backslash, which %q doubles.  A     *)
(* value is a typed one, as the maps of vipercompat hold it.               *)
(***************************************************************************)
Plain == "abc"
One == "1"
Seven == "007"
True == "true"
Escaped == "a\\b"
Blank == " "
Tokens == {Plain, One, Seven, True, Escaped, ""}

NoText == "no text after the colon"
Kinds == {"string", "int", "bool"}

Typed(type, text) == [type |-> type, text |-> text, ref |-> 0]
MapAt(r) == [type |-> "map", text |-> "map[]", ref |-> r]
Failed == Typed("error", "")
Absent == Typed("absent", "")

(***************************************************************************)
(* The file being read: the lines so far, the maps made for it (1 is the   *)
(* root) and, for each indentation, the map its children go to.            *)
(***************************************************************************)
VARIABLES
  text,      \* lines read, each [indent, key, value]
  maps,      \* heap of maps: Seq([key -> typed value])
  sections,  \* [indentation -> index into maps], -1 for the root
  reading,   \* "lines", "error" (indentation), "refused", "read" or "loaded"
  written,   \* the value bootstrap rendered into this file, or NoText
  found,     \* what the file says of the field: typed value, Absent if nothing
  input,     \* what the load starts from: [kind, env, dotenv]
  value      \* what Load returned for the field, Absent before

parserVars == <<text, maps, sections>>
configVars == <<text, maps, sections, reading, written, found, input, value>>

Indents == {0, 2, 4}
Lines == [indent : Indents, key : {"s", "k"}, value : {NoText, One, Plain}]

(***************************************************************************)
(* renderAgentYAML writes strings with %q under their section's header;    *)
(* %q doubles a backslash, and the reader does not undo it.                *)
(***************************************************************************)
Quoted(t) == IF t = Escaped THEN "a\\\\b" ELSE t


renderAgentYAML(t) == << [indent |-> 0, key |-> "s", value |-> NoText],
                         [indent |-> 2, key |-> "k", value |-> Quoted(t)] >>

\* parseScalar: quotes trimmed, then a decimal number, then a boolean.
parseScalar(t) ==
  CASE t = One   -> Typed("int", "1")
    [] t = Seven -> Typed("int", "7")
    [] t = True  -> Typed("bool", "true")
    [] OTHER     -> Typed("string", t)

Put(f, key, v) == (key :> v) @@ f

ParentIndent(indent) == IF indent = 0 THEN -1 ELSE indent - 2

\* Mutant: the section opened last is always the one at indentation zero.
OpenSectionFlat(line) ==
  /\ maps' = Append([maps EXCEPT ![sections[ParentIndent(line.indent)]] =
                       Put(@, line.key, MapAt(Len(maps) + 1))], <<>>)
  /\ sections' = Put(sections, 0, Len(maps) + 1)

\* A line with nothing after the colon opens a section in its parent.
OpenSection(line) ==
  /\ maps' = Append([maps EXCEPT ![sections[ParentIndent(line.indent)]] =
                       Put(@, line.key, MapAt(Len(maps) + 1))], <<>>)
  /\ sections' = Put(sections, line.indent, Len(maps) + 1)

\* A scalar ends the sections deeper than its own line.
SetScalar(line) ==
  /\ maps' = [maps EXCEPT ![sections[ParentIndent(line.indent)]] =
                Put(@, line.key, parseScalar(line.value))]
  /\ sections' = Restrict(sections, {i \in DOMAIN sections : i <= line.indent})

\* One iteration of parseSimpleYAML's loop.
ReadLine(line) ==
  /\ reading = "lines"
  /\ text' = Append(text, line)
  /\ \/ /\ ParentIndent(line.indent) \notin DOMAIN sections
        /\ reading' = "error"
        /\ UNCHANGED <<maps, sections>>
     \/ /\ ParentIndent(line.indent) \in DOMAIN sections
        /\ reading' = "lines"
        /\ IF line.value = NoText THEN OpenSection(line) ELSE SetScalar(line)
  /\ UNCHANGED <<written, found, input, value>>

\* A list item, a line without a colon, odd indentation or an empty key.
BadLine ==
  /\ reading = "lines"
  /\ written = NoText
  /\ reading' = "refused"
  /\ UNCHANGED <<parserVars, written, found, input, value>>

(***************************************************************************)
(* The layers.  The names are C, the field's variable, and A, an alias.    *)
(***************************************************************************)
Malformed == <<"", "">>    \* a .env line without KEY=
Trimmed(t) == IF t = Blank THEN "" ELSE t
EnvText(e, name) == IF name \in DOMAIN e THEN e[name] ELSE ""

\* Mutant: a variable of the .env file replaces the process's.
loadEnvironmentFileOver(e, lines) ==
  FoldLeft(LAMBDA acc, l : Put(acc, l[1], l[2]), e, lines)

\* loadEnvironmentFile: a name already set, even to nothing, is kept.
loadEnvironmentFile(e, lines) ==
  FoldLeft(LAMBDA acc, l : IF l[1] \in DOMAIN acc THEN acc ELSE Put(acc, l[1], l[2]), e, lines)

normalizeEnvironmentAliases(e) ==
  IF Trimmed(EnvText(e, "C")) = "" /\ Trimmed(EnvText(e, "A")) # ""
  THEN Put(e, "C", e["A"]) ELSE e

\* The default of the field, by Go type.
Default(kind) == CASE kind = "string" -> Typed("string", "dflt")
                   [] kind = "int"    -> Typed("int", "5")
                   [] kind = "bool"   -> Typed("bool", "false")

\* What the root says of the field; a scalar "s" replaces the whole section,
\* which fillStruct then refuses.
FieldIn(root) ==
  IF "s" \notin DOMAIN root THEN Absent
  ELSE IF root["s"].type # "map" THEN Failed
  ELSE LET section == maps[root["s"].ref]
       IN  IF "k" \in DOMAIN section THEN section["k"] ELSE Absent

\* ReadInConfig: the lines are read, the parser's tables are gone.
ReadInConfig ==
  /\ reading = "lines"
  /\ written # NoText => text = renderAgentYAML(written)
  /\ reading' = "read"
  /\ found' = FieldIn(maps[1])
  /\ text' = <<>>
  /\ maps' = << <<>> >>
  /\ sections' = (-1 :> 1)
  /\ UNCHANGED <<written, input, value>>

\* merge of the file over the defaults.
Merged(kind) == IF found = Absent THEN Default(kind) ELSE found

\* applyEnvironmentOverrides: maps are descended into, not replaced.
applyEnvironmentOverrides(e, v) ==
  IF v.type \in {"map", "error"} \/ EnvText(e, "C") = "" THEN v
  ELSE Typed("string", e["C"])

ParseInt(t) == CASE t = One -> "1" [] t = Seven -> "7" [] OTHER -> ""
ParseBool(t) == IF t \in {True, One} THEN "true" ELSE ""

\* setField by the kind of the struct's field; fmt.Sprint for strings.
setField(kind, v) ==
  CASE v.type = "error" -> Failed
    [] v.type # "error" /\ kind = "string" -> Typed("string", v.text)
    [] v.type = "int" /\ kind = "int" -> v
    [] v.type = "bool" /\ kind = "bool" -> v
    [] v.type = "string" /\ kind = "int" /\ ParseInt(v.text) # "" -> Typed("int", ParseInt(v.text))
    [] v.type = "string" /\ kind = "bool" /\ ParseBool(v.text) # "" -> Typed("bool", ParseBool(v.text))
    [] OTHER -> Failed

\* The rest of Load: environment files, aliases, overrides, decoding.
Load(i) ==
  /\ reading = "read"
  /\ reading' = "loaded"
  /\ input' = i
  /\ LET e == normalizeEnvironmentAliases(loadEnvironmentFile(i.env, i.dotenv))
     IN  value' = IF Malformed \in Range(i.dotenv) THEN Failed
                  ELSE setField(i.kind, applyEnvironmentOverrides(e, Merged(i.kind)))
  /\ UNCHANGED <<parserVars, written, found>>

(***************************************************************************)
(* The operator's files and environment are arbitrary within the tokens;   *)
(* a file is written by hand (any lines) or by bootstrap.                  *)
(***************************************************************************)
Environments ==
  UNION {[names -> {"", Blank, One, Plain}] : names \in SUBSET {"C", "A"}}
DotenvLines == ({"C", "A"} \X {"", One, "xyz"}) \cup {Malformed}
Dotenvs == {<<>>} \cup {<<l>> : l \in DotenvLines} \cup {<<l, m>> : l, m \in DotenvLines}
Inputs == [kind : Kinds, env : Environments, dotenv : Dotenvs]
NoInput == [kind |-> "string", env |-> <<>>, dotenv |-> <<>>]

ConfigInit ==
  /\ text = <<>>
  /\ maps = << <<>> >>
  /\ sections = (-1 :> 1)
  /\ reading = "lines"
  /\ written \in Tokens \cup {NoText}
  /\ found = Absent
  /\ input = NoInput
  /\ value = Absent

ReadHandWritten ==
  /\ written = NoText
  /\ Len(text) < MaxLines
  /\ \E line \in Lines : ReadLine(line)

ReadRendered ==
  /\ written # NoText
  /\ Len(text) < 2
  /\ ReadLine(renderAgentYAML(written)[Len(text) + 1])

ConfigNext ==
  \/ ReadHandWritten \/ ReadRendered \/ BadLine
  \/ ReadInConfig
  \/ \E i \in Inputs : Load(i)

ConfigSpec == ConfigInit /\ [][ConfigNext]_configVars

-----------------------------------------------------------------------------
(***************************************************************************)
(* What the file says, from its lines alone.                               *)
(***************************************************************************)

\* The line under which line i stands: the nearest above it with less
\* indentation; 0 when there is none.
ParentLine(i) ==
  LET above == {j \in 1..(i - 1) : text[j].indent < text[i].indent}
  IN  IF above = {} THEN 0 ELSE CHOOSE j \in above : \A h \in above : h <= j

\* Each line is at the margin or one level below a header.
WellIndented ==
  \A i \in 1..Len(text) :
    \/ text[i].indent = 0
    \/ /\ ParentLine(i) # 0
       /\ text[ParentLine(i)].indent = text[i].indent - 2
       /\ text[ParentLine(i)].value = NoText

PathOf(i) ==
  LET path[j \in 1..i] ==
        IF ParentLine(j) = 0 THEN <<text[j].key>>
        ELSE Append(path[ParentLine(j)], text[j].key)
  IN  path[i]

\* The scalars no later line with the same path, or a prefix of it, replaces.
WrittenScalars ==
  {<<PathOf(i), parseScalar(text[i].value)>> :
     i \in {j \in 1..Len(text) :
              /\ text[j].value # NoText
              /\ \A h \in (j + 1)..Len(text) : ~ IsPrefix(PathOf(h), PathOf(j))}}

\* The scalars of the maps, followed from the root (three levels deep).
ScalarsAt(path, r) ==
  {<<Append(path, key), maps[r][key]>> :
     key \in {k \in DOMAIN maps[r] : maps[r][k].type # "map"}}
Below(nodes) ==
  {<<Append(n[1], key), maps[n[2]][key].ref>> :
     <<n, key>> \in {p \in nodes \X {"s", "k"} :
                       p[2] \in DOMAIN maps[p[1][2]] /\ maps[p[1][2]][p[2]].type = "map"}}
ReadScalars ==
  LET top == {<< <<>>, 1>>}
      second == Below(top)
  IN  UNION {ScalarsAt(n[1], n[2]) : n \in top \cup second \cup Below(second)}

(***************************************************************************)
(* parseSimpleYAML keeps a table of open sections by indentation instead   *)
(* of a stack.  A well-indented file is nevertheless read as written:      *)
(* never refused, and each scalar is found under the headers it stands     *)
(* under, with the last of several equal paths winning.                    *)
(***************************************************************************)
ParsedAsWritten ==
  WellIndented => reading # "error" /\ ReadScalars = WrittenScalars

(***************************************************************************)
(* Load ranks its layers: the field's own variable, set and not empty in   *)
(* the process environment, decides whatever the .env file, the alias and  *)
(* a scalar or absent key of the file say.  When neither environment names *)
(* the field, the file's scalar decides, and when it has none the default. *)
(***************************************************************************)
FromFile == setField(input.kind, Merged(input.kind))

LayersRanked ==
  (/\ reading = "loaded" /\ found.type # "map" /\ found # Failed
   /\ Malformed \notin Range(input.dotenv)) =>
    /\ Trimmed(EnvText(input.env, "C")) # ""
         => value = setField(input.kind, Typed("string", input.env["C"]))
    /\ ((\A name \in DOMAIN input.env : input.env[name] = "") /\ input.dotenv = <<>>)
         => value = FromFile

(***************************************************************************)
(* The configuration `bootstrap` writes is the one the service loads: a    *)
(* string written by renderAgentYAML comes back unchanged when no variable *)
(* overrides it, except for the texts the reader takes for something else  *)
(* (a number with leading zeros) or that %q escapes.                       *)
(***************************************************************************)
WrittenComesBack ==
  (/\ reading = "loaded"
   /\ input.kind = "string"
   /\ written \notin {NoText, Seven, Escaped}
   /\ input.env = <<>>
   /\ input.dotenv = <<>>)
    => value = Typed("string", written)


=============================================================================
