---------------------------- MODULE MetaProcessor ----------------------------
(***************************************************************************)
(* Lines at the prompt: MetaProcessor::process and the loop of             *)
(* UserInterface::runInteractively around it.  A line is a command, or a   *)
(* part of a statement that is collected until it is complete.             *)
(***************************************************************************)
EXTENDS MetaParser, InputValidator

CONSTANTS
  Session,       \* names of vocabularies
  Vocabulary(_), \* the lines that the user may type in a session
  MaxInput       \* bound: tokens of a statement

VARIABLES
  session,   \* \in Session
  input,     \* Seq(token): InputValidator::m_Input
  paren,     \* Seq(Opening \cup {"<"}): m_ParenStack
  result,    \* m_LastResult
  settings,  \* what commands set in the interpreter
  prompt,    \* [raw, indent] what the prompt shows
  did,       \* history: the last line and what became of it
  quit       \* BOOLEAN: m_IsQuitRequested, or the end of the input

validator == <<input, paren, result>>
vars == <<session, validator, settings, prompt, did, quit>>

Settings ==
  [rawInput : BOOLEAN, printDebug : BOOLEAN, dynamicExtensions : BOOLEAN,
   debug : 0..4, optLevel : 0..3]

(* The last line and what became of it: "text" is what was handed to the  *)
(* interpreter, and "verdict" what the validator said of it.               *)
Nothing == [kind |-> "nothing", line |-> <<>>, text |-> <<>>, verdict |-> "", call |-> NoCall]

-----------------------------------------------------------------------------
Prompt(raw, p) == [raw |-> raw, indent |-> Len(p)]

(* A switch is set, or toggled. *)
Switched(old, arg) == IF arg = <<>> THEN ~old ELSE ValueOf[arg[1]] # 0

DebugLevel(old, arg) ==
  IF arg = <<>> THEN IF old = 0 THEN 3 ELSE 0
  ELSE IF ValueOf[arg[1]] > 4 THEN 4 ELSE ValueOf[arg[1]]

OptLevel(old, arg) ==
  IF arg # <<>> /\ ValueOf[arg[1]] < 4 THEN ValueOf[arg[1]] ELSE old

(* MetaSema: what a call changes. *)
SettingsAfter(call) ==
  CASE call.act \in {"rawInput", "printDebug", "dynamicExtensions"} ->
         [settings EXCEPT ![call.act] = Switched(@, call.args[1])]
    [] call.act = "debug" -> [settings EXCEPT !.debug = DebugLevel(@, call.args[1])]
    [] call.act = "O" -> [settings EXCEPT !.optLevel = OptLevel(@, call.args[1])]
    [] OTHER -> settings

(* Mutant: the brackets stay. *)
ResetInput == input' = <<>> /\ result' = "kComplete" /\ UNCHANGED paren

(* InputValidator::reset *)
Reset == input' = <<>> /\ paren' = <<>> /\ result' = "kComplete"

TakesCommand(line) == ~InBlockComment(paren) /\ isMetaCommand(line).ok

(* An empty line: the prompt is that of the last one. *)
BlankLine(line) ==
  /\ line = <<>>
  /\ prompt' = Prompt(settings.rawInput, paren)
  /\ did' = Nothing
  /\ UNCHANGED <<validator, settings, quit>>

ActOn(line, call) ==
  /\ call.act # "runaway"
  /\ settings' = SettingsAfter(call)
  /\ quit' = (quit \/ call.act = "q")
  /\ IF call.act = "@" THEN Reset ELSE UNCHANGED validator
  /\ prompt' = IF quit' THEN prompt ELSE Prompt(settings'.rawInput, paren')
  /\ did' = [Nothing EXCEPT !.kind = "command", !.line = line, !.call = call]

Command(line) ==
  line # <<>> /\ TakesCommand(line) /\ ActOn(line, isMetaCommand(line).call)

(* InputValidator::validate appends the line to what was collected. *)
Collected(line) == IF input = <<>> THEN line ELSE Append(input, "\n") \o line

(* The statement goes on. *)
Collect(line) ==
  LET v == ScanLine(paren, line)
  IN /\ line # <<>> /\ ~TakesCommand(line)
     /\ ResultOf(v) = "kIncomplete"
     /\ input' = Collected(line) /\ paren' = v.stack /\ result' = "kIncomplete"
     /\ prompt' = Prompt(settings.rawInput, v.stack)
     /\ did' = [Nothing EXCEPT !.kind = "collected"]
     /\ UNCHANGED <<settings, quit>>

(* The statement is run.  If it throws, the loop keeps its old prompt. *)
Statement(line, kind) ==
  LET v == ScanLine(paren, line)
  IN /\ line # <<>> /\ ~TakesCommand(line)
     /\ ResultOf(v) # "kIncomplete"
     /\ Reset
     /\ prompt' = IF kind = "threw" THEN prompt ELSE Prompt(settings.rawInput, <<>>)
     /\ did' = [Nothing EXCEPT !.kind = kind, !.text = Collected(line), !.verdict = ResultOf(v)]
     /\ UNCHANGED <<settings, quit>>

(* The end of the input, without a line. *)
EndOfInput == quit' = TRUE /\ UNCHANGED <<validator, settings, prompt, did>>

-----------------------------------------------------------------------------
Init ==
  /\ session \in Session
  /\ input = <<>> /\ paren = <<>> /\ result = "kComplete"
  /\ settings = [rawInput |-> FALSE, printDebug |-> FALSE, dynamicExtensions |-> FALSE,
                 debug |-> 0, optLevel |-> 0]
  /\ prompt = Prompt(FALSE, <<>>)
  /\ did = Nothing /\ quit = FALSE

Type(line) ==
  /\ Len(Collected(line)) <= MaxInput
  /\ \/ BlankLine(line)
     \/ Command(line)
     \/ Collect(line)
     \/ \E kind \in {"statement", "threw"} : Statement(line, kind)

Next ==
  /\ ~quit /\ UNCHANGED session
  /\ (\E line \in Vocabulary(session) : Type(line)) \/ EndOfInput

Spec == Init /\ [][Next]_vars

-----------------------------------------------------------------------------
(* The members of MetaProcessor and InputValidator keep their types; a debug *)
(* level is one of those that there are.                                     *)
TypeOK ==
  /\ session \in Session
  /\ input \in Seq(STRING) /\ paren \in Seq(Opening \cup {"<"})
  /\ result \in {"kIncomplete", "kComplete"}
  /\ settings \in Settings
  /\ prompt \in [raw : BOOLEAN, indent : Nat]
  /\ did.kind \in {"nothing", "command", "collected", "statement", "threw"}
  /\ quit \in BOOLEAN

(* What the validator takes to be open is open in the text, and what it     *)
(* hands over as complete has nothing open, however the statement is        *)
(* broken into lines: as long as no bracket is wrong and no quote is in a   *)
(* comment, which the lexer takes for one of the code.                      *)
Judged(text) == WellFormed(text) /\ ~QuoteInComment(text)

KnowsWhatIsOpen ==
  /\ Judged(input) => SelectSeq(paren, LAMBDA t : t # "<") = Unmatched(input)
  /\ did.verdict = "kComplete" /\ Judged(did.text) => Unmatched(did.text) = <<>>

(* The prompt shows how many brackets are open, after every line that does  *)
(* not throw.                                                               *)
PromptIsCurrent ==
  did.kind # "threw" => prompt = Prompt(settings.rawInput, paren) \/ quit

(* The settings are legal, and the prompt is that of the state that process  *)
(* has left.                                                                 *)
PromptOK == TypeOK /\ PromptIsCurrent

(* Calls that the first token of a command can lead to. *)
CallsOf(t) ==
  CASE t = "?" -> {"help"}
    [] t \in {"O2"} -> {"O"}
    [] t = "trace" -> {"stats"}
    [] t \in {">", "&"} \cup Constant -> {"redirect", "none"}
    [] t = "!" -> {"!", "none"}
    [] OTHER -> {t}

(* Alternatives that take tokens and fail let later ones see the rest. *)
FallsTo(t) ==
  CASE t = "storeState" -> {"compareState", "stats", "undo", "redirect", "none"}
    [] t = "compareState" -> {"stats", "undo", "redirect", "none"}
    [] t = "stats" -> {"redirect", "none"}
    [] t \in {"&"} -> {"stats"}
    [] OTHER -> {}

(* A line runs the command that its first token names.  Where an alternative *)
(* that fails does not put back what it took, it may be a later one; none of *)
(* these loads, unloads a file, runs code or quits.                          *)
CommandIsNamed ==
  did.kind = "command" =>
    did.call.act \in CallsOf(did.line[2]) \cup FallsTo(did.line[2])

=============================================================================
