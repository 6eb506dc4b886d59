-------------------------------- MODULE Logger --------------------------------
(***************************************************************************)
(* indie::log::Logger: one call of Log(level, fmt, args...) and the        *)
(* formatting of its message (log/include/indie/log/Logger.hpp and         *)
(* details/StringFormat.hpp).  FormatMsg searches the text for "{0}",      *)
(* replaces it by the first argument, searches what it has become for      *)
(* "{1}", and so on.                                                       *)
(*                                                                         *)
(* A text is a sequence of characters and a format is put together from    *)
(* pieces.  An argument has the text its value stands for.                 *)
(***************************************************************************)
EXTENDS Naturals, Sequences, SequencesExt

CONSTANTS Base,       \* of the digits std::to_string writes: ten
          Level,      \* _level
          Letters,    \* bound of the model: characters a format is written with
          Texts,      \* bound of the model: what an argument may stand for
          MaxPieces,  \* bound of the model: pieces of a format
          MaxArgs     \* bound of the model: arguments of a call

ASSUME BaseAssumption == Base \in 2 .. 10
ASSUME LevelAssumption == Level \in 0 .. 5
ASSUME TextsAssumption == \A text \in Texts : text \in Seq(Range(text))
ASSUME BoundsAssumption == MaxPieces \in Nat /\ MaxArgs \in Nat

VARIABLES call,       \* history: the level, the format and the arguments
          to_format,  \* the text FormatMsg works on
          arg_pos,    \* the number of the next argument
          pc,         \* what Log is about to do
          out         \* history: what was written to std::cout

vars == <<call, to_format, arg_pos, pc, out>>

-----------------------------------------------------------------------------
Digit(d) == <<"0", "1", "2", "3", "4", "5", "6", "7", "8", "9">>[d + 1]

\* std::to_string(n).
to_string[n \in Nat] ==
  IF n < Base THEN <<Digit(n)>> ELSE Append(to_string[n \div Base], Digit(n % Base))

Placeholder(n) == <<"{">> \o to_string[n] \o <<"}">>

\* The places where a text has the given part.
Occurrences(part, text) ==
  { i \in 1 .. (Len(text) - Len(part) + 1) : SubSeq(text, i, i + Len(part) - 1) = part }

\* StringFormat::ToString(arg): numbers and strings have a specialisation, any
\* other type is written as its name.  The literal "..." is of such a type, a
\* pointer to const char.
Printed(arg) == IF arg.specialised THEN arg.text ELSE <<"T">>

\* What the caller passes.
Pieces == { Placeholder(n) : n \in 0 .. (MaxArgs - 1) }
            \cup { <<c>> : c \in Letters }

Arguments == [specialised : {TRUE}, text : Texts] \cup [specialised : {FALSE}, text : {<<"a">>}]

\* Trace to Critical.
LoggerLevel == 0 .. 5

Calls == [level : LoggerLevel, fmt : SeqOf(Pieces, MaxPieces),
          args : SeqOf(Arguments, MaxArgs)]

Init ==
  /\ call \in Calls
  /\ to_format = FlattenSeq(call.fmt)
  /\ arg_pos = 0
  /\ pc = "format"
  /\ out = <<>>

-----------------------------------------------------------------------------
Found == Occurrences(Placeholder(arg_pos), to_format)

\* The text after to_format.replace(pos, 3, arg).
Replaced(pos, arg) ==
  SubSeq(to_format, 1, pos - 1) \o Printed(arg)
    \o SubSeq(to_format, pos + 3, Len(to_format))

\* Mutant: cuts one character less than a place has.
SubstituteNarrow ==
  /\ pc = "format"
  /\ arg_pos < Len(call.args)
  /\ Found # {}
  /\ to_format' = SubSeq(to_format, 1, Min(Found) - 1) \o Printed(call.args[arg_pos + 1])
                    \o SubSeq(to_format, Min(Found) + 2, Len(to_format))
  /\ arg_pos' = arg_pos + 1
  /\ UNCHANGED <<call, pc, out>>

\* FormatMsg with an argument whose place is found.
Substitute ==
  /\ pc = "format"
  /\ arg_pos < Len(call.args)
  /\ Found # {}
  /\ to_format' = Replaced(Min(Found), call.args[arg_pos + 1])
  /\ arg_pos' = arg_pos + 1
  /\ UNCHANGED <<call, pc, out>>

\* FormatMsg returns: no argument is left, or the next one has no place.
FormatEnds ==
  /\ pc = "format"
  /\ arg_pos < Len(call.args) => Found = {}
  /\ pc' = "write"
  /\ UNCHANGED <<call, to_format, arg_pos, out>>

IsLoggable(level) == level >= Level

\* Log(level, msg).
Write ==
  /\ pc = "write"
  /\ out' = IF IsLoggable(call.level) THEN Append(out, to_format) ELSE out
  /\ pc' = "done"
  /\ UNCHANGED <<call, to_format, arg_pos>>

Next == Substitute \/ FormatEnds \/ Write

Spec == Init /\ [][Next]_vars

-----------------------------------------------------------------------------
(***************************************************************************)
(* What a message should be: the places are those of the format as it was  *)
(* given, whichever of them they are, and are all filled at once.          *)
(***************************************************************************)
Format == FlattenSeq(call.fmt)

Places(n) == Occurrences(Placeholder(n), Format)

\* The numbers of the arguments.
Numbers == 0 .. (Len(call.args) - 1)

\* The characters that a place of argument n at i takes.
Covered(n, i) == i .. (i + Len(Placeholder(n)) - 1)

\* What stands for character i of the format.
Instead(i) ==
  IF \E n \in Numbers : i \in Places(n)
  THEN call.args[(CHOOSE n \in Numbers : i \in Places(n)) + 1].text
  ELSE IF \E n \in Numbers : \E p \in Places(n) : i \in Covered(n, p)
  THEN <<>>
  ELSE <<Format[i]>>

Expected == FlattenSeq([i \in 1 .. Len(Format) |-> Instead(i)])

\* The calls that are served well.  Every "{" of the format opens a place; each
\* number of an argument has one place at most, and the ones that have none come
\* last; an argument that has a place can be printed, has no brace of its own and
\* a number of one digit.
Plain ==
  /\ \A i \in 1 .. Len(Format) :
       Format[i] = "{" => \E n \in 0 .. (MaxArgs - 1) : i \in Places(n)
  /\ \A n \in Numbers : \A i, j \in Places(n) : i = j
  /\ \A n \in Numbers, m \in Numbers : m < n /\ Places(n) # {} => Places(m) # {}
  /\ \A n \in Numbers :
       Places(n) # {} =>
         /\ call.args[n + 1].specialised
         /\ ~Contains(call.args[n + 1].text, "{") /\ ~Contains(call.args[n + 1].text, "}")
         /\ n < Base

\* Although each search runs over what earlier arguments have left, and places may
\* stand in the format in any order, a plain call writes what filling all places at
\* once would give, in one line, and nothing if its level is below the one of the
\* logger.
FilledAtOnce ==
  pc = "done" /\ Plain =>
    out = IF call.level >= Level THEN <<Expected>> ELSE <<>>
=============================================================================
